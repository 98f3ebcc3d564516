---------------------------- MODULE MCSyncEngine ----------------------------
(* Plans as SyncPlanner produces them, and the bounds they are applied under. *)
EXTENDS SyncEngine, TLC

Tokens == Permutations(Executions)

Action(kind, ev, item, song) ==
  [kind |-> kind, ev |-> ev, item |-> item, song |-> song, before |-> 0, after |-> 0,
   afterAct |-> 0, deps |-> {}, owned |-> FALSE]
InsertBefore(ev, song, anchor) == [Action("insert", ev, 0, song) EXCEPT !.before = anchor]
InsertAfter(ev, song, anchor) == [Action("insert", ev, 0, song) EXCEPT !.after = anchor]
InsertAfterAct(ev, song, a) ==
  [Action("insert", ev, 0, song) EXCEPT !.afterAct = a, !.deps = {a}]
Item(id, song) == [id |-> id, song |-> song]

\* One event with the given actions and no preparation.
OneEvent(acts, items, owned) ==
  [act |-> acts, block |-> [k \in 0 .. 1 |-> IF k = 0 THEN <<>> ELSE [i \in DOMAIN acts |-> i]],
   status |-> <<"ready">>, agenda |-> <<items>>, owned |-> owned]

\* Two songs in front of a headline: both inserts name it as their anchor.
PlanBefore == OneEvent(<<InsertBefore(1, "A", 1), InsertBefore(1, "B", 1)>>,
                       <<Item(1, Header)>>, {})
\* The same song twice in front of a headline.
PlanTwice == OneEvent(<<InsertBefore(1, "A", 1), InsertBefore(1, "A", 1)>>,
                      <<Item(1, Header)>>, {})
\* Two songs at the end: the second is anchored on the first.
PlanAppend == OneEvent(<<InsertAfter(1, "A", 1), InsertAfterAct(1, "B", 1)>>,
                       <<Item(1, Header)>>, {})
\* The song to insert already stands, by a person's hand, right before the slot.
PlanBeside == OneEvent(<<InsertBefore(1, "A", 2)>>, <<Item(1, "A"), Item(2, Header)>>, {})
\* A slot whose song changes and an owned song that is no longer wanted.
PlanReplace == OneEvent(<<Action("replace", 1, 1, "A"), Action("delete", 1, 3, "Y")>>,
                        <<Item(1, "X"), Item(2, Header), Item(3, "Y")>>,
                        {[ev |-> 1, item |-> 1, by |-> 0], [ev |-> 1, item |-> 3, by |-> 0]})
\* A slot that is already right and an owned song that is no longer wanted.
PlanNoop == OneEvent(<<[Action("noop", 1, 1, "A") EXCEPT !.owned = TRUE],
                       Action("delete", 1, 3, "Y")>>,
                     <<Item(1, "A"), Item(2, Header), Item(3, "Y")>>,
                     {[ev |-> 1, item |-> 1, by |-> 0], [ev |-> 1, item |-> 3, by |-> 0]})
\* A song to create first, one event that needs it, one that only gives up a
\* binding, one that could not be matched and one to skip.
PlanCreate ==
  [act |-> <<Action("create", 1, 0, "N"),
             [InsertBefore(1, "N", 1) EXCEPT !.deps = {1}],
             Action("cleanup", 2, 7, Header)>>,
   block |-> [k \in 0 .. 4 |-> CASE k = 0 -> <<1>> [] k = 1 -> <<2>> [] k = 2 -> <<3>>
                                 [] OTHER -> <<>>],
   status |-> <<"ready", "ready", "ambiguous", "skipped">>,
   agenda |-> <<<<Item(1, Header)>>, <<>>, <<>>, <<>>>>,
   owned |-> {[ev |-> 2, item |-> 7, by |-> 0]}]

AllPlans == {PlanBefore, PlanTwice, PlanAppend, PlanBeside, PlanReplace, PlanNoop, PlanCreate}

AppendPlans == {PlanAppend}
=============================================================================
