------------------------------ MODULE MCPlanner ------------------------------
(* Profiles, services and agendas for Planner. *)
EXTENDS Planner, TLC

Rule(id, anchor, relation, start, end) ==
  [id |-> id, anchor |-> anchor, relation |-> relation, start |-> start, end |-> end,
   first |-> FALSE]
All(id, title, relation) == <<Rule(id, {title}, relation, 0, NoEnd)>>
Item(id, what) == [id |-> id, what |-> what]

\* All songs after the first headline, or the last of them after another.
AfterH == All("main", "H", "after")
Split == <<Rule("lead", {"H"}, "after", 0, -1), Rule("last", {"T"}, "after", -1, NoEnd)>>
AfterE == All("other", "E", "after")
BeforeT == All("main", "T", "before")

SlotConfigs == ("p" :> {AfterH, Split}) @@ ("q" :> {AfterE})
BeforeConfigs == ("p" :> {BeforeT})

Headlines == {<<Item(1, "H"), Item(2, "E"), Item(3, "T")>>}
\* A song of the service and one that is not, to be kept and replaced
TwoSongs == {<<Item(1, "H"), Item(4, "A"), Item(5, "C"), Item(2, "E"), Item(3, "T")>>}

OneSong == {<<"A">>}
ManyServices == {<<>>, <<"A">>, <<"A", "B">>, <<"C">>}
=============================================================================
