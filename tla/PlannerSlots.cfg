CONSTANTS
  Profiles = {"p", "q"}
  Songs = {"A", "B", "C"}
  Unmatched = {"C"}
  Services <- ManyServices
  Agendas <- TwoSongs
  Configs <- SlotConfigs
  Enforce = {"p"}
  Additions = {"A"}
  MaxRuns = 3
  MaxChanges = 1
  MaxEdits = 1
  MaxStops = 1
SPECIFICATION Spec
CHECK_DEADLOCK FALSE
INVARIANTS
  TypeOK
  RunsSettle
  OwnsOnlyWanted
PROPERTIES
  RunsTouchOnlyTheirOwn
