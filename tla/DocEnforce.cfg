CONSTANTS
  Profiles = {"p"}
  Songs = {"A", "B"}
  Unmatched = {}
  Services <- OneSong
  Agendas <- Headlines
  Configs <- BeforeConfigs
  Enforce = {"p"}
  Additions = {}
  MaxRuns = 2
  MaxChanges = 0
  MaxEdits = 0
  MaxStops = 0
SPECIFICATION Spec
CHECK_DEADLOCK FALSE
INVARIANTS
  Converges
