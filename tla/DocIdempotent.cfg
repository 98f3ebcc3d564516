SPECIFICATION Spec
CONSTANTS
  Executions = {e1, e2}
  NoExec = NoExec
  Plans <- AppendPlans
  EditSongs = {"header", "Z"}
  MaxEdits = 0
  MaxStalls = 0
  MaxCrashes = 1
  MaxErrors = 0
CHECK_DEADLOCK FALSE
INVARIANTS
  InsertedOnce
