SPECIFICATION Spec
CONSTANTS
  Executions = {e1, e2}
  NoExec = NoExec
  Plans <- AllPlans
  EditSongs = {"header", "A"}
  MaxEdits = 1
  MaxStalls = 1
  MaxCrashes = 1
  MaxErrors = 1
SYMMETRY Tokens
CHECK_DEADLOCK FALSE
INVARIANTS
  TypeOK
  FirstInsertOnce
  CheckpointIsOwned
  BindsOwnItems
