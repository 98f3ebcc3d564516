CONSTANTS
  Profiles = {p1}
  Executions = {e1, e2}
  Bodies = {b1, b2}
  Connections = {c1, c2}
  NoExec = NoExec
  NoPlan = NoPlan
  MaxRuns = 1
  MaxRevision = 2
  MaxFaults = 2
  LeaseTicks = 2
  RedeliveryTicks = 1
  IntervalTicks = 1
  DayTicks = 2
  CooldownTicks = 0
  BatchSize = 1
  ProfileQuota = 1
  BadConfig = {}
  BadSchedule = {}
SPECIFICATION Spec
SYMMETRY TokenAndBodySymmetry
INVARIANTS
  TypeOK
  LeaseMatchesStatus
  AppliesPersistedPlan
  AppliesToPlannedTarget
  RunsAtQueuedRevision
PROPERTIES
  TerminalIsFinal
  LeaseRespected
  ImplementsFencedRun
