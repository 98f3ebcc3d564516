CONSTANTS
  Profiles = {p1, p2}
  Executions = {e1}
  Bodies = {b1}
  Connections = {c1}
  NoExec = NoExec
  NoPlan = NoPlan
  MaxRuns = 2
  MaxRevision = 1
  MaxFaults = 0
  LeaseTicks = 2
  RedeliveryTicks = 1
  IntervalTicks = 1
  DayTicks = 2
  CooldownTicks = 1
  BatchSize = 2
  ProfileQuota = 2
  BadConfig = {p2}
  BadSchedule = {p2}
SPECIFICATION Spec
INVARIANTS
  OneActiveRun
  ArchivedIsQuiet
