CONSTANTS
  Profiles = {p1}
  Executions = {e1, e2}
  Bodies = {b1}
  Connections = {c1}
  NoExec = NoExec
  NoPlan = NoPlan
  MaxRuns = 1
  MaxRevision = 1
  MaxFaults = 2
  LeaseTicks = 2
  RedeliveryTicks = 1
  IntervalTicks = 1
  DayTicks = 2
  CooldownTicks = 0
  BatchSize = 1
  ProfileQuota = 1
  BadConfig = {}
  BadSchedule = {}
SPECIFICATION FairSpec
PROPERTIES
  EveryRunEnds
