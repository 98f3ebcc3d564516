CONSTANTS
  Runs = {r1}
  Mails = {}
  PushItems = {r1}
  Workers = {w1, w2}
  Signals = {t1, t2}
  NoSignal = NoSignal
  NoItem = NoItem
  LeaseTicks = 2
  BackoffTicks = 1
  MaxAttempts = 2
  BatchSize = 1
  MaxFaults = 2
SPECIFICATION Spec
SYMMETRY WorkerAndTokenSymmetry
INVARIANTS
  TypeOK
  LatestAttemptDecides
  RetriesAreBounded
  AcceptedIsAcknowledged
