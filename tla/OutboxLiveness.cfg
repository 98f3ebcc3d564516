CONSTANTS
  Runs = {r1}
  Mails = {m1}
  PushItems = {}
  Workers = {w1}
  Signals = {t1, t2}
  NoSignal = NoSignal
  NoItem = NoItem
  LeaseTicks = 2
  BackoffTicks = 1
  MaxAttempts = 1
  BatchSize = 1
  MaxFaults = 1
SPECIFICATION FairSpec
PROPERTIES
  EveryItemSettles
  EveryRunIsAnnounced
