CONSTANTS
  Clients = {c1, c2}
  Identities = {h1, h2}
  NoIdentity = NoIdentity
  MaxVersions = 2
  MaxRequests = 2
  FlightTicks = 4
  ResultTicks = 3
  CooldownTicks = 1
  WaitTicks = 2
  MessageTicks = 4
SPECIFICATION Spec
SYMMETRY Symmetry
INVARIANTS
  TypeOK
  RecordsAreRecent
  OutcomeMatchesTime
  BoundWhereWritten
