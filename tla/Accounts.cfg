CONSTANTS
  Requests = {r1, r2}
  Null = Null
  Sessions = {s1, s2}
  Codes = {c1, c2}
  MaxTokens = 2
  MaxPasswords = 2
  MaxSecrets = 2
SPECIFICATION Spec
SYMMETRY Symmetry
CHECK_DEADLOCK FALSE
INVARIANTS
  TypeOK
  SessionsAreCurrent
  SpentCodesStaySpent
  LinksWorkOnce
  OnlyVerificationDeadlocks
