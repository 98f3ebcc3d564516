CONSTANTS
  Requests = {r1, r2}
  Null = Null
  Users = {ann, ben, cem}
  Workspaces = {w1}
  PlatformAdmins = {}
  OwnerQuota = 1
  MemberQuotas = {1, 2}
SPECIFICATION Spec
SYMMETRY Symmetry
INVARIANTS
  TypeOK
  AlwaysAnOwner
  OwnershipQuota
  OnlyLateRowsDeadlock
PROPERTIES
  SeatsAreLimited
  OnlyManagersManage
