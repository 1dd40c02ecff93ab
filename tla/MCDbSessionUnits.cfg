SPECIFICATION Spec
CONSTANTS
  Requests = {"r1"}
  Plans <- BothOrTenant
  Tenants = {a, b, bad}
  InvalidTenants = {bad}
  NoTenant = NoTenant
  Public = Public
  TenantEnabled = TRUE
  PoolSize = 1
  MaxOverflow = 1
  AnswerFirst = {}
  MaxCatch = 2
  MaxSessions = 3
INVARIANTS
  ConnectionsReturned
  OuterAfterInner
  SuccessIsDurable
PROPERTIES
  UnitsSpec
