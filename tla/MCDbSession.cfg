SPECIFICATION Spec
CONSTANTS
  Requests = {"r1", "r2"}
  Plans <- BothAndTenant
  Tenants = {}
  InvalidTenants = {}
  NoTenant = NoTenant
  Public = Public
  TenantEnabled = FALSE
  PoolSize = 1
  MaxOverflow = 1
  AnswerFirst = {"r1"}
  MaxCatch = 0
  MaxSessions = 2
INVARIANTS
  TypeOK
  ConnectionsReturned
PROPERTIES
  UnitsSpec
  EveryRequestEnds
