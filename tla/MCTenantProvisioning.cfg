SPECIFICATION Spec
CONSTANTS
  Workers = {w1, w2}
  Tenants = {"org_01", "b", "bad id"}
  InvalidTenants = {"bad id"}
  SchemaOf <- Prefixed
  TenantEnabled = TRUE
INVARIANTS
  TypeOK
PROPERTIES
  CatalogSpec
  DestroyedOnPurpose
  EveryCallReturns
CHECK_DEADLOCK FALSE
