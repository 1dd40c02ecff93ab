SPECIFICATION Spec
CONSTANTS
  Workers = {w1, w2}
  Tenants = {"org_01"}
  InvalidTenants = {}
  SchemaOf <- Prefixed
  TenantEnabled = TRUE
INVARIANT CreatesDoNotCollide
