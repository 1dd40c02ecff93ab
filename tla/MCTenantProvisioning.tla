------------------------ MODULE MCTenantProvisioning ------------------------
(***************************************************************************)
(* TenantProvisioning on two workers, two tenants and an id that is        *)
(* refused: workers meet on one schema and pass each other on two.         *)
(***************************************************************************)
EXTENDS TenantProvisioning

Prefixed == [t \in Tenants |-> CASE t = "org_01" -> "tenant_org_01"
                                [] t = "b" -> "tenant_b"
                                [] t = "bad id" -> "tenant_bad id"]
=============================================================================
