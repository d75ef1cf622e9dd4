---- MODULE MCTenantRouting ----
(* Model checking of TenantRouting: two tenants that want one domain.          *)
EXTENDS TenantRouting, TLC

CONSTANTS a1, a2, t1, t2

Symmetry == Permutations(Actors) \cup Permutations(Tenants)

====
