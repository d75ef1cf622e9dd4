---- MODULE MCTenantProvisioning ----
(* Model checking of TenantProvisioning: two request threads and two people    *)
(* whose companies have the same name.                                         *)
EXTENDS TenantProvisioning, TLC

CONSTANTS t1, t2, anna, bela

\* Threads are alike, and so are people.
Symmetry == Permutations(Actors) \cup Permutations(People)

====
