---- MODULE MCBillingCycle ----
(* Model checking of BillingCycle: the worker's thread w and a second thread o *)
(* that carries page views (which run the due cycle too) and requests.         *)
EXTENDS BillingCycle

CONSTANTS w, o

====
