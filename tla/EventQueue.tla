----------------------------- MODULE EventQueue -----------------------------
(***************************************************************************)
(* What the event outbox promises whoever publishes an event, without rows *)
(* locks, leases or workers: the event is delivered at least once before   *)
(* it counts as done, it is given up only after MaxAttempts failed         *)
(* deliveries, and a settled event comes back only because a delivery of   *)
(* it failed or an operator asked for it.                                  *)
(***************************************************************************)
EXTENDS Integers

CONSTANTS
  Events,
  MaxAttempts

VARIABLES
  state,      \* event -> where it is
  delivered,  \* events whose handlers have all run without an error
  failed,     \* event -> failed deliveries
  requests    \* requeue requests of the operator

queueVars == <<state, delivered, failed, requests>>

Init ==
  /\ state = [e \in Events |-> "absent"]
  /\ delivered = {}
  /\ failed = [e \in Events |-> 0]
  /\ requests = 0

Publish(e) ==
  /\ state[e] = "absent"
  /\ state' = [state EXCEPT ![e] = "queued"]
  /\ UNCHANGED <<delivered, failed, requests>>

Deliver(e) ==
  /\ state[e] # "absent"
  /\ delivered' = delivered \cup {e}
  /\ UNCHANGED <<state, failed, requests>>

\* A delivery fails.  When what failed is its acknowledgement, the event may
\* be done all the same.
Fail(e) ==
  /\ state[e] # "absent"
  /\ failed' = [failed EXCEPT ![e] = @ + 1]
  /\ \/ UNCHANGED state
     \/ e \in delivered /\ state' = [state EXCEPT ![e] = "done"]
  /\ UNCHANGED <<delivered, requests>>

Finish(e) ==
  /\ e \in delivered
  /\ state[e] # "absent"
  /\ state' = [state EXCEPT ![e] = "done"]
  /\ UNCHANGED <<delivered, failed, requests>>

Bury(e) ==
  /\ state[e] # "absent"
  /\ failed[e] >= MaxAttempts
  /\ state' = [state EXCEPT ![e] = "dead"]
  /\ UNCHANGED <<delivered, failed, requests>>

Request ==
  /\ requests' = requests + 1
  /\ UNCHANGED <<state, delivered, failed>>

Reopen(e) ==
  /\ state[e] \in {"done", "dead"}
  /\ failed[e] > 0 \/ requests > 0
  /\ state' = [state EXCEPT ![e] = "queued"]
  /\ UNCHANGED <<delivered, failed, requests>>

Next ==
  \/ Request
  \/ \E e \in Events :
       Publish(e) \/ Deliver(e) \/ Fail(e) \/ Finish(e) \/ Bury(e) \/ Reopen(e)

Spec == Init /\ [][Next]_queueVars
=============================================================================
