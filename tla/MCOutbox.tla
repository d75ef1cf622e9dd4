------------------------------ MODULE MCOutbox ------------------------------
(* Instances of Outbox for TLC.  Durations keep the order of the code's    *)
(* defaults: a short event is over well before a claim goes stale, a long  *)
(* one outlives the stale-lock limit and is carried by its heartbeats.     *)
EXTENDS Outbox, TLC

CONSTANTS w1, w2

\* One event of a short type (audit, email).
ShortTimeout == [r \in Rows |-> 1]
ShortLease   == [r \in Rows |-> 2]

\* One event of a long type (knowledge jobs: a timeout of 30 to 60 minutes
\* against stale_lock_after_sec = 300).
LongTimeout == [r \in Rows |-> 3]
LongLease   == [r \in Rows |-> 4]

WorkerSymmetry == Permutations(Workers)
=============================================================================
