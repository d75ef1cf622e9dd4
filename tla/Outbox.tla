------------------------------- MODULE Outbox -------------------------------
(***************************************************************************)
(* The platform event outbox: the table of event rows and the workers that *)
(* claim, dispatch, acknowledge and retry them                             *)
(* (core/kernel/events/{outbox,outbox_queries,worker_loop}.py).            *)
(*                                                                         *)
(* Time.  A timestamp column is kept as its distance to the database       *)
(* clock: lock is the age of locked_at, lease the time left before         *)
(* lease_until (negative once it has passed), retry the time left before   *)
(* next_retry_at.  Each stops counting where the code can no longer tell   *)
(* the difference, so time may run for ever in a finite state space.       *)
(*                                                                         *)
(* Transactions.  claim_next_batch holds row locks from its SELECT to its  *)
(* commit and is one step.  mark_processed, mark_failed, heartbeat and     *)
(* requeue_job load the row, then write it: two steps, between which any   *)
(* other transaction may commit.  The write is an UPDATE of the columns    *)
(* whose value differs from the loaded one, as the ORM's flush emits it.   *)
(***************************************************************************)
EXTENDS Integers, FiniteSets

CONSTANTS
  NumRows,         \* rows have the ids 1..NumRows
  Workers,         \* worker processes, each with a lock_owner of its own
  None,            \* NULL
  BatchSize,       \* batch_size
  MaxAttempts,     \* max_retries
  RetryDelay,      \* retry_delay_seconds
  StaleAfter,      \* stale_lock_after_sec
  ClaimLease,      \* lease_seconds of the worker, given to claim_next_batch
  Timeout,         \* row -> handler_timeout_seconds of its event type
  Lease,           \* row -> lease_seconds of its event type, for heartbeats
  HeartbeatAfter,  \* heartbeat_interval_seconds
  MaxCrashes,      \* bound: worker processes killed
  MaxFaults,       \* bound: transactions that fail
  MaxRequeues      \* bound: requeue requests of an operator

Rows == 1..NumRows

Backlogged == {"pending", "retry", "processing"}
Settled    == {"processed", "dead_letter"}

\* The columns of a row; "absent" stands for a row not inserted yet.
Columns == [status   : {"absent"} \cup Backlogged \cup Settled,
            attempts : Nat,
            owner    : Workers \cup {None},
            lock     : Nat \cup {None},
            lease    : Int \cup {None},
            retry    : Nat]

\* What a transaction that loaded a row remembers of it.
LoadedRow == [status : Backlogged \cup Settled, attempts : Nat,
              locked : BOOLEAN, leased : BOOLEAN]

ASSUME ConstantsAssumption ==
  /\ NumRows \in Nat
  /\ IsFiniteSet(Workers)
  /\ None \notin Int
  /\ None \notin Workers
  /\ None \notin LoadedRow
  /\ BatchSize \in Nat \ {0}
  /\ MaxAttempts \in Nat \ {0}
  /\ RetryDelay \in Nat \ {0}
  /\ StaleAfter \in Nat \ {0}
  /\ ClaimLease \in Nat \ {0}
  /\ Timeout \in [Rows -> Nat \ {0}]
  /\ Lease \in [Rows -> Nat \ {0}]
  /\ HeartbeatAfter \in Nat \ {0}
  /\ MaxCrashes \in Nat
  /\ MaxFaults \in Nat
  /\ MaxRequeues \in Nat

VARIABLES
  rows,       \* the table: id -> columns
  pc,         \* worker -> where its poll loop is
  batch,      \* worker -> claimed ids it has not finished, worked in id order
  elapsed,    \* worker -> how long the running handler has been joined
  seen,       \* worker -> the row its mark_* transaction loaded
  beating,    \* <<worker, id>>: heartbeat transactions that loaded the row
  zombies,    \* <<worker, id>>: handler threads given up on, still running
  operator,   \* requeue_job in flight: the id and the row it loaded
  handled,    \* history: ids a dispatch of which ran without an error
  failures,   \* history: id -> dispatches that reached mark_failed
  spent       \* crashes, faults and requeues so far

vars == <<rows, pc, batch, elapsed, seen, beating, zombies, operator,
          handled, failures, spent>>

workerVars == <<pc, batch, elapsed, seen, beating, zombies>>

-----------------------------------------------------------------------------
(* The row and the writes of the repository's methods.                     *)

NewRow == [status |-> "pending", attempts |-> 0, owner |-> None,
           lock |-> None, lease |-> None, retry |-> 0]

NoRow == [NewRow EXCEPT !.status = "absent"]

\* Slips of the filter: rows of dead workers are never taken back; a lease
\* left on a settled row takes it back.
EligibleOnce(row) == row.status \in {"pending", "retry"} /\ row.retry = 0

EligibleByLease(row) ==
  \/ EligibleOnce(row)
  \/ row.lease # None /\ row.lease < 0
  \/ row.lock # None /\ row.lock > StaleAfter

\* outbox_eligible_filter
Eligible(row) ==
  \/ row.status \in {"pending", "retry"} /\ row.retry = 0
  \/ /\ row.status = "processing"
     /\ \/ row.lease # None /\ row.lease < 0
        \/ row.lock # None /\ row.lock > StaleAfter

\* ORDER BY id LIMIT n over a set of ids
FirstOf(ids, n) ==
  {r \in ids : Cardinality({q \in ids : q < r}) < n}

\* A slip: the claim counts the attempt, as a visibility-timeout queue would.
ClaimCounts(row, w) ==
  [row EXCEPT !.status = "processing", !.owner = w, !.attempts = @ + 1,
              !.lock = 0, !.lease = ClaimLease]

MarkClaimed(row, w) ==
  [row EXCEPT !.status = "processing", !.owner = w,
              !.lock = 0, !.lease = ClaimLease]

\* What a later flush needs of the row it loaded: the values of the columns
\* it may leave unwritten, and which of the lock columns were NULL.
Loaded(row) ==
  [status |-> row.status, attempts |-> row.attempts,
   locked |-> row.lock # None, leased |-> row.lease # None]

\* A column is written only when its new value differs from the loaded one.
WriteStatus(row, was, status) ==
  IF was.status = status THEN row ELSE [row EXCEPT !.status = status]

ReleaseLock(row, was) ==
  [row EXCEPT !.owner = IF was.locked THEN None ELSE @,
              !.lock  = IF was.locked THEN None ELSE @,
              !.lease = IF was.leased THEN None ELSE @]

MarkProcessed(row, was) ==
  WriteStatus(ReleaseLock(row, was), was, "processed")

\* A slip: the failure releases the row without moving it on.
FailedStays(row, was) ==
  [ReleaseLock(row, was) EXCEPT !.attempts = was.attempts + 1]

MarkFailed(row, was) ==
  LET n == was.attempts + 1
      released == [ReleaseLock(row, was) EXCEPT !.attempts = n]
  IN  IF n >= MaxAttempts
      THEN WriteStatus(released, was, "dead_letter")
      ELSE WriteStatus([released EXCEPT !.retry = RetryDelay * n], was, "retry")

Requeue(row, was) ==
  WriteStatus([ReleaseLock(row, was) EXCEPT !.retry = 0], was, "pending")

Older(row) ==
  [row EXCEPT !.lock  = IF @ = None \/ @ > StaleAfter THEN @ ELSE @ + 1,
              !.lease = IF @ = None \/ @ < 0 THEN @ ELSE @ - 1,
              !.retry = IF @ = 0 THEN @ ELSE @ - 1]

-----------------------------------------------------------------------------
Init ==
  /\ rows     = [r \in Rows |-> NoRow]
  /\ pc       = [w \in Workers |-> "poll"]
  /\ batch    = [w \in Workers |-> {}]
  /\ elapsed  = [w \in Workers |-> 0]
  /\ seen     = [w \in Workers |-> None]
  /\ beating  = {}
  /\ zombies  = {}
  /\ operator = None
  /\ handled  = {}
  /\ failures = [r \in Rows |-> 0]
  /\ spent    = [crashes |-> 0, faults |-> 0, requeues |-> 0]

\* The item process_batch is at: its batch is worked in id order.
IsCurrent(w, r) == r \in batch[w] /\ \A q \in batch[w] : r <= q

Goto(w, from, to) == pc[w] = from /\ pc' = [pc EXCEPT ![w] = to]

-----------------------------------------------------------------------------
(* The web process and the clock.                                          *)

Append(r) ==
  /\ rows[r].status = "absent"
  /\ rows' = [rows EXCEPT ![r] = NewRow]
  /\ UNCHANGED <<workerVars, operator, handled, failures, spent>>

\* thread.join wakes at its timeout: time does not pass a running handler's.
Tick ==
  /\ \A w \in Workers, r \in Rows :
        pc[w] = "run" /\ IsCurrent(w, r) => elapsed[w] < Timeout[r]
  /\ rows' = [r \in Rows |-> Older(rows[r])]
  /\ elapsed' = [w \in Workers |->
                   IF pc[w] = "run" THEN elapsed[w] + 1 ELSE elapsed[w]]
  /\ UNCHANGED <<pc, batch, seen, beating, zombies, operator, handled,
                 failures, spent>>

-----------------------------------------------------------------------------
(* The poll loop of worker w.                                              *)

\* What claim_next_batch selects, and what its commit leaves in the table.
Due == FirstOf({r \in Rows : Eligible(rows[r])}, BatchSize)

ClaimRows(w) ==
  /\ Due # {}
  /\ rows' = [r \in Rows |-> IF r \in Due THEN MarkClaimed(rows[r], w)
                                         ELSE rows[r]]

\* process_batch: claim the first BatchSize eligible rows.  (A claim that
\* finds none sleeps for a poll interval: a stuttering step.)
Claim(w) ==
  /\ Goto(w, "poll", "next")
  /\ ClaimRows(w)
  /\ batch' = [batch EXCEPT ![w] = Due]
  /\ UNCHANGED <<elapsed, seen, beating, zombies, operator, handled,
                 failures, spent>>

BatchDone(w) ==
  /\ batch[w] = {}
  /\ Goto(w, "next", "poll")
  /\ UNCHANGED <<rows, batch, elapsed, seen, beating, zombies, operator,
                 handled, failures, spent>>

\* dispatch_with_timeout starts the handler and the heartbeat thread.
StartHandler(w, r) ==
  /\ IsCurrent(w, r)
  /\ Goto(w, "next", "run")
  /\ elapsed' = [elapsed EXCEPT ![w] = 0]
  /\ UNCHANGED <<rows, batch, seen, beating, zombies, operator, handled,
                 failures, spent>>

\* Every handler registered for the event returned.
HandlerReturns(w, r) ==
  /\ IsCurrent(w, r)
  /\ Goto(w, "run", "ack")
  /\ handled' = handled \cup {r}
  /\ elapsed' = [elapsed EXCEPT ![w] = 0]
  /\ UNCHANGED <<rows, batch, seen, beating, zombies, operator, failures,
                 spent>>

\* The except branch of process_one.
Fails(w, r, from) ==
  /\ Goto(w, from, "nack")
  /\ failures' = [failures EXCEPT ![r] = @ + 1]
  /\ elapsed' = [elapsed EXCEPT ![w] = 0]

\* Some handler raised; the dispatcher ran the others and raised the first
\* error.
HandlerRaises(w, r) ==
  /\ IsCurrent(w, r)
  /\ Fails(w, r, "run")
  /\ UNCHANGED <<rows, batch, seen, beating, zombies, operator, handled, spent>>

\* A slip: the timeout is swallowed, and the event acknowledged.
TimeoutAcks(w, r) ==
  /\ IsCurrent(w, r)
  /\ elapsed[w] >= Timeout[r]
  /\ Goto(w, "run", "ack")
  /\ elapsed' = [elapsed EXCEPT ![w] = 0]
  /\ zombies' = zombies \cup {<<w, r>>}
  /\ UNCHANGED <<rows, batch, seen, beating, operator, handled, failures, spent>>

\* The join times out: the heartbeat stops, the handler thread does not.
HandlerTimesOut(w, r) ==
  /\ IsCurrent(w, r)
  /\ elapsed[w] >= Timeout[r]
  /\ Fails(w, r, "run")
  /\ zombies' = zombies \cup {<<w, r>>}
  /\ UNCHANGED <<rows, batch, seen, beating, operator, handled, spent>>

\* The abandoned handler thread of w for r ends, having run all the handlers
\* or not.  (Several threads of one worker for one row are one element.)
ZombieEnds(w, r) ==
  /\ <<w, r>> \in zombies
  /\ zombies' = zombies \ {<<w, r>>}
  /\ handled' \in {handled, handled \cup {r}}
  /\ UNCHANGED <<rows, pc, batch, elapsed, seen, beating, operator, failures,
                 spent>>

-----------------------------------------------------------------------------
(* mark_processed and mark_failed.                                         *)

\* db.get of a mark_* method
LoadRow(w, r, from, to) ==
  /\ IsCurrent(w, r)
  /\ Goto(w, from, to)
  /\ seen' = [seen EXCEPT ![w] = Loaded(rows[r])]
  /\ UNCHANGED <<rows, batch, elapsed, beating, zombies, operator, handled,
                 failures, spent>>

\* db.commit of a mark_* method, then the next item of the batch
CommitRow(w, r, from, row) ==
  /\ IsCurrent(w, r)
  /\ Goto(w, from, "next")
  /\ rows' = [rows EXCEPT ![r] = row]
  /\ batch' = [batch EXCEPT ![w] = @ \ {r}]
  /\ seen' = [seen EXCEPT ![w] = None]
  /\ UNCHANGED <<elapsed, beating, zombies, operator, handled, failures, spent>>

AckLoad(w, r)    == LoadRow(w, r, "ack", "acking")
AckCommit(w, r)  == CommitRow(w, r, "acking", MarkProcessed(rows[r], seen[w]))
NackLoad(w, r)   == LoadRow(w, r, "nack", "nacking")
NackCommit(w, r) == CommitRow(w, r, "nacking", MarkFailed(rows[r], seen[w]))

\* The database call raises; the write may have reached the database.
Fault ==
  /\ spent.faults < MaxFaults
  /\ spent' = [spent EXCEPT !.faults = @ + 1]

\* claim_next_batch raises although its commit reached the database: the
\* loop sleeps and polls again, and nobody works the rows it claimed.
ClaimFault(w) ==
  /\ Fault
  /\ pc[w] = "poll"
  /\ ClaimRows(w)
  /\ UNCHANGED <<workerVars, operator, handled, failures>>

\* mark_processed raises inside the try of process_one: the event counts as
\* failed.
AckFault(w, r) ==
  /\ Fault
  /\ IsCurrent(w, r)
  /\ Fails(w, r, "acking")
  /\ rows' \in {rows, [rows EXCEPT ![r] = MarkProcessed(@, seen[w])]}
  /\ seen' = [seen EXCEPT ![w] = None]
  /\ UNCHANGED <<batch, beating, zombies, operator, handled>>

\* mark_failed raises outside it: run_poll_loop catches the exception, and
\* the rest of the batch is left claimed.
NackFault(w, r) ==
  /\ Fault
  /\ IsCurrent(w, r)
  /\ Goto(w, "nacking", "poll")
  /\ rows' \in {rows, [rows EXCEPT ![r] = MarkFailed(@, seen[w])]}
  /\ batch' = [batch EXCEPT ![w] = {}]
  /\ seen' = [seen EXCEPT ![w] = None]
  /\ UNCHANGED <<elapsed, beating, zombies, operator, handled, failures>>

-----------------------------------------------------------------------------
(* The heartbeat thread of worker w.                                       *)

HeartbeatLoad(w, r) ==
  /\ pc[w] = "run"
  /\ IsCurrent(w, r)
  /\ elapsed[w] >= HeartbeatAfter
  /\ <<w, r>> \notin beating
  /\ rows[r].status = "processing"
  /\ rows[r].owner \in {w, None}
  /\ beating' = beating \cup {<<w, r>>}
  /\ UNCHANGED <<rows, pc, batch, elapsed, seen, zombies, operator, handled,
                 failures, spent>>

HeartbeatCommit(w, r) ==
  /\ <<w, r>> \in beating
  /\ rows' = [rows EXCEPT ![r].lease = Lease[r]]
  /\ beating' = beating \ {<<w, r>>}
  /\ UNCHANGED <<pc, batch, elapsed, seen, zombies, operator, handled,
                 failures, spent>>

-----------------------------------------------------------------------------
(* The operator's requeue endpoint, and worker processes that die.         *)

\* A slip: the id is not looked up first.
RequeueAny(r) ==
  /\ operator = None
  /\ spent.requeues < MaxRequeues
  /\ operator' = [row |-> r, was |-> Loaded(rows[r])]
  /\ spent' = [spent EXCEPT !.requeues = @ + 1]
  /\ UNCHANGED <<rows, workerVars, handled, failures>>

RequeueLoad(r) ==
  /\ operator = None
  /\ spent.requeues < MaxRequeues
  /\ rows[r].status # "absent"
  /\ operator' = [row |-> r, was |-> Loaded(rows[r])]
  /\ spent' = [spent EXCEPT !.requeues = @ + 1]
  /\ UNCHANGED <<rows, workerVars, handled, failures>>

RequeueCommit ==
  /\ operator # None
  /\ rows' = [rows EXCEPT ![operator.row] = Requeue(@, operator.was)]
  /\ operator' = None
  /\ UNCHANGED <<workerVars, handled, failures, spent>>

\* The process is killed: its threads and its batch are gone, the rows it
\* had claimed stay as they are.
Crash(w) ==
  /\ pc[w] # "down"
  /\ spent.crashes < MaxCrashes
  /\ spent' = [spent EXCEPT !.crashes = @ + 1]
  /\ pc' = [pc EXCEPT ![w] = "down"]
  /\ batch' = [batch EXCEPT ![w] = {}]
  /\ elapsed' = [elapsed EXCEPT ![w] = 0]
  /\ seen' = [seen EXCEPT ![w] = None]
  /\ beating' = {b \in beating : b[1] # w}
  /\ zombies' = {z \in zombies : z[1] # w}
  /\ UNCHANGED <<rows, operator, handled, failures>>

Restart(w) ==
  /\ Goto(w, "down", "poll")
  /\ UNCHANGED <<rows, batch, elapsed, seen, beating, zombies, operator,
                 handled, failures, spent>>

-----------------------------------------------------------------------------
ItemStep(w, r) ==
  \/ StartHandler(w, r)
  \/ HandlerReturns(w, r)
  \/ HandlerRaises(w, r)
  \/ HandlerTimesOut(w, r)
  \/ AckLoad(w, r)
  \/ AckCommit(w, r)
  \/ NackLoad(w, r)
  \/ NackCommit(w, r)

LoopStep(w) == Claim(w) \/ BatchDone(w) \/ \E r \in Rows : ItemStep(w, r)

SideStep(w, r) ==
  \/ HeartbeatLoad(w, r)
  \/ HeartbeatCommit(w, r)
  \/ ZombieEnds(w, r)
  \/ AckFault(w, r)
  \/ NackFault(w, r)

Next ==
  \/ Tick
  \/ RequeueCommit
  \/ \E r \in Rows : Append(r) \/ RequeueLoad(r)
  \/ \E w \in Workers : LoopStep(w) \/ ClaimFault(w) \/ Crash(w) \/ Restart(w)
  \/ \E w \in Workers, r \in Rows : SideStep(w, r)

Spec == Init /\ [][Next]_vars

\* Time passes, a live worker keeps running its loop (a handler that never
\* returns ends in a timeout), a dead one is started again, and a request in
\* flight completes.  Nothing obliges a heartbeat, a zombie thread or an
\* operator to act.
Fairness ==
  /\ WF_vars(Tick)
  /\ WF_vars(RequeueCommit)
  /\ \A w \in Workers : WF_vars(LoopStep(w)) /\ WF_vars(Restart(w))

FairSpec == Spec /\ Fairness

-----------------------------------------------------------------------------
(* Properties.                                                             *)

PCs == {"poll", "next", "run", "ack", "acking", "nack", "nacking", "down"}

\* The type invariant: the columns of PlatformEventOutboxORM and the local
\* state of the poll loop; a mark_* method holds the row it loaded until its
\* commit.
TypeOK ==
  /\ rows \in [Rows -> Columns]
  /\ pc \in [Workers -> PCs]
  /\ batch \in [Workers -> SUBSET Rows]
  /\ elapsed \in [Workers -> Nat]
  /\ seen \in [Workers -> LoadedRow \cup {None}]
  /\ \A w \in Workers : pc[w] \in {"acking", "nacking"} => seen[w] # None
  /\ beating \subseteq Workers \X Rows
  /\ zombies \subseteq Workers \X Rows
  /\ operator \in [row : Rows, was : LoadedRow] \cup {None}
  /\ handled \subseteq Rows
  /\ failures \in [Rows -> Nat]
  /\ spent \in [crashes : 0..MaxCrashes, faults : 0..MaxFaults,
                requeues : 0..MaxRequeues]

\* No event is lost: a row says "processed" only when some dispatch of it ran
\* every handler without an error, whoever reclaimed, retried or requeued the
\* row meanwhile (mark_processed does not look at the row's state).
ProcessedWasHandled ==
  \A r \in Rows : rows[r].status = "processed" => r \in handled

\* A row is dead-lettered only after MaxAttempts dispatches of it failed: the
\* attempt counter may lose updates of workers racing in mark_failed, but it
\* never runs ahead of the failures.
DeadLetterEarned ==
  \A r \in Rows :
    rows[r].status = "dead_letter" => failures[r] >= MaxAttempts

\* A claimed row can be claimed again after its worker dies: one of the two
\* columns the claim filter looks at is set, although mark_* writes of
\* workers that lost the row clear them one by one.  (Proved of one worker,
\* checked of two with two attempts; false of more of either: README, Findings.)
ProcessingIsRecoverable ==
  \A r \in Rows :
    rows[r].status = "processing" => rows[r].lock # None \/ rows[r].lease # None

\* The same, once every worker and the operator are done with the row: it is
\* not left in a state no claim ever selects.  (Two workers and three attempts
\* may leave it so: README, Findings.)
NoRowStranded ==
  \A r \in Rows :
    /\ rows[r].status = "processing"
    /\ rows[r].lock = None /\ rows[r].lease = None
    => operator # None \/ \E w \in Workers : r \in batch[w] \/ <<w, r>> \in beating

\* Worker v runs the handler of r under a lease of its own that still holds.
HoldsLease(v, r) ==
  /\ pc[v] = "run" /\ IsCurrent(v, r)
  /\ rows[r].status = "processing" /\ rows[r].owner = v
  /\ rows[r].lease # None /\ rows[r].lease >= 0

\* A lease protects a job from being taken by a parallel worker: a claim does
\* not select a row whose running handler keeps its lease alive.  (It does:
\* README, Findings.)
LeaseProtects ==
  [][\A v, w \in Workers, r \in Rows :
       HoldsLease(v, r) /\ w # v => ~ (Claim(w) /\ r \in batch'[w])]_vars

\* ... and a worker that lost the row does not release the new owner's lease.
\* (It does: README, Findings.)
LeaseIsNotReleasedByOthers ==
  [][\A v, w \in Workers, r \in Rows :
       HoldsLease(v, r) /\ w # v => ~ (AckCommit(w, r) \/ NackCommit(w, r))]_vars

\* Retries back off exponentially: each delay of a row is at least twice the
\* one before.  (They are linear: README, Findings.)
BackoffDoubles ==
  [][\A r \in Rows :
       LET n == rows'[r].attempts
       IN  n > rows[r].attempts /\ rows'[r].status = "retry"
           => rows'[r].retry >= RetryDelay * 2 ^ (n - 1)]_vars

-----------------------------------------------------------------------------
(* The inductive invariant of OutboxProofs.                                *)

\* Workers between the failure of their dispatch of r and its mark_failed.
Failing(r) ==
  {w \in Workers : pc[w] \in {"nack", "nacking"} /\ IsCurrent(w, r)}

\* Whatever refers to a row refers to a row of the table.
OnlyPresentRows ==
  /\ \A w \in Workers, r \in Rows :
       r \in batch[w] \/ <<w, r>> \in beating \cup zombies
       => rows[r].status # "absent"
  /\ operator # None => rows[operator.row].status # "absent"
  /\ \A r \in handled : rows[r].status # "absent"

\* A requeue in flight has been requested.
RequeueWasRequested == operator # None => spent.requeues > 0

\* A worker that is about to acknowledge has seen its dispatch succeed.
AckWasHandled ==
  \A w \in Workers, r \in Rows :
    pc[w] \in {"ack", "acking"} /\ IsCurrent(w, r) => r \in handled

\* Each worker on its way to mark_failed is a failure that no attempt counter,
\* stored or loaded, has counted yet.
AttemptsCounted(r) ==
  /\ rows[r].attempts + Cardinality(Failing(r)) <= failures[r]
  /\ \A w \in Failing(r) :
       pc[w] = "nacking"
       => seen[w].attempts + Cardinality(Failing(r)) <= failures[r]

AttemptsAreFailures == \A r \in Rows : AttemptsCounted(r)

IInv ==
  /\ TypeOK
  /\ OnlyPresentRows
  /\ RequeueWasRequested
  /\ AckWasHandled
  /\ ProcessedWasHandled
  /\ AttemptsAreFailures
  /\ DeadLetterEarned

\* The outbox keeps the promise of EventQueue.
QueueState(row) ==
  CASE row.status \in Backlogged     -> "queued"
    [] row.status = "processed"      -> "done"
    [] row.status = "dead_letter"    -> "dead"
    [] OTHER                         -> "absent"

Queue == INSTANCE EventQueue WITH
           Events    <- Rows,
           state     <- [r \in Rows |-> QueueState(rows[r])],
           delivered <- handled,
           failed    <- failures,
           requests  <- spent.requeues

ImplementsQueue == Queue!Spec

\* Every appended event ends processed or dead-lettered, and stays so.
EventuallySettled ==
  <>[](\A r \in Rows : rows[r].status \in Settled \cup {"absent"})

=============================================================================
