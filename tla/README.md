# A verification project for NYZRating

NYZRating is a multi-tenant platform (FastAPI, SQLAlchemy, PostgreSQL with one
schema per tenant, a React client). This directory holds TLA+ modules of the
parts of its backend where the order of steps decides whether it is right, the
TLC configurations that check them on small instances, and TLAPS proofs of the
properties that should hold for instances of any size. Paths below are relative
to `src/`.

## 1. Inventory

| Part | State | Operations | What is hard |
|---|---|---|---|
| **Event outbox and workers** `backend/core/kernel/events/{outbox,outbox_queries,worker_loop,worker}.py` | table of event rows (status, attempts, locked_at, leased_by, lease_until, next_retry_at); each worker's batch, running handler, heartbeat thread | append, claim_next_batch, mark_processed, mark_failed, heartbeat, requeue_job, poll loop, dispatch with timeout | workers racing over a row, stale ORM writes, handlers that outlive their timeout, killed workers, database errors half-way |
| **SMS quota** `backend/apps/traffic`, subscription row of `backend/apps/billing` | monthly totals, SMS log, plan, extra SMS, scheduled plan | create_sms_send, list_sms_sends, get_overview; purchase_addon, update_subscription, upgrade, apply_due_scheduled_plan_change, sync_status | requests and billing writes over one row, stale reads, the rollover of a month |
| **Billing cycle** `backend/apps/billing/{service,workflows,repositories,worker}.py` | invoices, payment events, cancellation requests, subscription status | due cycle (lifecycle, status, invoice, daily retry), settlement, cancel, restore, delete, payment event | charge-then-record, crash in between, several triggers of one job, copies written over newer rows |
| **Authentication: sessions** `backend/core/modules/auth`, `users` | sessions, allowlist of access tokens, user cache, security version, permissions-changed flag | login, refresh, logout, changes of the user row, each authenticated request | rotation of a token presented twice, caches updated after the commit, user objects written back |
| **Authentication: two-step login** `backend/core/modules/auth` | pending tokens, mailed codes, attempt counters | step 1, step 2 | counters read then written without locks, one rollback for all of a step |
| **Tenant signup and provisioning** `backend/core/modules/tenant/{signup,provisioning,repositories,schema}` | signup sessions, tenants, domains, schemas | signup, resend, confirm, provision, compensate, clean up | a saga of separate transactions with compensation, repeated confirmation |
| **Tenant routing, cache, custom domains** `backend/core/modules/tenant/{routing,cache.py}`, `backend/core/kernel/domain`, `backend/core/infrastructure/cache` | cached mappings and snapshots with a TTL, verified domains | resolve a request; add, verify, delete a domain; activate, deactivate, delete a tenant | a load that finishes after an invalidation, a domain that changes hands |
| Users `backend/core/modules/users` | users, invite tokens, user cache | create, update, delete, invite, set password | check-then-insert of the owner, stale cache |
| Event intake `event_channel.py`, `event_proxies.py` | none of its own | publish (backlog limit, idempotency key) | check-then-append |
| Sessions of the database `backend/core/kernel/db` | session and depth of the context | transaction, nested transaction | a nested transaction cannot roll back alone |
| Lifecycle `backend/core/kernel/{lifecycle,runtime}` | phase, probes, worker thread | start, drain, stop, readiness | order of shutdown |
| Tenant reset `backend/apps/settings/service/tenant_reset_service.py` | the owner, held in memory | purge, drop, upgrade, restore | a crash between drop and restore |
| Platform administration, settings, brand, audit, e-mail, HTTP filters, bootstrap, configuration, shared libraries, frontend, deployment | rows, files, process-local counters | create, read, update, delete; filters; rendering | little that depends on order |

How they interact. Services publish events through the channel; the outbox stores them,
and the worker (a process, or a thread of the web process when `INSTANCE_ROLE` is
combined) hands them to the handlers of audit, e-mail and other modules. Traffic and
billing share the row `billing_subscriptions`: traffic locks it, billing does not.
Provisioning calls users (the owner) and billing (the signup hook). Routing and
authentication read tenants and users through caches that the writers invalidate. The
billing lifecycle closes, drops and deletes tenants; provisioning creates them; routing
serves what is there. Most services run inside the `transaction()` of
`kernel/db/session.py`, which nests by sharing the session.

What makes each part correct:

- *outbox*: no event is lost or counts as done before its handlers ran; none is
  buried before its attempts are spent; every event settles; a lease should keep
  other workers away from a running handler;
- *SMS quota*: nothing is granted beyond the quota; no SMS without a unit; bought
  extras are used once and survive the month; an upgrade takes nothing away;
- *billing cycle*: what was paid for is what the subscription says, a period has
  one debt, a paid invoice stays paid, a cancelled tenant is deleted, but not
  before its waits are over; a debt restricts;
- *sessions*: one login at a time, revocation is final, a stale cache entry undoes
  nothing an administrator decided;
- *two-step login*: failed attempts are counted, neither lost nor invented, a
  pending login and a mailed code complete at most one login, requests do not block
  each other;
- *provisioning*: a slug belongs to one signup, a failed provisioning should leave
  nothing behind, a confirmed one leaves a whole tenant;
- *routing*: a verified domain belongs to a tenant that has proved it, every writer
  invalidates, what is stale all the same is so for a bounded time;
- *users*: a tenant has at most one owner, and never none;
- *transactions*: what a failed operation wrote is undone; *lifecycle*: ready
  means the parts run; *reset*: the owner survives.

`PROJECT.json` lists under `hazards` each place where these can go wrong.

## 2. Modules

| Module | What it is |
|---|---|
| `Outbox` | the outbox table and its workers |
| `EventQueue` | what the outbox promises a publisher, without rows, locks and workers |
| `MCOutbox` | instances of `Outbox` for TLC |
| `OutboxProofs` | theorems about `Outbox`, its refinement of `EventQueue` among them |
| `SmsQuota` | reservations against the subscription row, and billing's writes to it |
| `MCSmsQuota` | instances of `SmsQuota` for TLC |
| `SmsQuotaProofs` | theorems about `SmsQuota` |
| `AuthSessions` | the sessions of a user, the allowlist and the user cache |
| `AuthSessionsProofs` | theorems about `AuthSessions` |
| `LoginSteps` | pending tokens, mailed codes and attempt counters |
| `LoginStepsProofs` | theorems about `LoginSteps` |
| `BillingCycle` | the billing of one tenant, from invoices to deletion |
| `BillingCycleProofs` | theorems about `BillingCycle` |
| `TenantProvisioning` | signup for a slug, the provisioning saga, its compensation |
| `TenantProvisioningProofs` | theorems about `TenantProvisioning` |
| `TenantRouting` | custom domains and the two routing caches |
| `TenantRoutingProofs` | theorems about `TenantRouting` |
| `MCAuthSessions`, `MCLoginSteps`, `MCBillingCycle`, `MCTenantProvisioning`, `MCTenantRouting` | instances of these for TLC |

The modules are separate because the components share a row or a table at most:
`SmsQuota` has both writers of the subscription row, `BillingCycle` and
`TenantProvisioning` take the tenant's row from its creation to its deletion, and
`TenantRouting` takes it as something that opens and closes. `Outbox` and
`EventQueue` are composed by refinement.

A definition whose comment calls it a slip, a variant or forgotten is a wrong form
of the definition after it; no specification uses it. Putting it in the place of the
right one breaks a property, which shows that the property looks at that code.

### Outbox

State: `rows` is the table; `pc`, `batch`, `elapsed`, `seen` and `beating` are
the locals of each worker's poll loop, of the `mark_*` transaction it is in and of
its heartbeat thread; `zombies` are handler threads that `dispatch_with_timeout`
stopped waiting for; `operator` is a `requeue_job` in flight. `handled` and
`failures` are histories that only properties read.

A timestamp is kept as its distance to now and stops counting once the code
cannot tell the difference any more. Time is therefore unbounded in a finite
state space, and liveness can be checked.

| Code | Action |
|---|---|
| `append` | `Append` |
| `process_batch` / `claim_next_batch` (SELECT FOR UPDATE to commit: one step) | `Claim`, `ClaimFault` |
| `run_poll_loop` goes on | `BatchDone` |
| `dispatch_with_timeout` | `StartHandler`, `HandlerReturns`, `HandlerRaises`, `HandlerTimesOut`, `ZombieEnds` |
| `mark_processed`, `mark_failed`: load, then flush and commit | `AckLoad`/`AckCommit`, `NackLoad`/`NackCommit` |
| the same raising, before or after the commit took effect | `AckFault`, `NackFault` |
| `heartbeat` | `HeartbeatLoad`, `HeartbeatCommit` |
| `requeue_job` | `RequeueLoad`, `RequeueCommit` |
| death and restart of a worker process | `Crash`, `Restart` |
| the clock | `Tick` |

A load and its commit are two steps because nothing locks the row in between
(the default isolation is READ COMMITTED), and the flush of the ORM writes only
columns whose value differs from the loaded one. `seen` keeps just what that
needs. A claim that finds nothing is a stuttering step. Handlers are external:
they return, raise or hang.

Fairness (`FairSpec`): time passes; a live worker takes the steps of its loop
(`run_poll_loop`, worker_loop.py:26, loops until stopped and catches every
exception; a handler that hangs ends in the timeout); a requeue in flight ends;
a killed worker comes back (`docker-compose.vps.yml:67` says
`restart: unless-stopped`, and the combined role starts the worker thread with the
process). Nothing is assumed of heartbeats, zombies or operators.

### SmsQuota

State: the month; the subscription row `sub` (plan, extra SMS, scheduled plan);
the months that have a row of totals (`touched`, `totals`); the row lock; per
user request where it is, the period key it computed and what it read; the rows of
the SMS log; per billing operation (`job`) what it read first, what the upsert
loaded, and what it is about to write. `bought`, `spent`, `changed` and `raced`
are histories.

| Code | Action |
|---|---|
| `create_sms_send`: period key, `reserve_question`, log | `Ask("send")`, `ReadLocked`, `Reserve` or `Rollback`, `LogSms` or `LoseSms` |
| `list_sms_sends`, `get_overview`: `ensure_addon_carryover_for_period` | `Ask("view")`, `ReadLocked`, `View` |
| `_settle_addon_carryover_for_new_period` | `Settles`, `Remaining`, `Touch` |
| `purchase_addon` | `Purchase`, `UpsertPurchase`, `Commit` |
| `update_subscription` | `ScheduleChange`, `UpsertSchedule`, `Commit` |
| immediate plan change (`_apply_immediate_plan_change`) | `Upgrade`, `UpsertUpgrade`, `Commit` |
| `apply_due_scheduled_plan_change` | `ApplyScheduled`, `UpsertApply`, `Commit` |
| `sync_status` | `SyncStatus`, `UpsertSync`, `Commit` |
| the clock | `NextMonth` |

A billing operation reads the row, loads it again in the upsert, and writes the
columns that differ from the second load: three steps, any of which traffic or
another operation may come between. The write waits for the row lock.

### AuthSessions

State: the row of one user (security version, role, active, deleted); per issued
pair of tokens its version, whether its session row is valid and whether a client
holds it; the allowlist; the entry of the user cache; the permissions-changed
flag; per request its locals. `revoked`, `missed` (the allowed tokens that a removal
should have taken out and did not) and `spoiled` are histories.

| Code | Action |
|---|---|
| `LoginService`, end of a login: user, old sessions, new session, allowlist | `LoginUser`, `LoginKill`, `IssueCommit`, `IssueAllow` |
| `RefreshService.refresh`: version, session, reuse or rotation | `RefreshUser`, `RefreshSession`, `RefreshReuse`, `IssueCommit`, `IssueAllow` |
| `LogoutService.logout` and its router, whose `finally` clears either way | `LogoutSession`, `LogoutFails`, `LogoutClear` |
| `remove_by_user` of the allowlist: done, or its failure swallowed | `Removal` (in `LogoutClear`, `LogoutFails`, `UpdateClear`, `DeleteClear`) |
| `update_user`: read, write, commit, cache, allowlist and flag | `ChangeUser`, `ChangeKill`, `UpdateCommit`, `UpdateUncache`, `UpdateClear` |
| `delete_user` | `DeleteClear`, `ChangeUser`, `ChangeKill`, `DeleteCommit` |
| authenticator switched on or off | `ChangeUser`, `AuthenticatorBump`, `AuthenticatorKill` |
| initial password | `ChangeUser`, `InitialPassword`, `InitialUncache`, then a login |
| `record_failed_login`, `reset_failed_login`: read the row, write every column | `AttemptRead`, `AttemptWrite` |
| password by link | `SetPassword` |
| a call that raises (redis, database) or a death, at any step of any request | `Abort` |
| `AuthMiddleware`, then perhaps `PATCH /auth/me` | `CallCheck`, `CallLookup`, `CallFetch`, `CallStore`, `CallJudge`, `ProfileWrite`, `ProfileUncache` |

A request's step is a statement, a commit or a call that another request may come
between; an UPDATE of the user row waits for a `service.update` that has written it.
Tokens do not expire, since an expired one only does less. Safety only: no
fairness is assumed.

### LoginSteps

State: the pending tokens and mailed codes; the attempt counters per token, user
and IP address with their windows; row locks; per request its uncommitted writes.
`wrong`, `calm`, `opened` (pending tokens that completed a login) and `entered` (mailed
codes that did) are histories.

| Code | Action |
|---|---|
| `_login_step1`, `create_and_send_code` | `FirstStep`, `FirstStepCommit`, `FirstStepFails` |
| `_login_step2`: pending token, `is_blocked` per counter, the code | `SecondStep`, `Check`, `Judge` |
| `record_failed` per counter (read, then write), the end of the transaction | `Load`, `Write`, `Failed` |
| `reset_for_success`, `mark_as_used`, `consume` | `Reset`, `Marked`, `Consumed`, `Done` |
| times to live | `TokenExpires`, `CodeExpires`, `WindowEnds` |

A failed step keeps the counters it wrote, except the failure of an authenticator
code that reaches the limit: the exception for it leaves the transaction, which
rolls the counters back (`Kept`). An insert that meets a row and an update or
delete that misses one end the login with a rollback.

### BillingCycle

State: the tenant's row, whether it is open and has its schema; the subscription
row; invoices and cancellation requests; the one payment event; per actor the step
it is at and what it has read. `paid` follows what the customer has paid for until
something disturbs the account for good. Days are numbers.

| Code | Action |
|---|---|
| `process_cancellation_lifecycle` | `StartCycle`, `PassRow`, `CloseLapsed`, `Mark`, `DropSchema`, `Erase` |
| `sync_status` (from the cycle, a settlement, a refused retry) | `ReadTenant`, `SyncCancellation`, `Shut`, `Mark`, `Judge`, `Status` |
| `issue_subscription_payment_request` | `Bill`, `Issue` |
| `retry_failed_payments_daily`, `_mark_invoice_retry_meta` | `ReadDebt`, `Charge`, `DeclineRetry`, `Meta` |
| `settle_subscription`, `complete_subscription_billing` | `AskSettle`, `Charge`, `Complete`, `DeclineAdvance`, `DeclineSettle` |
| `_settle_debt_invoice_as_paid` | `Book`, `Extend`, `Reopen`, then `sync_status` |
| `cancel_subscription`, `restore_subscription_renewal`, `delete_service_access` | `AskCancel`/`Cancel`, `AskRestore`/`Restore`, `AskDelete`/`Shut`/`Mark` |
| `restore_cancelled_tenant` of the administrator | `AdminRestore` |
| `process_verified_payment_event` | `Deliver`, `ReadUpgrade`, `ApplyUpgrade` |
| death of a thread, error of a database call, lost answer of the provider | `Crash`, `DropSchema`, `Charge` |
| the clock | `NextDay` |

Fairness: an operation under way goes on (the call of the provider ends by its
timeout of 20 s), the worker starts its cycle hour after hour
(`worker.py:31`, a loop that logs every exception), and days pass. Operations take
seconds, so midnight comes between them (`NextDay` waits for `Quiet`, and its
fairness is strong because requests keep interrupting that). No request and no
fault has to come.

### TenantProvisioning

State: the signup session that holds the slug; the tenant's row with config,
domain and subscription; its schema and the owners in it; per request the step and
the compensation plan. `overlap` and `cut` are histories; `cut` names what was cut
short: a saga by a crash, a compensation by a crash or a failure of its own, a
`create` by an exception after its commit.

| Code | Action |
|---|---|
| `DemoSlugReserver.reserve`, `start_pending` | `Signup`, `Insert`, `Save`, `Mail`, `Release` |
| `resend_pending_verification` | `Resend`, `Save`, `Mail` or `Release` |
| expiry, `cleanup_expired_pending_sessions` | `Expire`, `Cleanup` |
| `confirm_and_provision`: decision, owner, hooks, completion | `Confirm`, `LoadOwner`, `Hooks`, `Complete` |
| `TenantProvisioner.provision` | `Look`, `MakeSchema`, `FindTenant`, `CreateTenant`, `FindOwner`, `CreateOwner`, `SetActor`, `MakeConfig`, `MakeDomain`, `Activate`, `Validate` |
| `_compensate` (its plan in `UndoOrder`), and a step of it that raises | `Undo`, `UndoFails` |
| an exception anywhere, of a call that has committed (`Written`) or not (`Unwritten`) | `Fault` |
| the death of the process | `Crash` |

### TenantRouting

State: the tenants; the row of one custom domain; the cache entries of the domain
and of each slug, each with the ticks it has left and the ticks it has been wrong;
per request its step, and what it has loaded. `proved`, `contested` and `excused` are
histories.

| Code | Action |
|---|---|
| `TenantResolutionService`: cache, repository, cache | `Visit`, `Get`, `Load`, `Put` |
| `DomainService` add, verify, delete; DNS; repository; invalidation | `Manage`, `Dns`, `Write`, `Drop` |
| activate, deactivate, permanently delete a tenant; invalidation | `SetTenant`, `Drop` |
| `cleanup_expired_demo_tenants` | `ExpireDemo` |
| death between commit and invalidation | `Crash` |
| the clock of the cache | `Tick` |

## 3. What the runs check

All runs finish. Those that pass explore their whole state space.

| Run | Instance | What it shows |
|---|---|---|
| `requeue` | 1 long event, 2 workers, 1 requeue | `TypeOK`, `ProcessedWasHandled`, `ImplementsQueue` |
| `live` | 1 long event, 2 workers, 2 attempts, 1 crash | `EventuallySettled` under `FairSpec`; `DeadLetterEarned`, `ProcessingIsRecoverable`: nothing is buried early, and a claimed row can be claimed again |
| `batch` | 2 short events in one batch, 1 worker, 1 fault | `EventuallySettled` when the fault abandons half a batch |
| `quota` | 2 users, 1 billing operation at a time, 3 plans (0, 1, 2 SMS), 2 months, 1 purchase, 2 changes | `TypeOK`, `GrantWithinQuota`, `SmsWereReserved`, `ExtrasAddUp` |
| `sessions` | 2 requests at a time, 2 pairs of tokens, 1 change of the user row, failures anywhere (5.9 million states) | `RevokedStaysOut`, `OneLiveSession`, `ProfileKeepsRole`: what was revoked opens nothing unless its removal was missed, and an undisturbed profile update gives back no role |
| `login` | 2 requests, 2 tokens, 1 address, mailed codes and authenticator, limit 1, 2 wrong codes (6.7 million) | `LimitHolds`, `BlockIsEarned`, `OneValidCode`, `NoReplay`, `NoStandoff` |
| `billing` | worker and owner, 5 days, 2 invoices, 1 cancellation, 2 requests, 1 fault (1.1 million) | `PaidIsCovered`, `OneDebtPerPeriod`, `PaidStaysPaid`, `NoEarlyDrop`, and under fairness `CancelledIsGone` |
| `provisioning` | 2 threads, 2 people, 5 requests, 2 faults (1.2 million) | `WholeOrNone`, `ActiveIsWhole`, `OwnOnly` |
| `routing` | 2 threads, 2 tenants, times to live 2 and 1, loads of at most 1 tick, 4 changes, 1 crash (9.0 million) | `VerifiedWasProved`, `RoutedByProof`, `CacheIsCurrent`, `StaleNoLonger` |
| `stranded` (violation) | 1 long event, 2 workers, 3 attempts, 1 crash, 1 fault | a row is left where no claim finds it |
| `debt` (violation) | the worker alone, no fault | a restriction for a debt ends by itself |
| `halfdone` (violation) | 1 person, 1 thread, 1 crash | the retry of a half-done signup completes an inactive tenant |

The bounds, and why they are enough.

- *Outbox.* Rows interact only through the batch of a worker, so one row with two
  workers shows every race over a row, and two rows in a batch show what a failure
  does to the rest of the batch; `MaxAttempts` is 2 so that both a retry and a dead
  letter happen (a third lets a row be stranded: Findings). The durations keep the
  order of the defaults: a long event outlives
  `stale_lock_after_sec`, its heartbeat comes earlier, a short one ends before.
- *SmsQuota.* Two requests are needed to race for the last unit; with quotas of 0 to
  2 every request decides something; two months are the least in which a settlement
  happens, and one purchase and two changes are enough for a change to be scheduled
  and applied with extras at stake.
- *AuthSessions.* Two tokens are a session and what replaces it, by login or rotation,
  both of which may be under way at once; two requests overlap at every pair of steps,
  and after either ends another may start, any number of times. One change of the
  version is enough to make a cache entry and a token stale.
- *LoginSteps.* A limit of 1 and two wrong codes are the least with an attempt
  within the limit and one beyond it; two requests race for each counter, and the
  three counters of each make the order of the locks matter.
- *BillingCycle.* In five days the subscription falls due (day 1), its invoice is
  retried, the tenant is closed for the debt (2 days) or for the cancellation (1 day
  past its effect) and dropped (1 day later). Two invoices are a request and a
  failed payment, or a payment in advance and the next. Cycles of the worker are not
  bounded.
- *TenantProvisioning.* Five requests are two signups with their confirmations and
  one more of any kind; two faults let a repeated attempt, or the compensation of
  the first, fail as well. A fault comes before or after the commit of its call.
- *TenantRouting.* Four changes are an add, a verification, a deletion and an add by
  another; entries live for different times, so that one runs out before the other.
  The number of lookups and of ticks is not bounded.

The bounds `MaxCrashes`, `MaxFaults`, `MaxRequeues`, `MaxPeriod`, `MaxPurchases`,
`MaxChanges`, `MaxTokens`, `MaxWrong`, `MaxRequests`, `MaxCancels`, `MaxInvoices`
and `MaxDay` appear in guards only; `MaxAge`, the ticks a lookup may take, is an
assumption of `StaleNoLonger` as well. Deadlock is checked in the runs of `Outbox`,
`SmsQuota` and `TenantRouting`, where something can always go on; in those of the
others requests, tokens, changes or days run out. Symmetry is used where no
liveness property is checked and workers, users, requests or tenants are
interchangeable.

### What histories exclude

Some properties hold only as long as no two operations of a kind overlap. Then a
history says so, and says no more: `calm` in `LoginSteps` counts the failures of
requests that ran alone, though others that overlapped may have come between;
`Undisturbed` in `AuthSessions` and `paid` in `BillingCycle` end where copies are
written over newer rows, `Undisturbed` and `RevokedStaysOut` also at a token in
`missed` (findings 12 and 13); `overlap` in `TenantProvisioning` is two confirmations at
once, `contested` in `TenantRouting` two tenants managing one domain at once. What
may happen then is listed here, and each is a consequence of reads that nothing
locks:

- two overlapping refreshes with one token both rotate it, two overlapping second
  steps with one pending token both log in, and overlapping wrong codes may count as
  one;
- `update_me` writes the whole user object it was authenticated with; an
  administrator's change in between is undone, and a deletion too. From the cache
  the object lacks `registration_completed_at`, `failed_login_attempts` and
  `pending_email_token_hash`, so that a pending e-mail confirmation is lost;
- `record_failed_login` and `reset_failed_login` read the row and write all of it back:
  a login attempt that an administrator's change overtakes writes the old role
  (`spoiled`);
- overlapping payments of one debt both charge (the provider gets no idempotency
  key); of two invoice rows made for one period by a race the constraint
  `uq_billing_invoice_tenant_type_period` keeps the second from being booked, and it
  is charged day after day; a retry's `_mark_invoice_retry_meta` may turn an invoice
  paid meanwhile back into a debt; a status written from a stale copy takes back a
  paid period or plan;
- a crash between `record_payment_event_once` and the upgrade loses the upgrade: the
  provider's next delivery counts as a duplicate;
- the compensation of one confirmation drops what another has built on; both may
  find no owner and create one each;
- `create_domain` keeps `verified_at` when it takes a row over and `verify_domain`
  asks by domain only: two tenants at once can leave a domain verified for the one
  that proved nothing.

### Findings

Three of these are runs. The others are properties that the modules still state,
each with an instance on which TLC finds the counterexample in less than a minute.

1. **A debt restricts for one day** (run `debt`, `RestrictionLasts`).
   `sync_status` counts a failed invoice only when it was issued after the last
   write of the subscription row, and writing the restriction is such a write: the
   next cycle lifts it. `workflows.py:137` says it lasts until the debt is settled.
2. **A half-done signup stays half done** (run `halfdone`, `RetryFinishes`): a
   confirmation repeated after a crash finds the tenant's row, skips the provisioning
   and completes the signup of an inactive tenant. `new_demo_signup.py:308` says that
   the whole flow is run again.
3. **A heartbeat does not protect a long handler** (`LeaseProtects`, on the instance
   of `live`). `heartbeat` moves `lease_until`; the claim takes rows back by
   `locked_at` as well. An event that runs longer than `stale_lock_after_sec` (300 s;
   some run up to an hour) is handled twice at the same time.
   `docs/architecture/outbox-worker.md:32` says the lease prevents this.
4. **A worker that lost its row still settles it** (`LeaseIsNotReleasedByOthers`, same
   instance): `mark_processed` and `mark_failed` never compare the owner.
5. **A row can be stranded** (run `stranded`, `NoRowStranded`). Writes of unchanged
   columns are left out, so a `mark_failed` that loaded the row as processed turns
   another worker's claim into `retry` *with* its lock; the next `mark_failed` loads
   that, a claim comes in between, and the commit clears lock and lease but writes no
   status. Once the claiming worker is killed, no claim finds the row again, and it
   never settles. `outbox.py:10` says it becomes claimable. Three workers need
   no failing call for it, two requeues will do as well. `ProcessingIsRecoverable` (and
   with it `EventuallySettled`) therefore is a property of few workers and attempts: of
   two and two in `live`, and by proof of one worker without requeues, which is what
   `docker-compose.vps.yml` starts; `scalability-strategy.md:164` allows more.
6. **The backoff is linear** (`BackoffDoubles`, 1 short event, 1 worker, 3 attempts);
   `worker.py:23` calls it exponential.
7. **An upgrade may take SMS away** (`UpgradeKeepsRemainder`): use beyond the old plan
   is subtracted from the extras carried over and counted again against the new plan.
8. **A downgrade reprices the month before** (`RolloverKeepsExtras`): the settlement of
   a new month takes the plan as it is now, not as it was.
9. **A lockout can be written away** (`LockoutHolds`, on the instance of `sessions`):
   `record_failed_login` leaves cache and tokens alone, and `PATCH /auth/me` writes
   `is_active` back from the cached user.
10. **The limit of authenticator codes does not hold** (`AuthenticatorLimitHolds`, on the
    instance of `login`): the failure that reaches the limit is rolled back by the
    exception raised for it, so the counter never gets there.
11. **A restored renewal may still close** (`RestoredStaysOpen`, the owner alone, 2
    cancellations, 4 requests): a second cancellation makes a second request, restoring
    takes back the later one only, and the lifecycle acts on the first.
12. **A logout may leave the access token allowed** (`RevokedIsForgotten`, on the
    instance of `sessions`). Where redis is required, `remove_by_user` returns without
    a word when there is no client or the deletion fails (`token_allowlist.py:105`,
    `:112`), and logout, update or deletion report success; its docstring (`:102`)
    says that all access tokens are invalidated. A logout does not raise the version,
    so the token works until it expires. What holds is `RevokedStaysOut`: the session
    is gone in any case, and the token is allowed only if its removal was missed.
13. **A role decision may be undone after a cut invalidation** (`RoleOutlivesCuts`, same
    instance). `update_user` commits the new role, drops the cache entry, then clears
    the allowlist (`admin_users_router.py:146`). When the drop raises
    (`user_cache.py:81`) or the process dies there, a stale entry and an old token
    agree in their version, and a later `PATCH /auth/me`, alone and on time, writes the
    old role back. A swallowed removal with a late put into the cache leads
    there as well.
14. **A create that fails late leaves its row** (`NothingIsLeft`, on the instance of
    `provisioning`). `TenantWriteRepository.create` commits, then refreshes the row and
    drops a cache entry (`tenant_write_repository.py:42`); when that raises, the plan
    does not have the tenant yet (`provisioner.py:69`), and the compensation drops the
    schema and leaves the row. The comment at `provisioner.py:185` says partial state is
    rolled back whatever the error. Each retry finds the row, skips the provisioning
    and misses the owner, and the slug stays taken. What holds is `WholeOrNone`: the
    row stays inactive, and nothing is added to it.

## 4. What is proved

TLAPS checks every obligation of the seven `*Proofs` modules, for every value of the
constants that satisfies the module's assumption: sets of workers, users, requests
and tokens are finite, durations and limits are positive or at least natural
numbers, NULL is none of the values it stands beside, and in `LoginSteps` the user,
tokens and addresses are told apart, as the scope column of the counters does.
Every invariant and action property that a passing run checks is a theorem, with
`ProcessingIsRecoverable` under the hypothesis it needs.

**Outbox.** `InvariantHolds` proves `IInv`; `TypeCorrect`, `NoEventIsLost`
(`ProcessedWasHandled`) and `NothingIsBuriedEarly` (`DeadLetterEarned`) follow.
The two safety properties are not inductive. A worker about to acknowledge must
have seen its dispatch succeed (`AckWasHandled`), and whatever a worker, heartbeat
or operator refers to must be in the table (`OnlyPresentRows`). For dead letters
the stored counter alone says too little, since two workers may count from the
same value: `AttemptsCounted` bounds the counter, the stored one and the one a
worker has loaded, *plus the number of workers on their way to `mark_failed`*, by
the failures so far. A lost update then only makes the counter lag.
`OutboxImplementsQueue` maps each step to a step or a stutter of `EventQueue`: a
worker that acts on a row it lost can bring a settled event back (it failed, or
an operator asked), never settle one that was not delivered.
`SoleWorkerRecovers` proves `ProcessingIsRecoverable` under `SoleWorker`: one
worker, no requeues. Then what a `mark_*` transaction loaded is what the row says
when it commits (`SeesItsRow`), so the status goes whenever the lock does. Without
the hypothesis it is false (finding 5).

**SmsQuota.** `TypeCorrect` includes that the extras never become negative.
`NothingIsOversold` rests on `Locking`: a user holds the lock exactly in the
middle of its transaction, and what it read then still is what the row and the
totals say, because no reservation and no billing UPDATE gets in; billing may
compute with whatever stale values it likes. `SmsAreReserved` counts the requests
between their unit and their log entry. `ExtrasAreKept` rests on `Ledger`: as
long as no plan changed and nothing overtook anything, the balance of the row
less the use of the latest month is what was bought less what was granted beyond
the plan, and every pending billing write either leaves the extras alone or adds
a pack to what they are.

**AuthSessions.** `TypeCorrect` counts the issues under way against `MaxTokens`.
`RevokedIsOut` needs more than what it states: a revoked token must also be one that the
client holds already (`Handed`, no step puts it into the allowlist again), and `Revokes`
says what each revocation has achieved at each of its steps. It holds whatever overlaps
and wherever requests are cut off, of every token whose removal was not missed; `missed`
is set by a swallowed `Removal` and by an `Abort` between the commit of a change and its
removal, and by nothing else. `AtMostOneSession` rests on `QuietAlone` (a request that
nothing overlapped is alone) and on `Replaces`: what it is about to insert replaces the
session there is. `ProfileRespectsRole` is the deepest. `Decided(v)` says that there is
a version v from which on the role is what it is: each copy of the user that a profile
update may write, in the cache or in the hands of a call, is either older than v or has
that role, and each token in the allowlist is as new as v unless the router that changed
the role has yet to clear it, or was kept from it (`missed`). A call compares the two
versions, so an old copy does not pass. That argument needs versions that grow, so the
property ends (`spoiled`) where a version is given twice: `increment_security_version`
(user_repository.py:170) writes what it read plus one, and two that overlap count as
one. It ends as well where an overlapped profile update or a login attempt has changed
the role already, and does not speak of a call with a missed token.

**LoginSteps.** `BlocksAreEarned` and `LimitKept` are the two sides of one ledger,
per counter. Failures that are under way stand between the codes found wrong and
the count: `EarnedAt` bounds what is counted *plus the requests on their way to
count* by the wrong codes, `EarnedBy` does the same for the number a request has
read and will write, since two may write the same. `Limited` is the lower bound: the
failures of requests that ran alone are in the count, and nobody passed the check
with as many as the limit. `NoCircle` orders the locks: every request takes its rows
in the order token, user, address, and what it waits for is held by one further
along, so there is a last one, which does not wait. `NeverReplayed` needs that a
token which opened a session is neither pending nor with a request that ran alone
(`Spent`), and that a mailed code which completed a login is not valid any more, nor
held by a request that ran alone and was let in, whichever pending token came with it
(`Redeemed`); `OneCode` that a first step that ran alone is about to withdraw each valid
code (`Mailed`).

**BillingCycle.** `PaymentsCount` says, of the step between the charge and the last
write too, how far the subscription is behind what was paid (`Covered`: by one cycle
while an operation has charged and not yet extended, by the plan while the delivery
that recorded the event has not applied it). That needs one payment under way
(`Alone`), whose debt is not paid yet (`Owed`), and at most one delivery between
recording and applying (`Once`), which only the unique event gives. `OneDebtAtMost` and
`PaymentsLast` come from the same invariant. All three end where copies overlapped
(`Disturbed`), and so do they where the constraint
`uq_billing_invoice_tenant_type_period` refuses an invoice whose settlement has been
charged: the money is taken, the debt stays and the next day charges it again. It
takes a declined settlement that races with `Issue`, or an upgrade that lowers the
period's end. `DropsInTime` holds of every interleaving: a closed request has waited
its days (`Waits`), and an operation that goes on to close one has seen them pass.

**TenantProvisioning.** `ActiveTenantIsWhole`, `AllOrNothing` and
`CompletedByItsOwner` are one induction along the saga: `Phase` lists what each
step may rely on (a step before the tenant's insert that there is no row, the owner's
that the table is empty, the validation that all is there), `Completed` that nobody works
on what is completed. All are under `~overlap`: two confirmations at once break
every one of them. `Left` is about the one row that no plan knows: a step before the
insert has no tenant in its plan, so a `create` that raises after its commit leaves
none there; from then on the row exists, nobody enters the saga, and the row stays
as bare as it was made. `RowWhole` and `ActiveWhole` differ in what may have been cut
short: a crash in the saga leaves a part of a tenant, but never an active one.

**TenantRouting.** All five properties of its run. `TypesHold` proves `TypeInv`,
which `TypeCorrect` and `StaleIsBounded` follow from: `StaleNoLonger` is not
inductive, since an entry may be put when its answer has been wrong for a while
already. `Timed` is: an answer is put having been wrong for no longer than its
lookup is old, and from then on the time it has been wrong *plus the time it has
left* never exceeds the time to live and the age of a lookup. `WritersInvalidate`
goes key by key (`Current`): a write changes the truth about a key and leaves its
writer about to drop that very key, only the drop removes the writer, and what does
not invalidate (a crash, a put that comes late, the expiry of a demo, the cascade
of a deletion) excuses the key. `VerifiedIsProved` and `RoutingIsProved`
hold as long as nobody contested the domain (`ProofInv`). `OneManager` says what
the requests in flight may rely on: all that are about to write the row do so for
one tenant, the row is that tenant's or nobody's, and a verification that is about
to write has its proof. Routing reads the cache and not the row, so
`CachedByProof` extends the claim to each entry, and to each answer a lookup is
about to put, however old it is.

Only model-checked: `EventuallySettled` and `CancelledIsGone` (liveness is out of the
prover's reach), `ProcessingIsRecoverable` of two workers with two attempts (it is
false of three attempts, so its reason is in the numbers of that instance), and the
violations.

## 5. What is not modelled

- *Outbox*: idempotency keys and the backlog limit at append, start and stop of the
  worker thread, read-only snapshots, faults of the heartbeat's own transaction (it
  is as if the heartbeat never came, which is modelled), and `claim`, `ack`, `fail`,
  `retry`, `dead_letter`, which nothing calls.
- *SmsQuota*: a tenant without a subscription row (signup creates it), the per-user
  counters and the event log that a reservation writes in the same transaction and
  that no decision reads, training usage, the payment before a purchase or upgrade.
- *AuthSessions*: owners and other users (they share nothing with this one), changes
  of the e-mail address or the password by the user, the branches of refresh that
  refuse (fingerprint, expiry), the tenant's own security version, the allowlist in
  memory that replaces redis outside of production. `refresh` does not look at
  `is_active`, `delete_user` clears the allowlist before it commits and leaves the
  cache entry, the switch of the authenticator leaves both: the model has them so.
- *LoginSteps*: the password step and its counter (`AttemptWrite` in `AuthSessions`), the
  session that a completed login issues (`LoginUser` there).
- *BillingCycle*: notices by e-mail and the marks that keep them from repeating,
  scheduled plan changes (`SmsQuota`), the debug clock and simulated payments, free
  plans, the invoice of an upgrade, `permanently_delete` of the administrator (it
  drops the schema before it asks again whether the tenant is inactive), closing
  and opening by the administrator (`TenantRouting`). A tenant closed by its
  cancellation that settles or buys again is activated, but its request stays, and
  its schema is dropped when its days are over: the model does this, and no document
  says otherwise.
- *TenantProvisioning*: limits, blocklist and other refusals, a confirmation repeated
  after completion (it issues another link), custom domains, the expiry of a demo
  after days (`ExpireDemo` in `TenantRouting`). A schema left behind by a failing
  create is in no plan; its owner may block the signup of another person
  ("Owner already exists").
- *TenantRouting*: the configuration in the snapshot, single-tenant mode, hosts that
  need no tenant, a slug used again after its deletion (the mapping of the domain
  stays cached up to 300 s then), several domains. The cache is one for all
  processes, as redis is in production; the memory backend is per process.
- *Other components.* Users: invitations and the creation of further users are a check
  and an insert; nothing outside the tests calls the change of one's own e-mail address
  (`request_email_change`), so that its link is never made. Event intake: a count and an
  insert. Tenant reset: a sequence without compensation, which loses the owner when it
  fails before the restore. Lifecycle: one thread. Transactions: each module above says
  which writes commit together. Platform administration, settings, brand, audit, e-mail,
  HTTP filters, bootstrap, configuration, shared libraries, documents, client and
  deployment are queries, forms, filters, layout and I/O; they make up most of the
  repository's lines, and their state has no protocol that a model could get wrong.

## 6. Plan

Done: the core (`Outbox`, `SmsQuota`), then `AuthSessions`, `LoginSteps`,
`BillingCycle`, `TenantProvisioning` and `TenantRouting`, and the proofs of all seven.

Next, in order:

1. An abstract specification of the subscription (paid up to a day, closed, deleted)
   that `BillingCycle` implements as long as nothing is disturbed, and its proof from
   `Covered` and `Waits`; the same of the signup of a slug (free, held, tenant).
2. What of `RolloverKeepsExtras` holds while plans do not change.
3. `TenantReset`: purge, drop, upgrade, restore, with a crash between the steps.
4. `OutboxIntake`, composed with `Outbox` at `Append`; invitations, composed with
   `AuthSessions` at `SetPassword`.

A new run has to ask something that none of the twelve asks; `batch` is the one to
merge with another first.
