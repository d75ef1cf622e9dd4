------------------------------ MODULE SmsQuota ------------------------------
(***************************************************************************)
(* The SMS quota of one tenant: apps/traffic reserves one unit per SMS     *)
(* against the plan's monthly quota plus the extra SMS bought, while       *)
(* apps/billing rewrites the subscription row that holds the plan and the  *)
(* extras (TrafficQuestionUsageRepository.py, TrafficService.py,           *)
(* billing/{service,repositories}.py).                                     *)
(*                                                                         *)
(* Traffic.  A reservation is one transaction that takes the subscription  *)
(* row FOR UPDATE: from its SELECT to its commit no other reservation      *)
(* reads and no billing UPDATE proceeds.  Its first touch of a month       *)
(* settles the extras of the month touched before.                         *)
(*                                                                         *)
(* Billing.  Every operation reads the row in one transaction, computes    *)
(* all its columns, and upserts them in another, which loads the row       *)
(* again and, as the ORM's flush does, writes the columns that differ from *)
(* the loaded ones.  Neither read locks.                                   *)
(***************************************************************************)
EXTENDS Integers, FiniteSets

CONSTANTS
  Users,         \* request threads of the tenant's users
  Billers,       \* owner requests and the billing worker
  None,          \* NULL
  Plans,
  Included,      \* plan -> questions_monthly
  Downgrades,    \* <<from, to>> that is_downgrade answers yes to
  FirstPlan,     \* the plan chosen at signup
  PackSize,      \* extra SMS of one addon pack
  MaxPeriod,     \* bound: months
  MaxPurchases,  \* bound: addon purchases started
  MaxChanges     \* bound: plan changes and status syncs started

Periods == 1..MaxPeriod

\* billing_subscriptions: the plan, the extra SMS, the scheduled plan.
Subscription == [plan : Plans, carryover : Nat, scheduled : Plans \cup {None}]

ASSUME QuotaAssumption ==
  /\ IsFiniteSet(Users)
  /\ None \notin Plans
  /\ None \notin Users
  /\ None \notin Subscription
  /\ Included \in [Plans -> Nat]
  /\ Downgrades \subseteq {p \in Plans \X Plans : p[1] # p[2]}
  /\ FirstPlan \in Plans
  /\ PackSize \in Nat \ {0}
  /\ MaxPeriod \in Nat \ {0}
  /\ MaxPurchases \in Nat
  /\ MaxChanges \in Nat

VARIABLES
  period,   \* the billing month, which starts on a fifth business day
  sub,      \* the subscription row
  touched,  \* months that have a row in traffic_question_usage_totals
  totals,   \* month -> its question_count
  lock,     \* the user whose transaction holds the subscription row, or None
  at,       \* user -> where its request is
  key,      \* user -> the period_key its request computed
  read,     \* user -> what its transaction read
  sent,     \* month -> rows in traffic_sms_sends
  job,      \* biller -> its operation, or None
  started,  \* purchases and changes started, for their bounds
  bought,   \* history: extra SMS paid for and credited
  spent,    \* history: units granted beyond the plan's quota
  changed,  \* history: the plan has changed, or its billing period at once
  raced     \* history: a late request or a billing write overtook another

vars == <<period, sub, touched, totals, lock, at, key, read, sent, job,
          started, bought, spent, changed, raced>>

history == <<bought, spent, changed, raced>>

AtLeastZero(n) == IF n < 0 THEN 0 ELSE n

-----------------------------------------------------------------------------
(* The quota.                                                              *)

\* available_total of reserve_question
Quota(plan, carryover) == AtLeastZero(Included[plan] + carryover)

\* q is the latest month before k that has been touched.
Precedes(q, k) ==
  /\ q \in touched /\ q < k
  /\ \A p \in touched : p < k => p <= q

\* Slips: the extras used are not deducted; the difference has no floor.
RemainingAll(row, used) == row.carryover
RemainingBelowZero(row, used) ==
  row.carryover - AtLeastZero(used - Included[row.plan])

\* The extras left once a month with that usage is over.
Remaining(row, used) ==
  AtLeastZero(row.carryover - AtLeastZero(used - Included[row.plan]))

\* _settle_addon_carryover_for_new_period returns c for month k.
Settles(k, c) ==
  \/ /\ k \in touched \/ \A q \in touched : q >= k
     /\ c = sub.carryover
  \/ /\ k \notin touched
     /\ \E q \in Periods : Precedes(q, k) /\ c = Remaining(sub, totals[q])

-----------------------------------------------------------------------------
NothingRead == [used |-> 0, carryover |-> 0]

Init ==
  /\ period = 1
  /\ sub = [plan |-> FirstPlan, carryover |-> 0, scheduled |-> None]
  /\ touched = {}
  /\ totals = [k \in Periods |-> 0]
  /\ lock = None
  /\ at = [u \in Users |-> "idle"]
  /\ key = [u \in Users |-> 1]
  /\ read = [u \in Users |-> NothingRead]
  /\ sent = [k \in Periods |-> 0]
  /\ job = [b \in Billers |-> None]
  /\ started = [purchases |-> 0, changes |-> 0]
  /\ bought = 0
  /\ spent = 0
  /\ changed = FALSE
  /\ raced = FALSE

NextMonth ==
  /\ period < MaxPeriod
  /\ period' = period + 1
  /\ UNCHANGED <<sub, touched, totals, lock, at, key, read, sent, job,
                 started, history>>

-----------------------------------------------------------------------------
(* Traffic: create_sms_send ("send"), list_sms_sends and get_overview      *)
(* ("view").                                                               *)

Moves(u, from, to) == at[u] = from /\ at' = [at EXCEPT ![u] = to]

\* The service takes period_key from the clock, then calls the repository.
Ask(u, what) ==
  /\ Moves(u, "idle", what)
  /\ key' = [key EXCEPT ![u] = period]
  /\ UNCHANGED <<period, sub, touched, totals, lock, read, sent, job, started,
                 history>>

\* The reads of the transaction.
Reads(u) ==
  /\ \/ Moves(u, "send", "sending")
     \/ Moves(u, "view", "viewing")
  /\ \E c \in {sub.carryover} \cup {Remaining(sub, totals[q]) : q \in Periods} :
        /\ Settles(key[u], c)
        /\ read' = [read EXCEPT ![u] = [used |-> totals[key[u]], carryover |-> c]]
  /\ UNCHANGED <<period, sub, touched, totals, key, sent, job, started, history>>

\* A slip: SELECT without FOR UPDATE.
ReadUnlocked(u) == Reads(u) /\ UNCHANGED lock

\* SELECT ... FOR UPDATE on the subscription waits for its holder.
ReadLocked(u) ==
  /\ lock = None
  /\ lock' = u
  /\ Reads(u)

\* The transaction ends.
Closes(u) ==
  /\ lock' = None
  /\ read' = [read EXCEPT ![u] = NothingRead]

\* The settled extras are written with the first row of the month.
Touch(u) ==
  /\ touched' = touched \cup {key[u]}
  /\ sub' = IF key[u] \in touched THEN sub
            ELSE [sub EXCEPT !.carryover = read[u].carryover]
  /\ raced' = (raced \/ \E k \in touched : k > key[u])
  /\ Closes(u)

Allowed(u) == read[u].used < Quota(sub.plan, read[u].carryover)

\* reserve_question commits one unit.
Reserve(u) ==
  /\ Allowed(u)
  /\ Moves(u, "sending", "reserved")
  /\ Touch(u)
  /\ totals' = [totals EXCEPT ![key[u]] = @ + 1]
  /\ spent' = IF read[u].used < Included[sub.plan] THEN spent ELSE spent + 1
  /\ UNCHANGED <<period, key, sent, job, started, bought, changed>>

\* ensure_addon_carryover_for_period
View(u) ==
  /\ Moves(u, "viewing", "idle")
  /\ Touch(u)
  /\ UNCHANGED <<period, totals, key, sent, job, started, bought, spent, changed>>

\* A slip: the answer of the reservation is not looked at.
SendsDenied(u) ==
  /\ \/ Moves(u, "sending", "reserved")
     \/ Moves(u, "viewing", "idle")
  /\ Closes(u)
  /\ UNCHANGED <<period, sub, touched, totals, key, sent, job, started, history>>

\* The quota is used up, a statement fails or the process dies: whatever the
\* transaction wrote is undone, the settlement of the month included.
Rollback(u) ==
  /\ \/ Moves(u, "sending", "idle")
     \/ Moves(u, "viewing", "idle")
  /\ Closes(u)
  /\ UNCHANGED <<period, sub, touched, totals, key, sent, job, started, history>>

\* create_sms_send logs the SMS in a transaction of its own ...
LogSms(u) ==
  /\ Moves(u, "reserved", "idle")
  /\ sent' = [sent EXCEPT ![key[u]] = @ + 1]
  /\ UNCHANGED <<period, sub, touched, totals, lock, key, read, job, started,
                 history>>

\* ... which may fail: the unit stays used.
LoseSms(u) ==
  /\ Moves(u, "reserved", "idle")
  /\ UNCHANGED <<period, sub, touched, totals, lock, key, read, sent, job,
                 started, history>>

-----------------------------------------------------------------------------
(* Billing.                                                                *)

\* The operation b reads the row with get_subscription.
Begin(b, op, plan, bound, max) ==
  /\ job[b] = None
  /\ started[bound] < max
  /\ started' = [started EXCEPT ![bound] = @ + 1]
  /\ job' = [job EXCEPT ![b] = [op |-> op, plan |-> plan, was |-> sub,
                                row |-> None, new |-> None, used |-> 0]]
  /\ UNCHANGED <<period, sub, touched, totals, lock, at, key, read, sent,
                 history>>

\* purchase_addon, once its payment has been accepted
Purchase(b) == Begin(b, "purchase", sub.plan, "purchases", MaxPurchases)

\* update_subscription and the upgrade endpoints.  A downgrade is scheduled,
\* and so is a shorter billing period of the same plan ...
ScheduleChange(b, plan) ==
  /\ <<sub.plan, plan>> \in Downgrades \/ plan = sub.plan
  /\ Begin(b, "schedule", plan, "changes", MaxChanges)

\* ... any other change takes effect at once, that of the period included.
Upgrade(b, plan) ==
  /\ <<sub.plan, plan>> \notin Downgrades
  /\ Begin(b, "upgrade", plan, "changes", MaxChanges)

\* apply_due_scheduled_plan_change; the paid period may end on any day.
ApplyScheduled(b) ==
  /\ sub.scheduled # None
  /\ Begin(b, "apply", sub.scheduled, "changes", MaxChanges)

\* sync_status of the billing worker and of every access check: the row is
\* rewritten with another status.
SyncStatus(b) == Begin(b, "sync", sub.plan, "changes", MaxChanges)

\* _upsert_subscription_from_existing computes every column from what was
\* read first; upsert_subscription loads the row once more.  The reads of the
\* month's use before it count as one with that load.
Upsert(b, op, row) ==
  /\ job[b] # None /\ job[b].op = op /\ job[b].new = None
  /\ job' = [job EXCEPT ![b] = [@ EXCEPT !.row = sub, !.new = row,
                                         !.used = totals[period]]]
  /\ UNCHANGED <<period, sub, touched, totals, lock, at, key, read, sent,
                 started, history>>

UpsertPurchase(b) ==
  Upsert(b, "purchase", [job[b].was EXCEPT !.carryover = @ + PackSize])

UpsertSchedule(b) ==
  Upsert(b, "schedule", [job[b].was EXCEPT !.scheduled = job[b].plan])

UpsertApply(b) ==
  Upsert(b, "apply", [job[b].was EXCEPT !.plan = job[b].plan, !.scheduled = None])

UpsertSync(b) == Upsert(b, "sync", job[b].was)

\* _apply_immediate_plan_change: what is left of the extras, and of the old
\* plan's quota in the month begun, become extras of the new plan.
UpsertUpgrade(b) ==
  LET was  == job[b].was
      used == totals[period]
  IN  Upsert(b, "upgrade",
             [plan      |-> job[b].plan,
              carryover |-> Remaining(was, used)
                            + AtLeastZero(Included[was.plan] - used),
              scheduled |-> None])

\* The UPDATE, which waits for the row lock.
Commit(b) ==
  /\ job[b] # None /\ job[b].new # None
  /\ lock = None
  /\ LET j == job[b]
     IN  /\ sub' = [c \in DOMAIN sub |->
                      IF j.new[c] = j.row[c] THEN sub[c] ELSE j.new[c]]
         /\ bought' = IF j.op = "purchase" THEN bought + PackSize ELSE bought
         /\ changed' = (changed \/ j.op = "upgrade" \/ j.new.plan # j.row.plan)
         /\ raced' = (raced \/ j.was # sub \/ j.row # sub
                            \/ (j.op = "upgrade" /\ j.used # totals[period]))
  /\ job' = [job EXCEPT ![b] = None]
  /\ UNCHANGED <<period, touched, totals, lock, at, key, read, sent, started,
                 spent>>

-----------------------------------------------------------------------------
TrafficStep(u) ==
  \/ Ask(u, "send")
  \/ Ask(u, "view")
  \/ ReadLocked(u)
  \/ Reserve(u)
  \/ View(u)
  \/ Rollback(u)
  \/ LogSms(u)
  \/ LoseSms(u)

BillingStep(b) ==
  \/ Purchase(b)
  \/ \E plan \in Plans : ScheduleChange(b, plan) \/ Upgrade(b, plan)
  \/ ApplyScheduled(b)
  \/ SyncStatus(b)
  \/ UpsertPurchase(b)
  \/ UpsertSchedule(b)
  \/ UpsertApply(b)
  \/ UpsertSync(b)
  \/ UpsertUpgrade(b)
  \/ Commit(b)

Next ==
  \/ NextMonth
  \/ \E u \in Users : TrafficStep(u)
  \/ \E b \in Billers : BillingStep(b)

Spec == Init /\ [][Next]_vars

-----------------------------------------------------------------------------
(* Properties.                                                             *)

Ops == {"purchase", "schedule", "apply", "sync", "upgrade"}

\* The type invariant: in particular the extras never go below zero, whatever
\* plan changes and stale billing writes do to them.
TypeOK ==
  /\ period \in Periods
  /\ sub \in Subscription
  /\ touched \subseteq Periods
  /\ totals \in [Periods -> Nat]
  /\ lock \in Users \cup {None}
  /\ at \in [Users -> {"idle", "send", "view", "sending", "viewing", "reserved"}]
  /\ key \in [Users -> Periods]
  /\ read \in [Users -> [used : Nat, carryover : Nat]]
  /\ sent \in [Periods -> Nat]
  /\ job \in [Billers -> {None} \cup
                [op : Ops, plan : Plans, was : Subscription,
                 row : Subscription \cup {None}, new : Subscription \cup {None},
                 used : Nat]]
  /\ started \in [purchases : 0..MaxPurchases, changes : 0..MaxChanges]
  /\ bought \in Nat
  /\ spent \in Nat
  /\ changed \in BOOLEAN
  /\ raced \in BOOLEAN

\* No overselling: a unit is granted only while the month's count is below the
\* quota of the plan and the extras the subscription row holds as the grant
\* commits, however many requests and billing writes race.
GrantWithinQuota ==
  [][\A k \in Periods :
       totals'[k] > totals[k] => totals'[k] <= Quota(sub'.plan, sub'.carryover)]_vars

\* Requests between their reservation and the log of their SMS.
Reserved(k) == {u \in Users : at[u] = "reserved" /\ key[u] = k}

\* Every SMS logged for a month used a unit of that month's quota.
SmsWereReserved ==
  \A k \in Periods : sent[k] + Cardinality(Reserved(k)) <= totals[k]

\* n extras are left: those of the row, less what the latest month has used of
\* them so far.
Balance(n) ==
  \/ touched = {} /\ n = sub.carryover
  \/ \E k \in touched :
       /\ \A q \in touched : q <= k
       /\ n = sub.carryover - AtLeastZero(totals[k] - Included[sub.plan])

\* Extra SMS are used once and never forgotten: what is left of them is what
\* was bought less what was granted beyond the plan's quota, over all months,
\* skipped ones included; as long as no change of plan or period has taken
\* effect and no billing write or late request has overtaken another.
ExtrasAddUp == ~ changed /\ ~ raced => Balance(bought - spent)

\* The rollover records what is left of the extras of the months before: the
\* first request of a month leaves no less than was bought and not granted.
\* (Not after a downgrade: README, Findings.)
RolloverKeepsExtras ==
  [][touched' # touched /\ ~ raced' => sub'.carryover >= bought - spent]_vars

\* remaining_total as the billing and traffic pages show it
RemainingTotal == AtLeastZero(Quota(sub.plan, sub.carryover) - totals[period])

\* What is left of the month comes over into the new plan: an upgrade that no
\* other write overlaps does not leave fewer SMS than there were before it.
\* (It may: README, Findings.)
UpgradeKeepsRemainder ==
  [][\A b \in Billers :
       Commit(b) /\ job[b].op = "upgrade" /\ sub'.plan # sub.plan /\ ~ raced'
       => RemainingTotal' >= RemainingTotal]_vars

=============================================================================
