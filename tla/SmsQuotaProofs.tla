--------------------------- MODULE SmsQuotaProofs ---------------------------
(* Theorems about SmsQuota, for any number of users and billing operations, *)
(* any catalogue of plans, any addon size and any bounds.                   *)
EXTENDS SmsQuota, FiniteSetTheorems, TLAPS

-----------------------------------------------------------------------------
(* Arithmetic of the quota.                                                 *)

LEMMA AtLeastZeroType ==
  ASSUME NEW n \in Int
  PROVE  /\ AtLeastZero(n) \in Nat
         /\ n >= 0 => AtLeastZero(n) = n
         /\ n <= 0 => AtLeastZero(n) = 0
BY DEF AtLeastZero

LEMMA IncludedType ==
  ASSUME NEW plan \in Plans
  PROVE  Included[plan] \in Nat
BY QuotaAssumption DEF QuotaAssumption

LEMMA RemainingType ==
  ASSUME NEW row \in Subscription, NEW used \in Nat
  PROVE  Remaining(row, used) \in Nat
<1>1. row.carryover \in Nat /\ row.plan \in Plans
  BY DEF Subscription
<1>2. used - Included[row.plan] \in Int
  BY <1>1, IncludedType
<1>3. AtLeastZero(used - Included[row.plan]) \in Nat
  BY <1>2, AtLeastZeroType
<1> QED
  BY <1>1, <1>3, AtLeastZeroType DEF Remaining

LEMMA FirstIsRow == [plan |-> FirstPlan, carryover |-> 0, scheduled |-> None]
                      \in Subscription
BY QuotaAssumption DEF QuotaAssumption, Subscription

LEMMA NoneIsNoRow == None \notin Subscription
BY QuotaAssumption DEF QuotaAssumption

LEMMA NoneIsNoPlan == None \notin Plans /\ None \notin Users
BY QuotaAssumption DEF QuotaAssumption

LEMMA BoundsType == /\ MaxPeriod \in Nat \ {0}
                    /\ MaxPurchases \in Nat
                    /\ MaxChanges \in Nat
                    /\ PackSize \in Nat \ {0}
BY QuotaAssumption DEF QuotaAssumption

-----------------------------------------------------------------------------
(* Types.                                                                   *)

Jobs == [op : Ops, plan : Plans, was : Subscription,
         row : Subscription \cup {None}, new : Subscription \cup {None},
         used : Nat]

LEMMA TypeInit == Init => TypeOK
<1> SUFFICES ASSUME Init PROVE TypeOK
  OBVIOUS
<1>1. 1 \in Periods
  BY BoundsType DEF Periods
<1>2. sub \in Subscription
  BY FirstIsRow DEF Init
<1>3. started \in [purchases : 0..MaxPurchases, changes : 0..MaxChanges]
  BY BoundsType DEF Init
<1>4. read \in [Users -> [used : Nat, carryover : Nat]]
  BY DEF Init, NothingRead
<1> QED
  BY <1>1, <1>2, <1>3, <1>4 DEF Init, TypeOK

LEMMA BeginType ==
  ASSUME TypeOK, NEW b \in Billers, NEW op \in Ops, NEW plan \in Plans,
         \/ Begin(b, op, plan, "purchases", MaxPurchases)
         \/ Begin(b, op, plan, "changes", MaxChanges)
  PROVE  TypeOK'
<1>1. started' \in [purchases : 0..MaxPurchases, changes : 0..MaxChanges]
  <2>1. CASE Begin(b, op, plan, "purchases", MaxPurchases)
    <3>1. started.purchases + 1 \in 0..MaxPurchases
      BY <2>1, BoundsType DEF Begin, TypeOK
    <3> QED
      BY <2>1, <3>1 DEF Begin, TypeOK
  <2>2. CASE Begin(b, op, plan, "changes", MaxChanges)
    <3>1. started.changes + 1 \in 0..MaxChanges
      BY <2>2, BoundsType DEF Begin, TypeOK
    <3> QED
      BY <2>2, <3>1 DEF Begin, TypeOK
  <2> QED
    BY <2>1, <2>2
<1> DEFINE j == [op |-> op, plan |-> plan, was |-> sub,
                 row |-> None, new |-> None, used |-> 0]
<1>2. j \in Jobs
  BY DEF TypeOK, Jobs
<1>3. job' = [job EXCEPT ![b] = j]
  BY DEF Begin
<1>4. UNCHANGED <<period, sub, touched, totals, lock, at, key, read, sent,
                  bought, spent, changed, raced>>
  BY DEF Begin, history
<1> HIDE DEF j
<1>5. job \in [Billers -> {None} \cup Jobs]
  BY DEF TypeOK, Jobs
<1>6. job' \in [Billers -> {None} \cup Jobs]
  BY <1>2, <1>3, <1>5
<1> QED
  BY <1>1, <1>4, <1>6 DEF TypeOK, Jobs

LEMMA UpsertType ==
  ASSUME TypeOK, NEW b \in Billers, NEW op, NEW row,
         job[b] \in Jobs => row \in Subscription, Upsert(b, op, row)
  PROVE  TypeOK'
<1>1. job \in [Billers -> {None} \cup Jobs]
  BY DEF TypeOK, Jobs
<1>2. job[b] \in Jobs /\ row \in Subscription
  BY <1>1 DEF Upsert
<1>3. sub \in Subscription /\ totals[period] \in Nat
  BY DEF TypeOK
<1> DEFINE j1 == [job[b] EXCEPT !.row = sub]
           j2 == [job[b] EXCEPT !.row = sub, !.new = row]
           j3 == [job[b] EXCEPT !.row = sub, !.new = row, !.used = totals[period]]
<1>4. j1 \in Jobs
  BY <1>2, <1>3 DEF Jobs
<1>5. j2 \in Jobs
  BY <1>2, <1>4 DEF Jobs
<1>6. j3 \in Jobs
  BY <1>3, <1>5 DEF Jobs
<1>7. job' = [job EXCEPT ![b] = j3]
  BY DEF Upsert
<1> HIDE DEF j1, j2, j3
<1>8. job' \in [Billers -> {None} \cup Jobs]
  BY <1>1, <1>6, <1>7
<1> QED
  BY <1>8 DEF Upsert, history, TypeOK, Jobs

\* What an operation has read is a row.
LEMMA WasIsRow ==
  ASSUME TypeOK, NEW b \in Billers, job[b] \in Jobs
  PROVE  /\ job[b].was \in Subscription
         /\ job[b].plan \in Plans
         /\ job[b].used \in Nat
         /\ job[b].row \in Subscription \cup {None}
         /\ job[b].new \in Subscription \cup {None}
BY DEF Jobs

LEMMA CommitType ==
  ASSUME TypeOK, NEW b \in Billers, Commit(b)
  PROVE  TypeOK'
<1> DEFINE j == job[b]
<1>1. job \in [Billers -> {None} \cup Jobs]
  BY DEF TypeOK, Jobs
<1>2. j \in Jobs /\ j.new \in Subscription
  BY <1>1, WasIsRow DEF Commit
<1>3. sub' = [c \in DOMAIN sub |-> IF j.new[c] = j.row[c] THEN sub[c] ELSE j.new[c]]
  BY DEF Commit
<1>4. sub \in Subscription
  BY DEF TypeOK
<1> HIDE DEF j
<1>5. sub' \in Subscription
  BY <1>2, <1>3, <1>4 DEF Subscription
<1>6. job' \in [Billers -> {None} \cup Jobs]
  BY <1>1 DEF Commit
<1>7. bought' \in Nat
  BY BoundsType DEF Commit, TypeOK
<1>8. changed' \in BOOLEAN
  BY Zenon DEF Commit, TypeOK
<1>9. raced' \in BOOLEAN
  BY Zenon DEF Commit, TypeOK
<1> QED
  BY <1>5, <1>6, <1>7, <1>8, <1>9 DEF Commit, TypeOK, Jobs

LEMMA TouchType ==
  ASSUME TypeOK, NEW u \in Users, Touch(u)
  PROVE  /\ touched' \subseteq Periods
         /\ sub' \in Subscription
         /\ lock' \in Users \cup {None}
         /\ read' \in [Users -> [used : Nat, carryover : Nat]]
         /\ raced' \in BOOLEAN
<1>1. touched' \subseteq Periods
  BY DEF Touch, TypeOK
<1>2. read[u].carryover \in Nat /\ sub \in Subscription
  BY DEF TypeOK
<1>3. [sub EXCEPT !.carryover = read[u].carryover] \in Subscription
  BY <1>2 DEF Subscription
<1>4. sub' \in Subscription
  BY <1>2, <1>3 DEF Touch
<1>5. raced' \in BOOLEAN
  BY Zenon DEF Touch, TypeOK
<1> QED
  BY <1>1, <1>4, <1>5 DEF Touch, Closes, NothingRead, TypeOK

LEMMA ReadsType ==
  ASSUME TypeOK, NEW u \in Users, Reads(u)
  PROVE  /\ read' \in [Users -> [used : Nat, carryover : Nat]]
         /\ at' \in [Users -> {"idle", "send", "view", "sending", "viewing",
                               "reserved"}]
<1>1. PICK c \in {sub.carryover} \cup {Remaining(sub, totals[q]) : q \in Periods} :
        read' = [read EXCEPT ![u] = [used |-> totals[key[u]], carryover |-> c]]
  BY DEF Reads
<1>2. sub \in Subscription /\ \A q \in Periods : totals[q] \in Nat
  BY DEF TypeOK
<1>3. \A q \in Periods : Remaining(sub, totals[q]) \in Nat
  BY <1>2, RemainingType
<1>4. c \in Nat
  BY <1>2, <1>3 DEF Subscription
<1>5. totals[key[u]] \in Nat
  BY DEF TypeOK
<1>6. read' \in [Users -> [used : Nat, carryover : Nat]]
  BY <1>1, <1>4, <1>5 DEF TypeOK
<1>7. \/ Moves(u, "send", "sending")
      \/ Moves(u, "view", "viewing")
  BY DEF Reads
<1> QED
  BY <1>6, <1>7 DEF Moves, TypeOK

LEMMA TrafficType ==
  ASSUME TypeOK, NEW u \in Users, TrafficStep(u)
  PROVE  TypeOK'
<1>1. CASE Ask(u, "send") \/ Ask(u, "view")
  BY <1>1 DEF Ask, Moves, history, TypeOK
<1>2. CASE ReadLocked(u)
  BY <1>2, ReadsType DEF ReadLocked, Reads, history, TypeOK
<1>3. CASE Reserve(u)
  <2>1. totals' \in [Periods -> Nat]
    BY <1>3 DEF Reserve, TypeOK
  <2>2. spent' \in Nat
    BY <1>3 DEF Reserve, TypeOK
  <2>3. at' \in [Users -> {"idle", "send", "view", "sending", "viewing", "reserved"}]
    BY <1>3 DEF Reserve, Moves, TypeOK
  <2> QED
    BY <1>3, <2>1, <2>2, <2>3, TouchType DEF Reserve, TypeOK
<1>4. CASE View(u)
  BY <1>4, TouchType DEF View, Moves, TypeOK
<1>5. CASE Rollback(u)
  BY <1>5 DEF Rollback, Moves, Closes, NothingRead, history, TypeOK
<1>6. CASE LogSms(u)
  BY <1>6 DEF LogSms, Moves, history, TypeOK
<1>7. CASE LoseSms(u)
  BY <1>7 DEF LoseSms, Moves, history, TypeOK
<1> QED
  BY <1>1, <1>2, <1>3, <1>4, <1>5, <1>6, <1>7 DEF TrafficStep

\* The rows the billing operations compute.
LEMMA UpsertedRows ==
  ASSUME TypeOK, NEW b \in Billers, job[b] \in Jobs
  PROVE  /\ [job[b].was EXCEPT !.carryover = @ + PackSize] \in Subscription
         /\ [job[b].was EXCEPT !.scheduled = job[b].plan] \in Subscription
         /\ [job[b].was EXCEPT !.plan = job[b].plan, !.scheduled = None]
              \in Subscription
         /\ [plan      |-> job[b].plan,
             carryover |-> Remaining(job[b].was, totals[period])
                           + AtLeastZero(Included[job[b].was.plan]
                                         - totals[period]),
             scheduled |-> None] \in Subscription
<1> DEFINE was  == job[b].was
           plan == job[b].plan
           left == Remaining(was, totals[period])
                   + AtLeastZero(Included[was.plan] - totals[period])
<1>1. was \in Subscription /\ plan \in Plans
  BY WasIsRow
<1>2. left \in Nat
  <2>1. totals[period] \in Nat
    BY DEF TypeOK
  <2>2. was.plan \in Plans
    BY <1>1 DEF Subscription
  <2>3. Included[was.plan] - totals[period] \in Int
    BY <2>1, <2>2, IncludedType
  <2>4. AtLeastZero(Included[was.plan] - totals[period]) \in Nat
    BY <2>3, AtLeastZeroType
  <2>5. Remaining(was, totals[period]) \in Nat
    BY <1>1, <2>1, RemainingType
  <2> QED
    BY <2>4, <2>5
<1> HIDE DEF was, plan, left
<1>3. [was EXCEPT !.carryover = @ + PackSize] \in Subscription
  BY <1>1, BoundsType DEF Subscription
<1>4. [was EXCEPT !.scheduled = plan] \in Subscription
  BY <1>1 DEF Subscription
<1>5. [was EXCEPT !.plan = plan, !.scheduled = None] \in Subscription
  BY <1>1 DEF Subscription
<1>6. [plan |-> plan, carryover |-> left, scheduled |-> None] \in Subscription
  BY <1>1, <1>2 DEF Subscription
<1> QED
  BY <1>3, <1>4, <1>5, <1>6 DEF was, plan, left

LEMMA BillingType ==
  ASSUME TypeOK, NEW b \in Billers, BillingStep(b)
  PROVE  TypeOK'
<1>1. CASE Purchase(b) \/ SyncStatus(b)
  <2>1. sub.plan \in Plans
    BY DEF TypeOK, Subscription
  <2> QED
    BY <1>1, <2>1, BeginType DEF Purchase, SyncStatus, Ops
<1>2. ASSUME NEW plan \in Plans, ScheduleChange(b, plan) \/ Upgrade(b, plan)
      PROVE  TypeOK'
  BY <1>2, BeginType DEF ScheduleChange, Upgrade, Ops
<1>3. CASE ApplyScheduled(b)
  <2>1. sub.scheduled \in Plans
    BY <1>3 DEF ApplyScheduled, TypeOK, Subscription
  <2> QED
    BY <1>3, <2>1, BeginType DEF ApplyScheduled, Ops
<1>4. CASE UpsertPurchase(b)
  BY <1>4, UpsertedRows, UpsertType DEF UpsertPurchase
<1>5. CASE UpsertSchedule(b)
  BY <1>5, UpsertedRows, UpsertType DEF UpsertSchedule
<1>6. CASE UpsertApply(b)
  BY <1>6, UpsertedRows, UpsertType DEF UpsertApply
<1>7. CASE UpsertSync(b)
  BY <1>7, WasIsRow, UpsertType DEF UpsertSync
<1>8. CASE UpsertUpgrade(b)
  BY <1>8, UpsertedRows, UpsertType DEF UpsertUpgrade
<1>9. CASE Commit(b)
  BY <1>9, CommitType
<1> QED
  BY <1>1, <1>2, <1>3, <1>4, <1>5, <1>6, <1>7, <1>8, <1>9 DEF BillingStep

LEMMA TypeNext == TypeOK /\ [Next]_vars => TypeOK'
<1> SUFFICES ASSUME TypeOK, [Next]_vars PROVE TypeOK'
  OBVIOUS
<1>1. CASE NextMonth
  <2>1. period' \in Periods
    BY <1>1, BoundsType DEF NextMonth, TypeOK, Periods
  <2> QED
    BY <1>1, <2>1 DEF NextMonth, history, TypeOK
<1>2. ASSUME NEW u \in Users, TrafficStep(u) PROVE TypeOK'
  BY <1>2, TrafficType
<1>3. ASSUME NEW b \in Billers, BillingStep(b) PROVE TypeOK'
  BY <1>3, BillingType
<1>4. CASE UNCHANGED vars
  BY <1>4 DEF vars, TypeOK
<1> QED
  BY <1>1, <1>2, <1>3, <1>4 DEF Next

\* The type invariant, for every instance: in particular no race of traffic
\* with a stale billing write makes the extras of the row negative.
THEOREM TypeCorrect == Spec => []TypeOK
BY TypeInit, TypeNext, PTL DEF Spec

-----------------------------------------------------------------------------
(* The row lock: what a transaction has read is still so when it commits.   *)

\* The lock is held by exactly the request between its reads and its end.
LockHeld == \A u \in Users : at[u] \in {"sending", "viewing"} <=> lock = u

\* Only the holder of the lock changes the counts and the settled extras.
ReadsHold ==
  \A u \in Users :
    lock = u => /\ read[u].used = totals[key[u]]
                /\ Settles(key[u], read[u].carryover)

Locking == LockHeld /\ ReadsHold

LEMMA ReadsOthers ==
  ASSUME TypeOK, ReadsHold, UNCHANGED <<touched, totals, sub, lock>>,
         \A u \in Users : lock = u => read'[u] = read[u] /\ key'[u] = key[u]
  PROVE  ReadsHold'
<1> SUFFICES ASSUME NEW u \in Users, lock' = u
             PROVE  (/\ read[u].used = totals[key[u]]
                     /\ Settles(key[u], read[u].carryover))'
  BY DEF ReadsHold
<1>1. lock = u /\ read'[u] = read[u] /\ key'[u] = key[u]
  OBVIOUS
<1>2. Settles(key[u], read[u].carryover) /\ read[u].used = totals[key[u]]
  BY <1>1 DEF ReadsHold
<1>3. Settles(key[u], read[u].carryover)'
  BY <1>1, <1>2 DEF Settles, Precedes, Remaining
<1> QED
  BY <1>1, <1>2, <1>3

LEMMA LockTraffic ==
  ASSUME TypeOK, Locking, NEW u \in Users, TrafficStep(u)
  PROVE  Locking'
<1>1. CASE Ask(u, "send") \/ Ask(u, "view")
  <2>1. LockHeld' /\ at[u] = "idle"
    BY <1>1 DEF Ask, Moves, Locking, LockHeld, TypeOK
  <2>2. ReadsHold'
    <3>1. lock # u
      BY <2>1 DEF Locking, LockHeld
    <3>2. \A v \in Users : lock = v => read'[v] = read[v] /\ key'[v] = key[v]
      BY <1>1, <3>1 DEF Ask, TypeOK
    <3> QED
      BY <1>1, <3>2, ReadsOthers DEF Ask, Locking
  <2> QED
    BY <2>1, <2>2 DEF Locking
<1>2. CASE ReadLocked(u)
  <2>1. LockHeld'
    BY <1>2, NoneIsNoPlan
    DEF ReadLocked, Reads, Moves, Locking, LockHeld, TypeOK
  <2>2. PICK c : /\ Settles(key[u], c)
                 /\ read' = [read EXCEPT ![u] = [used |-> totals[key[u]],
                                                 carryover |-> c]]
    BY <1>2 DEF ReadLocked, Reads
  <2>3. read'[u].used = totals[key[u]] /\ read'[u].carryover = c
    BY <2>2 DEF TypeOK
  <2>4. Settles(key[u], c)'
    BY <1>2, <2>2 DEF ReadLocked, Reads, Settles, Precedes, Remaining
  <2>5. lock' = u /\ UNCHANGED <<key, totals>>
    BY <1>2 DEF ReadLocked, Reads
  <2> QED
    BY <2>1, <2>3, <2>4, <2>5 DEF Locking, ReadsHold
<1>3. CASE Reserve(u) \/ View(u) \/ Rollback(u)
  <2>1. LockHeld' /\ lock' = None
    BY <1>3, NoneIsNoPlan
    DEF Reserve, View, Rollback, Touch, Closes, Moves, Locking, LockHeld, TypeOK
  <2> QED
    BY <2>1, NoneIsNoPlan DEF Locking, ReadsHold
<1>4. CASE LogSms(u) \/ LoseSms(u)
  <2>1. LockHeld'
    BY <1>4 DEF LogSms, LoseSms, Moves, Locking, LockHeld, TypeOK
  <2> QED
    BY <1>4, <2>1, ReadsOthers DEF LogSms, LoseSms, Locking
<1> QED
  BY <1>1, <1>2, <1>3, <1>4 DEF TrafficStep

LEMMA LockBilling ==
  ASSUME TypeOK, Locking, NEW b \in Billers, BillingStep(b)
  PROVE  Locking'
<1>1. UNCHANGED <<at, lock, read, key, totals, touched>>
  BY DEF BillingStep, Purchase, ScheduleChange, Upgrade, ApplyScheduled,
         SyncStatus, Begin, UpsertPurchase, UpsertSchedule, UpsertApply,
         UpsertSync, UpsertUpgrade, Upsert, Commit
<1>2. sub' = sub \/ lock = None
  BY DEF BillingStep, Purchase, ScheduleChange, Upgrade, ApplyScheduled,
         SyncStatus, Begin, UpsertPurchase, UpsertSchedule, UpsertApply,
         UpsertSync, UpsertUpgrade, Upsert, Commit
<1>3. LockHeld'
  BY <1>1 DEF LockHeld, Locking
<1>4. CASE lock = None
  BY <1>1, <1>3, <1>4, NoneIsNoPlan DEF Locking, ReadsHold
<1>5. CASE sub' = sub
  BY <1>1, <1>3, <1>5, ReadsOthers DEF Locking
<1> QED
  BY <1>2, <1>4, <1>5

LEMMA LockNext == TypeOK /\ Locking /\ [Next]_vars => Locking'
<1> SUFFICES ASSUME TypeOK, Locking, [Next]_vars PROVE Locking'
  OBVIOUS
<1>1. CASE NextMonth
  BY <1>1, ReadsOthers DEF NextMonth, Locking, LockHeld
<1>2. CASE UNCHANGED vars
  BY <1>2, ReadsOthers DEF vars, Locking, LockHeld
<1> QED
  BY <1>1, <1>2, LockTraffic, LockBilling DEF Next

LEMMA LockInit == Init => Locking
BY NoneIsNoPlan DEF Init, Locking, LockHeld, ReadsHold

\* The count of a month grows by grants only, one unit at a time.
LEMMA OnlyReserveCounts ==
  ASSUME TypeOK, [Next]_vars
  PROVE  \/ totals' = totals
         \/ \E u \in Users : Reserve(u)
<1>1. ASSUME NEW u \in Users, TrafficStep(u)
      PROVE  totals' = totals \/ Reserve(u)
  BY <1>1 DEF TrafficStep, Ask, ReadLocked, Reads, View, Rollback, LogSms, LoseSms
<1>2. ASSUME NEW b \in Billers, BillingStep(b)
      PROVE  totals' = totals
  BY <1>2 DEF BillingStep, Purchase, ScheduleChange, Upgrade, ApplyScheduled,
              SyncStatus, Begin, UpsertPurchase, UpsertSchedule, UpsertApply,
              UpsertSync, UpsertUpgrade, Upsert, Commit
<1> QED
  BY <1>1, <1>2 DEF Next, NextMonth, vars

\* What the row holds after a touch is what the transaction settled.
LEMMA TouchedRow ==
  ASSUME TypeOK, Locking, NEW u \in Users, lock = u, Touch(u)
  PROVE  /\ sub'.carryover = read[u].carryover
         /\ sub'.plan = sub.plan
<1>1. sub \in Subscription /\ key[u] \in Periods
  BY DEF TypeOK
<1>2. CASE key[u] \in touched
  BY <1>1, <1>2 DEF Touch, Locking, ReadsHold, Settles
<1>3. CASE key[u] \notin touched
  BY <1>1, <1>3 DEF Touch, Subscription
<1> QED
  BY <1>2, <1>3

LEMMA GrantStep ==
  ASSUME TypeOK, Locking, [Next]_vars, NEW k \in Periods, totals'[k] > totals[k]
  PROVE  totals'[k] <= Quota(sub'.plan, sub'.carryover)
<1>1. totals[k] \in Nat
  BY DEF TypeOK
<1>2. PICK u \in Users : Reserve(u)
  BY <1>1, OnlyReserveCounts
<1>3. key[u] = k /\ totals'[k] = totals[k] + 1
  BY <1>1, <1>2 DEF Reserve, TypeOK
<1>4. lock = u
  BY <1>2 DEF Reserve, Moves, Locking, LockHeld
<1>5. read[u].used = totals[k]
  BY <1>3, <1>4 DEF Locking, ReadsHold
<1>6. sub'.carryover = read[u].carryover /\ sub'.plan = sub.plan
  BY <1>2, <1>4, TouchedRow DEF Reserve
<1>7. totals[k] < Quota(sub.plan, read[u].carryover)
  BY <1>2, <1>5 DEF Reserve, Allowed
<1>8. Quota(sub.plan, read[u].carryover) \in Int
  <2>1. sub.plan \in Plans /\ read[u].carryover \in Nat
    BY DEF TypeOK, Subscription
  <2>2. Included[sub.plan] + read[u].carryover \in Int
    BY <2>1, IncludedType
  <2> QED
    BY <2>2, AtLeastZeroType DEF Quota
<1> QED
  BY <1>1, <1>3, <1>6, <1>7, <1>8

\* No overselling, for any number of users, plans and extras: the reservation
\* takes the row lock, and what it has read holds until it commits.
THEOREM NothingIsOversold == Spec => GrantWithinQuota
<1>1. TypeOK /\ Locking /\ [Next]_vars
      => [\A k \in Periods :
            totals'[k] > totals[k]
            => totals'[k] <= Quota(sub'.plan, sub'.carryover)]_vars
  BY GrantStep
<1> QED
  BY <1>1, TypeCorrect, LockInit, LockNext, PTL DEF Spec, GrantWithinQuota

-----------------------------------------------------------------------------
(* Every SMS logged used a unit.                                            *)

LEMMA ReservedFinite ==
  ASSUME NEW k \in Periods
  PROVE  IsFiniteSet(Reserved(k)) /\ Cardinality(Reserved(k)) \in Nat
<1>1. Reserved(k) \in SUBSET Users /\ IsFiniteSet(Users)
  BY QuotaAssumption DEF Reserved, QuotaAssumption
<1>2. IsFiniteSet(Reserved(k))
  BY <1>1, FS_Subset
<1> QED
  BY <1>2, FS_CardinalityType

\* A step that keeps the requests between reservation and log, and the counts.
LEMMA ReservedSame ==
  ASSUME SmsWereReserved, UNCHANGED <<sent, totals>>,
         \A v \in Users : \/ at'[v] = at[v] /\ key'[v] = key[v]
                          \/ at[v] # "reserved" /\ at'[v] # "reserved"
  PROVE  SmsWereReserved'
<1> SUFFICES ASSUME NEW k \in Periods
             PROVE  (sent[k] + Cardinality(Reserved(k)) <= totals[k])'
  BY DEF SmsWereReserved
<1>1. Reserved(k)' = Reserved(k)
  BY DEF Reserved
<1> QED
  BY <1>1 DEF SmsWereReserved

LEMMA ReservedTraffic ==
  ASSUME TypeOK, SmsWereReserved, NEW u \in Users, TrafficStep(u)
  PROVE  SmsWereReserved'
<1>1. CASE Reserve(u)
  <2> SUFFICES ASSUME NEW k \in Periods
               PROVE  (sent[k] + Cardinality(Reserved(k)) <= totals[k])'
    BY DEF SmsWereReserved
  <2>1. /\ sent[k] \in Nat /\ totals[k] \in Nat
        /\ sent[k] + Cardinality(Reserved(k)) <= totals[k]
        /\ Cardinality(Reserved(k)) \in Nat
    BY ReservedFinite DEF TypeOK, SmsWereReserved
  <2>2. sent' = sent /\ key' = key /\ at[u] = "sending"
        /\ at' = [at EXCEPT ![u] = "reserved"]
    BY <1>1 DEF Reserve, Moves
  <2>3. CASE key[u] = k
    <3>1. Reserved(k)' = Reserved(k) \cup {u} /\ u \notin Reserved(k)
      BY <2>2, <2>3 DEF Reserved, TypeOK
    <3>2. Cardinality(Reserved(k) \cup {u}) = Cardinality(Reserved(k)) + 1
      BY <3>1, ReservedFinite, FS_AddElement
    <3>3. totals'[k] = totals[k] + 1
      BY <1>1, <2>3 DEF Reserve, TypeOK
    <3> QED
      BY <2>1, <2>2, <3>1, <3>2, <3>3
  <2>4. CASE key[u] # k
    <3>1. Reserved(k)' = Reserved(k)
      BY <2>2, <2>4 DEF Reserved, TypeOK
    <3>2. totals'[k] = totals[k]
      BY <1>1, <2>4 DEF Reserve, TypeOK
    <3> QED
      BY <2>1, <2>2, <3>1, <3>2
  <2> QED
    BY <2>3, <2>4
<1>2. CASE LogSms(u) \/ LoseSms(u)
  <2> SUFFICES ASSUME NEW k \in Periods
               PROVE  (sent[k] + Cardinality(Reserved(k)) <= totals[k])'
    BY DEF SmsWereReserved
  <2>1. /\ sent[k] \in Nat /\ totals[k] \in Nat
        /\ sent[k] + Cardinality(Reserved(k)) <= totals[k]
        /\ Cardinality(Reserved(k)) \in Nat
    BY ReservedFinite DEF TypeOK, SmsWereReserved
  <2>2. /\ totals' = totals /\ key' = key /\ at[u] = "reserved"
        /\ at' = [at EXCEPT ![u] = "idle"]
        /\ sent' = sent \/ sent' = [sent EXCEPT ![key[u]] = @ + 1]
    BY <1>2 DEF LogSms, LoseSms, Moves
  <2>3. CASE key[u] = k
    <3>1. Reserved(k)' = Reserved(k) \ {u} /\ u \in Reserved(k)
      BY <2>2, <2>3 DEF Reserved, TypeOK
    <3>2. Cardinality(Reserved(k) \ {u}) = Cardinality(Reserved(k)) - 1
      BY <3>1, ReservedFinite, FS_RemoveElement
    <3>3. sent'[k] <= sent[k] + 1 /\ sent'[k] \in Nat
      BY <2>1, <2>2, <2>3 DEF TypeOK
    <3> QED
      BY <2>1, <2>2, <3>1, <3>2, <3>3
  <2>4. CASE key[u] # k
    <3>1. Reserved(k)' = Reserved(k)
      BY <2>2, <2>4 DEF Reserved, TypeOK
    <3>2. sent'[k] = sent[k]
      BY <2>2, <2>4 DEF TypeOK
    <3> QED
      BY <2>1, <2>2, <3>1, <3>2
  <2> QED
    BY <2>3, <2>4
<1>3. CASE Ask(u, "send") \/ Ask(u, "view")
  BY <1>3, ReservedSame DEF Ask, Moves, TypeOK
<1>4. CASE ReadLocked(u)
  BY <1>4, ReservedSame DEF ReadLocked, Reads, Moves, TypeOK
<1>5. CASE View(u)
  BY <1>5, ReservedSame DEF View, Moves, TypeOK
<1>6. CASE Rollback(u)
  BY <1>6, ReservedSame DEF Rollback, Moves, TypeOK
<1> QED
  BY <1>1, <1>2, <1>3, <1>4, <1>5, <1>6 DEF TrafficStep

LEMMA ReservedInit == Init => SmsWereReserved
<1> SUFFICES ASSUME Init, NEW k \in Periods
             PROVE  sent[k] + Cardinality(Reserved(k)) <= totals[k]
  BY DEF SmsWereReserved
<1>1. Reserved(k) = {}
  BY DEF Init, Reserved
<1> QED
  BY <1>1, FS_EmptySet DEF Init

LEMMA ReservedNext == TypeOK /\ SmsWereReserved /\ [Next]_vars => SmsWereReserved'
<1> SUFFICES ASSUME TypeOK, SmsWereReserved, [Next]_vars PROVE SmsWereReserved'
  OBVIOUS
<1>1. ASSUME NEW b \in Billers, BillingStep(b)
      PROVE  UNCHANGED <<sent, totals, at, key>>
  BY <1>1 DEF BillingStep, Purchase, ScheduleChange, Upgrade, ApplyScheduled,
              SyncStatus, Begin, UpsertPurchase, UpsertSchedule, UpsertApply,
              UpsertSync, UpsertUpgrade, Upsert, Commit
<1>2. CASE NextMonth
  BY <1>2, ReservedSame DEF NextMonth
<1>3. CASE UNCHANGED vars
  BY <1>3, ReservedSame DEF vars
<1> QED
  BY <1>1, <1>2, <1>3, ReservedTraffic, ReservedSame DEF Next

\* No SMS is logged without a unit of its month's quota, whatever fails
\* between the reservation and the log.
THEOREM SmsAreReserved == Spec => []SmsWereReserved
BY TypeCorrect, ReservedInit, ReservedNext, PTL DEF Spec

-----------------------------------------------------------------------------
(* The extras add up.                                                       *)

\* Extras that a month with that count has used
Overuse(used) == AtLeastZero(used - Included[sub.plan])

\* The count of a month starts at zero.
UntouchedAreZero == \A k \in Periods \ touched : totals[k] = 0

\* The row an operation computes differs in its extras from the one it read
\* by what was bought, unless it is an upgrade.
JobsAdd ==
  \A b \in Billers :
    job[b] # None /\ job[b].new # None =>
      \/ job[b].op = "upgrade"
      \/ /\ job[b].op = "purchase"
         /\ job[b].new.carryover = job[b].was.carryover + PackSize
      \/ /\ job[b].op # "purchase"
         /\ job[b].new.carryover = job[b].was.carryover

\* The latest month has not used more extras than there were, and what it has
\* left is what was bought and not granted.
Books ==
  \/ touched = {} /\ sub.carryover = bought - spent
  \/ \E k \in touched :
       /\ \A q \in touched : q <= k
       /\ Overuse(totals[k]) <= sub.carryover
       /\ bought - spent = sub.carryover - Overuse(totals[k])

Ledger == /\ UntouchedAreZero
          /\ JobsAdd
          /\ ~ changed /\ ~ raced => Books

LEMMA OveruseType ==
  ASSUME TypeOK, NEW used \in Nat
  PROVE  /\ Overuse(used) \in Nat
         /\ used <= Included[sub.plan] => Overuse(used) = 0
         /\ used >= Included[sub.plan] => Overuse(used) = used - Included[sub.plan]
<1>1. Included[sub.plan] \in Nat
  BY IncludedType DEF TypeOK, Subscription
<1>2. used - Included[sub.plan] \in Int
  BY <1>1
<1> QED
  BY <1>1, <1>2, AtLeastZeroType DEF Overuse

LEMMA LedgerInit == Init => Ledger
<1> SUFFICES ASSUME Init PROVE Ledger
  OBVIOUS
<1>1. Books
  BY DEF Init, Books
<1> QED
  BY <1>1 DEF Init, Ledger, UntouchedAreZero, JobsAdd

\* Steps that touch neither the row, the counts nor the history.
LEMMA BooksSame ==
  ASSUME Ledger,
         UNCHANGED <<touched, totals, sub, bought, spent, changed, raced>>
  PROVE  /\ UntouchedAreZero'
         /\ (~ changed /\ ~ raced => Books)'
BY DEF Ledger, UntouchedAreZero, Books, Overuse

\* A request's first touch of a month, in order: the settlement moves the
\* extras the month before has used out of the row.
LEMMA SettledBooks ==
  ASSUME TypeOK, Locking, Ledger, NEW u \in Users, lock = u,
         key[u] \notin touched, \A q \in touched : q <= key[u],
         ~ changed, ~ raced
  PROVE  /\ read[u].carryover = bought - spent
         /\ read[u].used = 0
<1> DEFINE k == key[u]
           c == read[u].carryover
<1>1. k \in Periods /\ c \in Nat /\ touched \subseteq Periods
  BY DEF TypeOK
<1>2. \A q \in touched : q < k
  BY <1>1 DEF Periods
<1>3. read[u].used = 0
  BY <1>1 DEF Locking, ReadsHold, Ledger, UntouchedAreZero
<1>4. Settles(k, c) /\ Books
  BY DEF Locking, ReadsHold, Ledger
<1>5. CASE touched = {}
  BY <1>3, <1>4, <1>5 DEF Settles, Precedes, Books
<1>6. CASE touched # {}
  <2>1. PICK m \in touched :
          /\ \A q \in touched : q <= m
          /\ Overuse(totals[m]) <= sub.carryover
          /\ bought - spent = sub.carryover - Overuse(totals[m])
    BY <1>4, <1>6 DEF Books
  <2>2. \E q \in Periods : Precedes(q, k) /\ c = Remaining(sub, totals[q])
    BY <1>1, <1>2, <1>4, <1>6 DEF Settles, Periods
  <2>3. PICK q \in Periods : Precedes(q, k) /\ c = Remaining(sub, totals[q])
    BY <2>2
  <2>4. q = m
    BY <1>1, <1>2, <2>1, <2>3 DEF Precedes, Periods
  <2>5. c = AtLeastZero(sub.carryover - Overuse(totals[m]))
    BY <2>3, <2>4 DEF Remaining, Overuse
  <2>6. sub.carryover \in Nat /\ totals[m] \in Nat
    BY <1>1, <2>1 DEF TypeOK, Subscription
  <2>7. Overuse(totals[m]) \in Nat
    BY <2>6, OveruseType
  <2>8. sub.carryover - Overuse(totals[m]) \in Nat
    BY <2>1, <2>6, <2>7
  <2> QED
    BY <1>3, <2>1, <2>5, <2>8, AtLeastZeroType
<1> QED
  BY <1>5, <1>6

\* The state after a touch, as far as the books go.
LEMMA TouchedBooks ==
  ASSUME TypeOK, Locking, Ledger, NEW u \in Users, lock = u, Touch(u),
         ~ changed, ~ raced'
  PROVE  /\ ~ raced
         /\ key[u] \in touched' /\ \A q \in touched' : q <= key[u]
         /\ sub'.carryover = read[u].carryover /\ sub'.plan = sub.plan
         /\ read[u].used = totals[key[u]] /\ totals[key[u]] \in Nat
         /\ Overuse(totals[key[u]]) <= sub'.carryover
         /\ bought - spent = sub'.carryover - Overuse(totals[key[u]])
<1> DEFINE k == key[u]
<1>1. k \in Periods /\ touched \subseteq Periods /\ totals[k] \in Nat
  BY DEF TypeOK
<1>2. ~ raced /\ \A q \in touched : ~ (q > k)
  BY DEF Touch
<1>3. touched' = touched \cup {k} /\ \A q \in touched' : q <= k
  BY <1>1, <1>2 DEF Touch, Periods
<1>4. sub'.carryover = read[u].carryover /\ sub'.plan = sub.plan
  BY TouchedRow
<1>5. read[u].used = totals[k]
  BY DEF Locking, ReadsHold
<1>6. Books
  BY <1>2 DEF Ledger
<1>7. CASE k \in touched
  <2>1. sub' = sub
    BY <1>7 DEF Touch
  <2>2. PICK m \in touched :
          /\ \A q \in touched : q <= m
          /\ Overuse(totals[m]) <= sub.carryover
          /\ bought - spent = sub.carryover - Overuse(totals[m])
    BY <1>6, <1>7 DEF Books
  <2>3. m = k
    BY <1>1, <1>3, <1>7, <2>2 DEF Periods
  <2> QED
    BY <1>1, <1>2, <1>3, <1>4, <1>5, <2>1, <2>2, <2>3
<1>8. CASE k \notin touched
  <2>1. read[u].carryover = bought - spent /\ read[u].used = 0
    BY <1>2, <1>3, <1>8, SettledBooks
  <2>2. Overuse(0) = 0
    BY OveruseType, IncludedType DEF TypeOK, Subscription
  <2>3. read[u].carryover \in Nat
    BY DEF TypeOK
  <2> QED
    BY <1>1, <1>2, <1>3, <1>4, <1>5, <2>1, <2>2, <2>3
<1> QED
  BY <1>7, <1>8

LEMMA LedgerReserve ==
  ASSUME TypeOK, Locking, Ledger, NEW u \in Users, Reserve(u)
  PROVE  Ledger'
<1> DEFINE k == key[u]
<1>1. lock = u /\ Touch(u)
  BY DEF Reserve, Moves, Locking, LockHeld
<1>2. /\ totals' = [totals EXCEPT ![k] = @ + 1]
      /\ UNCHANGED <<bought, changed, job>>
      /\ Allowed(u)
      /\ spent' = IF read[u].used < Included[sub.plan] THEN spent ELSE spent + 1
  BY DEF Reserve
<1>3. UntouchedAreZero'
  <2>1. touched' = touched \cup {k}
    BY <1>1 DEF Touch
  <2> QED
    BY <1>2, <2>1 DEF Ledger, UntouchedAreZero, TypeOK
<1>4. JobsAdd'
  BY <1>2 DEF Ledger, JobsAdd
<1>5. ASSUME ~ changed', ~ raced' PROVE Books'
  <2> DEFINE t == totals[k]
             c == sub'.carryover
             i == Included[sub.plan]
             over == Overuse(t)
             more == Overuse(t + 1)
  <2>1. /\ k \in touched' /\ \A q \in touched' : q <= k
        /\ c = read[u].carryover /\ sub'.plan = sub.plan
        /\ read[u].used = t /\ t \in Nat
        /\ over <= c
        /\ bought - spent = c - over
    BY <1>1, <1>2, <1>5, TouchedBooks
  <2>2. c \in Nat /\ i \in Nat /\ k \in Periods /\ spent \in Nat /\ bought \in Nat
    BY <2>1, IncludedType DEF TypeOK, Subscription
  <2>3. t < i + c
    <3>1. i + c \in Int /\ i + c >= 0
      BY <2>2
    <3>2. AtLeastZero(i + c) = i + c
      BY <3>1, AtLeastZeroType
    <3> QED
      BY <1>2, <2>1, <3>2 DEF Allowed, Quota
  <2>4. /\ over \in Nat /\ more \in Nat
        /\ t < i => over = 0 /\ more = 0
        /\ t >= i => over = t - i /\ more = t + 1 - i
    BY <2>1, <2>2, OveruseType
  <2>5. more <= c /\ bought - spent' = c - more
    <3> HIDE DEF t, c, i, over, more
    <3>1. CASE t < i
      BY <1>2, <2>1, <2>2, <2>3, <2>4, <3>1 DEF t, i
    <3>2. CASE t >= i
      <4>1. spent' = spent + 1
        BY <1>2, <2>1, <2>2, <3>2 DEF t, i
      <4> QED
        BY <2>1, <2>2, <2>3, <2>4, <3>2, <4>1
    <3> QED
      BY <2>1, <2>2, <3>1, <3>2
  <2>6. totals'[k] = t + 1
    BY <1>2, <2>2 DEF TypeOK
  <2>7. AtLeastZero(totals'[k] - Included[sub'.plan]) = more
    BY <2>1, <2>6 DEF Overuse
  <2> HIDE DEF more
  <2> QED
    BY <1>2, <2>1, <2>5, <2>7 DEF Books, Overuse
<1> QED
  BY <1>3, <1>4, <1>5 DEF Ledger

LEMMA LedgerView ==
  ASSUME TypeOK, Locking, Ledger, NEW u \in Users, View(u)
  PROVE  Ledger'
<1> DEFINE k == key[u]
<1>1. lock = u /\ Touch(u)
  BY DEF View, Moves, Locking, LockHeld
<1>2. UNCHANGED <<totals, bought, spent, changed, job, key>>
  BY DEF View
<1>3. UntouchedAreZero'
  BY <1>1, <1>2 DEF Touch, Ledger, UntouchedAreZero
<1>4. JobsAdd'
  BY <1>2 DEF Ledger, JobsAdd
<1>5. ASSUME ~ changed', ~ raced' PROVE Books'
  <2>1. /\ k \in touched' /\ \A q \in touched' : q <= k
        /\ sub'.plan = sub.plan
        /\ Overuse(totals[k]) <= sub'.carryover
        /\ bought - spent = sub'.carryover - Overuse(totals[k])
    BY <1>1, <1>2, <1>5, TouchedBooks
  <2>2. AtLeastZero(totals'[k] - Included[sub'.plan]) = Overuse(totals[k])
    BY <1>2, <2>1 DEF Overuse
  <2> QED
    BY <1>2, <2>1, <2>2 DEF Books, Overuse
<1> QED
  BY <1>3, <1>4, <1>5 DEF Ledger

LEMMA LedgerBegin ==
  ASSUME TypeOK, Ledger, NEW b \in Billers, NEW op, NEW plan, NEW bound, NEW max,
         Begin(b, op, plan, bound, max)
  PROVE  Ledger'
<1>1. UNCHANGED <<touched, totals, sub, bought, spent, changed, raced>>
  BY DEF Begin, history
<1>2. JobsAdd'
  BY DEF Begin, Ledger, JobsAdd, TypeOK
<1> QED
  BY <1>1, <1>2, BooksSame DEF Ledger

LEMMA LedgerUpsert ==
  ASSUME TypeOK, Ledger, NEW b \in Billers, NEW op, NEW row, Upsert(b, op, row),
         \/ op = "upgrade"
         \/ op = "purchase" /\ row.carryover = job[b].was.carryover + PackSize
         \/ op # "purchase" /\ row.carryover = job[b].was.carryover
  PROVE  Ledger'
<1>1. UNCHANGED <<touched, totals, sub, bought, spent, changed, raced>>
  BY DEF Upsert, history
<1>2. /\ job \in [Billers -> {None} \cup Jobs]
      /\ job[b] \in Jobs
      /\ job[b].op = op
  BY DEF Upsert, TypeOK, Jobs
<1> DEFINE j == [job[b] EXCEPT !.row = sub, !.new = row, !.used = totals[period]]
<1>3. j.op = op /\ j.was = job[b].was /\ j.new = row
  BY <1>2 DEF Jobs
<1>4. job' = [job EXCEPT ![b] = j]
  BY DEF Upsert
<1> HIDE DEF j
<1>5. job'[b] = j /\ \A a \in Billers \ {b} : job'[a] = job[a]
  BY <1>2, <1>4
<1>6. JobsAdd'
  BY <1>3, <1>5 DEF Ledger, JobsAdd
<1> QED
  BY <1>1, <1>6, BooksSame DEF Ledger

LEMMA LedgerCommit ==
  ASSUME TypeOK, Ledger, NEW b \in Billers, Commit(b)
  PROVE  Ledger'
<1> DEFINE j == job[b]
<1>1. job \in [Billers -> {None} \cup Jobs]
  BY DEF TypeOK, Jobs
<1>2. /\ j \in Jobs /\ j.was \in Subscription /\ j.new \in Subscription
      /\ j # None /\ j.new # None
  BY <1>1, WasIsRow DEF Commit
<1>3. UNCHANGED <<touched, totals, spent>>
  BY DEF Commit
<1>4. UntouchedAreZero'
  BY <1>3 DEF Ledger, UntouchedAreZero
<1>5. JobsAdd'
  BY <1>1 DEF Commit, Ledger, JobsAdd
<1>6. ASSUME ~ changed', ~ raced' PROVE Books'
  <2>1. /\ ~ changed /\ j.op # "upgrade" /\ j.new.plan = j.row.plan
        /\ ~ raced /\ j.was = sub /\ j.row = sub
    BY <1>6, Zenon DEF Commit
  <2>2. sub' = [c \in DOMAIN sub |-> IF j.new[c] = j.row[c] THEN sub[c] ELSE j.new[c]]
    BY DEF Commit
  <2>3. sub \in Subscription
    BY DEF TypeOK
  <2>4. sub'.plan = sub.plan /\ sub'.carryover = j.new.carryover
    BY <1>2, <2>1, <2>2, <2>3 DEF Subscription
  <2>5. Books
    BY <2>1 DEF Ledger
  <2>6. PICK n \in Nat : /\ sub'.carryover = sub.carryover + n
                         /\ bought' = bought + n
    <3>1. bought \in Nat /\ sub.carryover \in Nat /\ PackSize \in Nat
      BY BoundsType DEF TypeOK, Subscription
    <3>2. CASE j.op = "purchase"
      <4>1. j.new.carryover = sub.carryover + PackSize
        BY <1>2, <2>1, <3>2 DEF Ledger, JobsAdd
      <4>2. bought' = bought + PackSize
        BY <3>2 DEF Commit
      <4> QED
        BY <2>4, <3>1, <4>1, <4>2
    <3>3. CASE j.op # "purchase"
      <4>1. j.new.carryover = sub.carryover
        BY <1>2, <2>1, <3>3 DEF Ledger, JobsAdd
      <4>2. bought' = bought
        BY <3>3 DEF Commit
      <4> QED
        BY <2>4, <3>1, <4>1, <4>2
    <3> QED
      BY <3>2, <3>3
  <2>7. bought \in Nat /\ spent \in Nat /\ sub.carryover \in Nat
    BY DEF TypeOK, Subscription
  <2>8. CASE touched = {} /\ sub.carryover = bought - spent
    BY <1>3, <2>6, <2>7, <2>8 DEF Books
  <2>9. ASSUME NEW k \in touched,
               \A q \in touched : q <= k,
               Overuse(totals[k]) <= sub.carryover,
               bought - spent = sub.carryover - Overuse(totals[k])
        PROVE  Books'
    <3>1. Overuse(totals[k]) \in Nat
      BY OveruseType DEF TypeOK
    <3>2. AtLeastZero(totals'[k] - Included[sub'.plan]) = Overuse(totals[k])
      BY <1>3, <2>4 DEF Overuse
    <3>3. /\ Overuse(totals[k]) <= sub'.carryover
          /\ bought' - spent' = sub'.carryover - Overuse(totals[k])
      BY <1>3, <2>6, <2>7, <2>9, <3>1
    <3> QED
      BY <1>3, <2>9, <3>2, <3>3 DEF Books, Overuse
  <2> QED
    BY <2>5, <2>8, <2>9 DEF Books
<1> QED
  BY <1>4, <1>5, <1>6 DEF Ledger

LEMMA LedgerNext == TypeOK /\ Locking /\ Ledger /\ [Next]_vars => Ledger'
<1> SUFFICES ASSUME TypeOK, Locking, Ledger, [Next]_vars PROVE Ledger'
  OBVIOUS
<1>1. ASSUME UNCHANGED <<touched, totals, sub, bought, spent, changed, raced, job>>
      PROVE  Ledger'
  BY <1>1, BooksSame DEF Ledger, JobsAdd
<1>2. CASE NextMonth
  BY <1>1, <1>2 DEF NextMonth, history
<1>3. ASSUME NEW u \in Users, TrafficStep(u) PROVE Ledger'
  <2>1. CASE Reserve(u)
    BY <2>1, LedgerReserve
  <2>2. CASE View(u)
    BY <2>2, LedgerView
  <2>3. CASE Ask(u, "send") \/ Ask(u, "view") \/ ReadLocked(u) \/ Rollback(u)
             \/ LogSms(u) \/ LoseSms(u)
    BY <1>1, <2>3
    DEF Ask, ReadLocked, Reads, Rollback, LogSms, LoseSms, history
  <2> QED
    BY <1>3, <2>1, <2>2, <2>3 DEF TrafficStep
<1>4. ASSUME NEW b \in Billers, BillingStep(b) PROVE Ledger'
  <2>1. CASE Purchase(b) \/ SyncStatus(b) \/ ApplyScheduled(b)
    BY <2>1, LedgerBegin DEF Purchase, SyncStatus, ApplyScheduled
  <2>2. ASSUME NEW plan \in Plans, ScheduleChange(b, plan) \/ Upgrade(b, plan)
        PROVE  Ledger'
    BY <2>2, LedgerBegin DEF ScheduleChange, Upgrade
  <2>3. job[b] # None => job[b].was \in Subscription
    <3>1. job \in [Billers -> {None} \cup Jobs]
      BY DEF TypeOK, Jobs
    <3> QED
      BY <3>1, WasIsRow
  <2>4. CASE UpsertPurchase(b)
    <3>1. [job[b].was EXCEPT !.carryover = @ + PackSize].carryover
            = job[b].was.carryover + PackSize
      BY <2>3, <2>4 DEF UpsertPurchase, Upsert, Subscription
    <3> QED
      BY <2>4, <3>1, LedgerUpsert DEF UpsertPurchase
  <2>5. CASE UpsertSchedule(b)
    <3>1. [job[b].was EXCEPT !.scheduled = job[b].plan].carryover
            = job[b].was.carryover
      BY <2>3, <2>5 DEF UpsertSchedule, Upsert, Subscription
    <3> QED
      BY <2>5, <3>1, LedgerUpsert DEF UpsertSchedule
  <2>6. CASE UpsertApply(b)
    <3>1. [job[b].was EXCEPT !.plan = job[b].plan, !.scheduled = None].carryover
            = job[b].was.carryover
      BY <2>3, <2>6 DEF UpsertApply, Upsert, Subscription
    <3> QED
      BY <2>6, <3>1, LedgerUpsert DEF UpsertApply
  <2>7. CASE UpsertSync(b)
    BY <2>7, LedgerUpsert DEF UpsertSync
  <2>8. CASE UpsertUpgrade(b)
    BY <2>8, LedgerUpsert DEF UpsertUpgrade
  <2>9. CASE Commit(b)
    BY <2>9, LedgerCommit
  <2> QED
    BY <1>4, <2>1, <2>2, <2>4, <2>5, <2>6, <2>7, <2>8, <2>9 DEF BillingStep
<1>5. CASE UNCHANGED vars
  BY <1>1, <1>5 DEF vars
<1> QED
  BY <1>2, <1>3, <1>4, <1>5 DEF Next

LEMMA BooksBalance == Ledger => ExtrasAddUp
BY DEF Ledger, Books, Overuse, ExtrasAddUp, Balance

\* Extra SMS that were paid for are used once and never forgotten, over any
\* number of months, whatever the order of requests: only a plan change, a
\* late request or a billing write that overtakes another can lose track.
THEOREM ExtrasAreKept == Spec => []ExtrasAddUp
BY TypeCorrect, LockInit, LockNext, LedgerInit, LedgerNext, BooksBalance, PTL
   DEF Spec

=============================================================================
