---- MODULE BillingCycle ----
(* Billing of one tenant: the due cycle of the billing worker and the        *)
(* requests that race with it.  Every step is one call of the repository,    *)
(* and each of those is a transaction of its own, so an operation works on   *)
(* copies it read earlier; adjacent reads with nothing between them are one  *)
(* step.  Days are numbers, Cycle days are one billing period, an invoice is *)
(* known by its place in inv (the order of issued_at), and sub.updated is    *)
(* the number of invoices there were when the row was last written, so       *)
(* "issued_at < updated_at" is i <= sub.updated.  Left out: scheduled plan   *)
(* changes and limits (SmsQuota has them), free plans, the debug clock, the  *)
(* invoice of an upgrade (it is no debt), the e-mails of the lifecycle and   *)
(* the marks that keep them from repeating.                                  *)
EXTENDS Integers, Sequences, FiniteSets

CONSTANTS
    Actors,         \* threads that may run the due cycle (worker, page views)
    Clients,        \* those that also carry requests of the owner or a webhook
    None,
    FirstDue,       \* the day until which the subscription is paid
    Cycle,          \* days of a billing period
    Grace,          \* days before closing a cancelled tenant, and before dropping it
    CloseAfter,     \* PAYMENT_FAILURE_DEACTIVATION_DAYS
    MaxDay, MaxInvoices, MaxCancels, MaxRequests, MaxFaults   \* bounds

ASSUME BillingAssumption ==
    /\ Clients \subseteq Actors
    /\ {FirstDue, Cycle, Grace, CloseAfter} \subseteq Nat \ {0}
    /\ {MaxDay, MaxInvoices, MaxCancels, MaxRequests, MaxFaults} \subseteq Nat
    /\ None \notin Nat \cup {"meta"}    \* NULL is no id, no day and no step

VARIABLES
    day,
    tenant,         \* [row, open, schema]: public.tenants row, is_active, its schema
    sub,            \* the row of billing_subscriptions
    inv,            \* rows of billing_invoices
    req,            \* rows of tenant_cancellation_requests
    event,          \* the one paid upgrade: recorded, applied
    pc, my,         \* per actor: the next step, and what the operation has read
    asked, faults,  \* requests and faults so far
    paid            \* history: what was paid for, or None once it cannot be told

vars == <<day, tenant, sub, inv, req, event, pc, my, asked, faults, paid>>

Plans == {"basic", "pro"}
Days == 0..MaxDay + 1

Nothing == [op |-> None, sub |-> None, debt |-> None, status |-> None, open |-> TRUE,
            todo |-> {}, target |-> None, restrict |-> FALSE, next |-> None, back |-> None]

Init ==
    /\ day = 0
    /\ tenant = [row |-> TRUE, open |-> TRUE, schema |-> TRUE]
    /\ sub = [until |-> FirstDue, status |-> "active", plan |-> "basic", updated |-> 0]
    /\ inv = <<>> /\ req = <<>>
    /\ event = [recorded |-> FALSE, applied |-> 0]
    /\ pc = [a \in Actors |-> "idle"] /\ my = [a \in Actors |-> Nothing]
    /\ asked = 0 /\ faults = 0
    /\ paid = [until |-> FirstDue, plan |-> "basic"]

----------------------------------------------------------------------------
(* What the queries answer.                                                  *)

Latest(S) == IF S = {} THEN None ELSE CHOOSE i \in S : \A j \in S : j <= i

\* get_latest_invoice_for_type
LatestOf(type) == Latest({i \in DOMAIN inv : inv[i].type = type})

\* get_invoice: unique by tenant, type and period.
Exists(type, period) == \E i \in DOMAIN inv : inv[i].type = type /\ inv[i].period = period

\* uq_billing_invoice_tenant_type_period, for a change of type
MayBecome(i, type) ==
    \A j \in DOMAIN inv \ {i} : ~(inv[j].type = type /\ inv[j].period = inv[i].period)

\* get_latest_open_subscription_invoice
OpenRequest == Latest({i \in DOMAIN inv : inv[i].type = "monthly" /\ inv[i].status = "issued"})

\* Variant: the latest request, settled or not
DebtOrPaid == Latest({i \in DOMAIN inv : \/ inv[i].type = "monthly"
                                         \/ inv[i].status = "payment_failed"})

\* get_latest_unpaid_debt_invoice: an issued request or a failed payment
Debt == Latest({i \in DOMAIN inv : \/ inv[i].type = "monthly" /\ inv[i].status = "issued"
                                   \/ inv[i].status = "payment_failed"})

\* paid_after_failed: sync_status asks that the later one is paid, the billing
\* run compares issued_at only.
FollowedBy(i, m) == m # None /\ m > i
PaidAfter(i) == FollowedBy(i, LatestOf("monthly")) /\ inv[LatestOf("monthly")].status = "paid"

\* The last failed invoice, if no monthly one was issued after it
FailedUnpaid ==
    LET f == LatestOf("failed")
    IN  IF f # None /\ inv[f].status = "payment_failed" /\ ~FollowedBy(f, LatestOf("monthly"))
        THEN f ELSE None

\* The failed invoice that restricts the copy s, if any: past its due day, not
\* followed by a paid one, and issued after the row was last written.
Overdue(s) ==
    LET latest == {LatestOf("monthly"), LatestOf("failed")} \ {None}
        failed == Latest({i \in latest : inv[i].status = "payment_failed"})
    IN  IF /\ failed # None /\ inv[failed].due < day
           /\ ~PaidAfter(failed) /\ failed > s.updated
        THEN failed ELSE None

\* get_latest_cancellation_request
LastRequest == Latest(DOMAIN req)
Cancelled == LastRequest # None /\ req[LastRequest].status = "requested"

\* Variant: only the requests not yet acted upon
UnactedRequests ==
    {[id |-> i, gone |-> None] :
        i \in {i \in DOMAIN req : req[i].status = "requested" /\ req[i].deactivated = None}}

\* list_cancellation_requests_for_lifecycle: a snapshot of the open requests
OpenRequests ==
    {[id |-> i, gone |-> req[i].deactivated] : i \in {i \in DOMAIN req : req[i].status = "requested"}}

----------------------------------------------------------------------------
(* Steps of every operation.                                                 *)

Go(a, step) == pc' = [pc EXCEPT ![a] = step]
Know(a, regs) == my' = [my EXCEPT ![a] = regs]
Done(a) == Go(a, "idle") /\ Know(a, Nothing)
At(a, step) == pc[a] = step /\ tenant.row

Quiet == \A a \in Actors : pc[a] = "idle"

\* A charge was taken, or an event recorded, and the subscription not extended.
Unbooked(a) == pc[a] \in {"book", "complete", "extend", "upgrade", "apply"}
\* From reading the debt to writing the last of what the payment changes.
Paying(a) == pc[a] \in {"charge", "book", "complete", "decline", "extend", "meta"}
             \/ my[a].back = "meta"

\* The account p is followed until something disturbs it for good.
Follow(p, lost) == paid' = IF paid = None \/ lost THEN None ELSE p
Disturbed == paid = None

\* upsert_subscription: the row becomes the payload, whatever it was meanwhile.
Upsert(a, s, p) ==
    /\ sub' = [s EXCEPT !.updated = Len(inv)]
    /\ Follow(p, my[a].sub # sub)

Close == tenant' = [tenant EXCEPT !.open = FALSE]

\* The thread dies, or its database call raises and the caller logs that: an
\* error in the billing part of a cycle goes on with its retry part.
Crash(a) ==
    /\ pc[a] # "idle" /\ faults < MaxFaults
    /\ faults' = faults + 1
    /\ Follow(paid, Unbooked(a))
    /\ \/ Done(a)
       \/ /\ my[a].op = "cycle" /\ my[a].sub # None /\ my[a].debt = None
          /\ Go(a, "retry") /\ Know(a, [Nothing EXCEPT !.op = "cycle"])
    /\ UNCHANGED <<day, tenant, sub, inv, req, event, asked>>

\* With the tenant's row its billing rows are gone: the next call finds none.
Vanished(a) ==
    /\ pc[a] # "idle" /\ ~tenant.row
    /\ Done(a)
    /\ UNCHANGED <<day, tenant, sub, inv, req, event, asked, faults, paid>>

\* Operations take seconds: none runs across midnight.
NextDay ==
    /\ day < MaxDay /\ Quiet
    /\ day' = day + 1
    /\ UNCHANGED <<tenant, sub, inv, req, event, pc, my, asked, faults, paid>>

----------------------------------------------------------------------------
(* process_cancellation_lifecycle, first part of process_due_cycles          *)

StartCycle(a) ==
    /\ At(a, "idle")
    /\ IF a \in Clients THEN asked < MaxRequests /\ asked' = asked + 1 ELSE UNCHANGED asked
    /\ Know(a, [Nothing EXCEPT !.op = "cycle", !.todo = OpenRequests])
    /\ Go(a, "lifecycle")
    /\ UNCHANGED <<day, tenant, sub, inv, req, event, faults, paid>>

\* The rows come in the order of requested_at.
Row(a) == CHOOSE r \in my[a].todo : \A q \in my[a].todo : r.id <= q.id
Lapsed(r) == r.gone = None /\ day >= req[r.id].effective + Grace
DroppableAtOnce(r) == r.gone # None                \* variant
Droppable(r) == r.gone # None /\ day >= r.gone + Grace
NextRow(a) == Know(a, [my[a] EXCEPT !.todo = @ \ {Row(a)}])

\* Nothing is due for this row yet.
PassRow(a) ==
    /\ At(a, "lifecycle") /\ my[a].todo # {}
    /\ ~Lapsed(Row(a)) /\ ~Droppable(Row(a))
    /\ NextRow(a)
    /\ UNCHANGED <<day, tenant, sub, inv, req, event, pc, asked, faults, paid>>

CloseLapsed(a) ==
    /\ At(a, "lifecycle") /\ my[a].todo # {} /\ Lapsed(Row(a))
    /\ Close
    /\ Know(a, [my[a] EXCEPT !.todo = @ \ {Row(a)}, !.target = Row(a).id])
    /\ Go(a, "mark")
    /\ UNCHANGED <<day, sub, inv, req, event, asked, faults, paid>>

\* mark_cancellation_deactivated: only where it is still NULL
Mark(a) ==
    /\ At(a, "mark")
    /\ req' = IF req[my[a].target].deactivated # None THEN req
              ELSE [req EXCEPT ![my[a].target].deactivated = day,
                               ![my[a].target].byOwner = my[a].op = "delete"]
    /\ IF my[a].op = "delete" THEN Done(a)
       ELSE IF my[a].restrict THEN Go(a, "judge") /\ UNCHANGED my
       ELSE Go(a, "lifecycle") /\ Know(a, [my[a] EXCEPT !.target = None])
    /\ UNCHANGED <<day, tenant, sub, inv, event, asked, faults, paid>>

\* drop_tenant_schema; when it fails the row waits for the next run.
DropSchema(a) ==
    /\ At(a, "lifecycle") /\ my[a].todo # {} /\ Droppable(Row(a))
    /\ \/ tenant' = [tenant EXCEPT !.schema = FALSE] /\ Go(a, "erase") /\ UNCHANGED <<my, faults>>
       \/ /\ faults < MaxFaults /\ faults' = faults + 1
          /\ NextRow(a) /\ UNCHANGED <<tenant, pc>>
    /\ UNCHANGED <<day, sub, inv, req, event, asked, paid>>

\* hard_delete_tenant
Erase(a) ==
    /\ At(a, "erase")
    /\ tenant' = [tenant EXCEPT !.row = FALSE]
    /\ Done(a)
    /\ UNCHANGED <<day, sub, inv, req, event, asked, faults, paid>>

----------------------------------------------------------------------------
(* sync_status, called with a copy of the subscription                       *)

\* BillingCycleProcessor.process: active tenants only
ReadTenant(a) ==
    /\ At(a, "lifecycle") /\ my[a].todo = {}
    /\ IF tenant.open
       THEN Know(a, [my[a] EXCEPT !.sub = sub, !.back = "bill"]) /\ Go(a, "sync")
       ELSE Done(a)
    /\ UNCHANGED <<day, tenant, sub, inv, req, event, asked, faults, paid>>

\* The latest request, when it has come into force and is not yet acted upon
InForce == Cancelled /\ req[LastRequest].deactivated = None /\ req[LastRequest].effective <= day

SyncCancellation(a) ==
    /\ At(a, "sync") /\ InForce /\ day >= req[LastRequest].effective + Grace
    /\ Know(a, [my[a] EXCEPT !.restrict = TRUE, !.target = LastRequest])
    /\ Go(a, "shut")
    /\ UNCHANGED <<day, tenant, sub, inv, req, event, asked, faults, paid>>

\* tenant_repo.deactivate, of sync_status and of delete_service_access
Shut(a) ==
    /\ At(a, "shut") /\ Close /\ Go(a, "mark")
    /\ UNCHANGED <<day, sub, inv, req, event, my, asked, faults, paid>>

Judge(a) ==
    /\ \/ At(a, "judge")
       \/ At(a, "sync") /\ ~(InForce /\ day >= req[LastRequest].effective + Grace)
    /\ LET late == Overdue(my[a].sub)
           bad  == late # None \/ my[a].restrict \/ (pc[a] = "sync" /\ InForce)
       IN  /\ Know(a, [my[a] EXCEPT !.next = IF bad THEN "restricted" ELSE "active",
                                    !.restrict = FALSE, !.target = None])
           /\ IF late # None /\ day >= inv[late].due + CloseAfter
              THEN Close ELSE UNCHANGED tenant
    /\ Go(a, "status")
    /\ UNCHANGED <<day, sub, inv, req, event, asked, faults, paid>>

Status(a) ==
    /\ At(a, "status")
    /\ LET s == [my[a].sub EXCEPT !.status = my[a].next]
       IN  /\ IF s = my[a].sub THEN UNCHANGED <<sub, paid>> ELSE Upsert(a, s, paid)
           /\ CASE my[a].back = "bill" ->
                     /\ Know(a, [Nothing EXCEPT !.op = "cycle", !.sub = IF s = my[a].sub THEN s ELSE sub'])
                     /\ Go(a, "bill")
                [] my[a].back = "meta" ->
                     Know(a, [my[a] EXCEPT !.sub = None, !.next = None]) /\ Go(a, "meta")
                [] OTHER -> Done(a)
    /\ UNCHANGED <<day, tenant, inv, req, event, asked, faults>>

----------------------------------------------------------------------------
(* InvoicingUseCase and issue_subscription_payment_request                   *)

\* Variant: two arguments in the wrong order
SwappedInvoice(period, type, status, due) ==
    [period |-> period, type |-> status, status |-> type, due |-> due, retried |-> None]

NewInvoice(period, type, status, due) ==
    [period |-> period, type |-> type, status |-> status, due |-> due, retried |-> None]

\* Variant: the failed payments of the period forgotten
BillableAgain(period) == ~Exists("monthly", period)

\* Neither a request nor a failed payment of the period
Billable(period) == ~Exists("monthly", period) /\ ~Exists("failed", period)

MustBill(s) ==
    /\ s.status # "restricted" /\ ~Cancelled /\ day >= s.until
    /\ Billable(s.until) /\ Len(inv) < MaxInvoices

Bill(a) ==
    /\ At(a, "bill") /\ MustBill(my[a].sub)
    /\ Go(a, "issue") /\ Know(a, [my[a] EXCEPT !.target = Len(inv)])
    /\ UNCHANGED <<day, tenant, sub, inv, req, event, asked, faults, paid>>

\* Looked up once more, then inserted: the loser of a race meets the constraint.
Issue(a) ==
    /\ At(a, "issue")
    /\ LET period == my[a].sub.until
       IN  IF Exists("monthly", period) \/ Len(inv) = MaxInvoices
           THEN UNCHANGED <<inv, paid>>
           ELSE /\ inv' = Append(inv, NewInvoice(period, "monthly", "issued", day))
                /\ Follow(paid, \E i \in my[a].target + 1..Len(inv) :
                                   inv[i].type = "failed" /\ inv[i].period = period)
    /\ Go(a, "retry") /\ Know(a, [my[a] EXCEPT !.sub = None, !.target = None])
    /\ UNCHANGED <<day, tenant, sub, req, event, asked, faults>>

----------------------------------------------------------------------------
(* retry_failed_payments_daily and settle_subscription                       *)

Retryable(i) ==
    /\ i # None /\ day < inv[i].due + CloseAfter /\ inv[i].retried # day

\* Two payments overlap when the second reads while the first is not through.
Overlap(a, p) == Follow(p, \E b \in Actors \ {a} : Paying(b) \/ Unbooked(b))

ReadDebt(a) ==
    /\ At(a, "retry") \/ (At(a, "bill") /\ ~MustBill(my[a].sub))
    /\ IF tenant.open /\ Retryable(Debt)
       THEN /\ Know(a, [my[a] EXCEPT !.sub = sub, !.debt = Debt, !.status = inv[Debt].status])
            /\ Go(a, "charge") /\ Overlap(a, paid)
       ELSE Done(a) /\ UNCHANGED paid
    /\ UNCHANGED <<day, tenant, sub, inv, req, event, asked, faults>>

\* The provider accepts, declines, or accepts while its answer is lost.
Charge(a) ==
    /\ At(a, "charge")
    /\ \/ /\ Follow([paid EXCEPT !.until = @ + Cycle], FALSE)
          /\ Go(a, IF my[a].debt = None THEN "complete" ELSE "book")
          /\ UNCHANGED faults
       \/ Go(a, "decline") /\ UNCHANGED <<paid, faults>>
       \/ /\ faults < MaxFaults /\ faults' = faults + 1
          /\ paid' = None
          /\ Go(a, "decline")
    /\ UNCHANGED <<day, tenant, sub, inv, req, event, my, asked>>

\* _settle_debt_invoice_as_paid: the invoice first.  Where the period has a paid
\* invoice already, the constraint refuses the second: the charge is lost.
Book(a) ==
    /\ At(a, "book")
    /\ IF MayBecome(my[a].debt, "monthly")
       THEN /\ inv' = [inv EXCEPT ![my[a].debt].status = "paid", ![my[a].debt].type = "monthly"]
            /\ Go(a, "extend") /\ UNCHANGED <<my, paid>>
       ELSE Done(a) /\ UNCHANGED inv /\ paid' = None
    /\ UNCHANGED <<day, tenant, sub, req, event, asked, faults>>

\* A settlement found no debt; now that it writes, there is one.
DebtAppeared == Follow(paid, Debt # None)

\* complete_subscription_billing(success): no debt when the settlement read it
Complete(a) ==
    /\ At(a, "complete")
    /\ LET key == IF FailedUnpaid # None THEN inv[FailedUnpaid].period ELSE my[a].sub.until
       IN  IF OpenRequest # None
           THEN /\ Know(a, [my[a] EXCEPT !.debt = OpenRequest]) /\ Go(a, "book")
                /\ UNCHANGED <<inv, paid>>
           ELSE /\ inv' = IF Exists("monthly", key) \/ Len(inv) = MaxInvoices THEN inv
                          ELSE Append(inv, NewInvoice(key, "monthly", "paid", day))
                /\ Go(a, "extend") /\ UNCHANGED my /\ DebtAppeared
    /\ UNCHANGED <<day, tenant, sub, req, event, asked, faults>>

\* Variant: a period from today
ExtendedFromToday(s) == [s EXCEPT !.until = day + Cycle, !.status = "active"]

Extended(s) == [s EXCEPT !.until = @ + Cycle, !.status = "active"]

Extend(a) ==
    /\ At(a, "extend")
    /\ Upsert(a, Extended(my[a].sub), paid)
    /\ Go(a, "reopen")
    /\ Know(a, [my[a] EXCEPT !.sub = None])
    /\ UNCHANGED <<day, tenant, inv, req, event, asked, faults>>

\* A tenant that was closed when the request came is activated again.
Reopen(a) ==
    /\ At(a, "reopen")
    /\ tenant' = IF my[a].open THEN tenant ELSE [tenant EXCEPT !.open = TRUE]
    /\ IF my[a].debt = None THEN Done(a)
       ELSE /\ Know(a, [my[a] EXCEPT !.sub = sub, !.debt = None, !.status = None])
            /\ Go(a, "sync")
    /\ UNCHANGED <<day, sub, inv, req, event, asked, faults, paid>>

\* A refused payment in advance writes a failed invoice, due when the last
\* unpaid one is.
DeclineAdvance(a) ==
    /\ At(a, "decline") /\ my[a].debt = None
    /\ LET until == my[a].sub.until
           due == IF FailedUnpaid # None THEN inv[FailedUnpaid].due ELSE until
       IN  inv' = IF Exists("failed", until) \/ Len(inv) = MaxInvoices THEN inv
                  ELSE Append(inv, NewInvoice(until, "failed", "payment_failed", due))
    /\ DebtAppeared /\ Done(a)
    /\ UNCHANGED <<day, tenant, sub, req, event, asked, faults>>

\* A refused settlement leaves a failed payment, of failed type if that is free.
DeclineSettle(a) ==
    /\ At(a, "decline") /\ my[a].debt # None /\ my[a].op = "settle"
    /\ LET d == my[a].debt
       IN  inv' = [inv EXCEPT ![d].status = "payment_failed",
                     ![d].type = IF Exists("failed", inv[d].period) THEN @ ELSE "failed"]
    /\ Know(a, [my[a] EXCEPT !.debt = None, !.status = None]) /\ Go(a, "sync")
    /\ UNCHANGED <<day, tenant, sub, req, event, asked, faults, paid>>

\* A refused retry turns a request into a failed payment, without looking.
DeclineRetry(a) ==
    /\ At(a, "decline") /\ my[a].debt # None /\ my[a].op = "cycle"
    /\ LET d == my[a].debt
       IN  CASE my[a].status = "payment_failed" -> Go(a, "meta") /\ UNCHANGED <<inv, my>>
             [] my[a].status = "issued" /\ MayBecome(d, "failed") ->
                  /\ inv' = [inv EXCEPT ![d].status = "payment_failed", ![d].type = "failed"]
                  /\ Know(a, [my[a] EXCEPT !.status = "payment_failed", !.back = "meta"])
                  /\ Go(a, "sync")
             [] OTHER -> Done(a) /\ UNCHANGED inv
    /\ UNCHANGED <<day, tenant, sub, req, event, asked, faults, paid>>

\* _mark_invoice_retry_meta writes the status it has in hand as well.
Meta(a) ==
    /\ At(a, "meta")
    /\ inv' = [inv EXCEPT ![my[a].debt].status = my[a].status, ![my[a].debt].retried = day]
    /\ Done(a)
    /\ UNCHANGED <<day, tenant, sub, req, event, asked, faults, paid>>

----------------------------------------------------------------------------
(* Requests of the owner, the platform's administrator and the provider      *)

Ask(a, op, regs, step) ==
    /\ At(a, "idle") /\ a \in Clients /\ tenant.schema
    /\ asked < MaxRequests /\ asked' = asked + 1
    /\ Know(a, [regs EXCEPT !.op = op, !.open = tenant.open])
    /\ Go(a, step)

AskSettle(a) ==
    /\ Ask(a, "settle", [Nothing EXCEPT !.sub = sub, !.debt = Debt,
                           !.status = IF Debt = None THEN None ELSE inv[Debt].status], "charge")
    /\ Overlap(a, paid)
    /\ UNCHANGED <<day, tenant, sub, inv, req, event, faults>>

AskCancel(a) ==
    /\ Len(req) < MaxCancels /\ \A b \in Actors : pc[b] # "cancel"
    /\ Ask(a, "cancel", [Nothing EXCEPT !.sub = sub], "cancel")
    /\ UNCHANGED <<day, tenant, sub, inv, req, event, faults, paid>>

\* cancel_subscription looks for no earlier request.
Cancel(a) ==
    /\ At(a, "cancel")
    /\ req' = Append(req, [status |-> "requested", effective |-> my[a].sub.until + 1,
                           deactivated |-> None, byOwner |-> FALSE])
    /\ Done(a)
    /\ UNCHANGED <<day, tenant, sub, inv, event, asked, faults, paid>>

\* restore_subscription_renewal: refused when the latest request is not open
AskRestore(a) ==
    /\ Cancelled /\ req[LastRequest].deactivated = None
    /\ Ask(a, "restore", Nothing, "restore")
    /\ UNCHANGED <<day, tenant, sub, inv, req, event, faults, paid>>

\* restore_latest_cancellation_request: the latest open one, unless deactivated
Restore(a) ==
    /\ At(a, "restore")
    /\ LET l == Latest({i \in DOMAIN req : req[i].status = "requested"})
       IN  req' = IF l # None /\ req[l].deactivated = None
                  THEN [req EXCEPT ![l].status = "renewal_restored"] ELSE req
    /\ Done(a)
    /\ UNCHANGED <<day, tenant, sub, inv, event, asked, faults, paid>>

\* delete_service_access, with no knowledge base left
AskDelete(a) ==
    /\ Cancelled /\ req[LastRequest].deactivated = None
    /\ Ask(a, "delete", [Nothing EXCEPT !.target = LastRequest], "shut")
    /\ UNCHANGED <<day, tenant, sub, inv, req, event, faults, paid>>

\* restore_cancelled_tenant of the platform's administrator: one transaction
AdminRestore ==
    /\ tenant.row /\ ~tenant.open /\ Cancelled /\ asked < MaxRequests
    /\ asked' = asked + 1
    /\ tenant' = [tenant EXCEPT !.open = TRUE]
    /\ req' = [req EXCEPT ![LastRequest].status = "restored"]
    /\ UNCHANGED <<day, sub, inv, event, pc, my, faults, paid>>

\* record_payment_event_once finds no row of the provider's event id.
Fresh == ~event.recorded

\* process_verified_payment_event: recorded first; a second delivery is a duplicate.
Deliver(a) ==
    /\ At(a, "idle") /\ a \in Clients /\ asked < MaxRequests
    /\ asked' = asked + 1
    /\ Fresh
    /\ event' = [event EXCEPT !.recorded = TRUE]
    /\ Know(a, [Nothing EXCEPT !.op = "webhook"]) /\ Go(a, "upgrade")
    /\ Overlap(a, [paid EXCEPT !.plan = "pro"])
    /\ UNCHANGED <<day, tenant, sub, inv, req, faults>>

ReadUpgrade(a) ==
    /\ At(a, "upgrade")
    /\ Know(a, [my[a] EXCEPT !.sub = sub, !.target = day + Cycle]) /\ Go(a, "apply")
    /\ UNCHANGED <<day, tenant, sub, inv, req, event, asked, faults, paid>>

ApplyUpgrade(a) ==
    /\ At(a, "apply")
    /\ Upsert(a, [my[a].sub EXCEPT !.until = my[a].target, !.status = "active", !.plan = "pro"],
              [paid EXCEPT !.until = my[a].target])
    /\ event' = [event EXCEPT !.applied = @ + 1]
    /\ Done(a)
    /\ UNCHANGED <<day, tenant, inv, req, asked, faults>>

----------------------------------------------------------------------------

Lifecycle(a) == PassRow(a) \/ CloseLapsed(a) \/ Mark(a) \/ DropSchema(a) \/ Erase(a)
Sync(a) == SyncCancellation(a) \/ Shut(a) \/ Judge(a) \/ Status(a)
Payment(a) == ReadDebt(a) \/ Charge(a) \/ Book(a) \/ Complete(a) \/ Extend(a)
              \/ Reopen(a) \/ DeclineAdvance(a) \/ DeclineSettle(a) \/ DeclineRetry(a) \/ Meta(a)
Step(a) == Lifecycle(a) \/ ReadTenant(a) \/ Sync(a) \/ Bill(a) \/ Issue(a) \/ Payment(a)
           \/ Cancel(a) \/ Restore(a) \/ ReadUpgrade(a) \/ ApplyUpgrade(a) \/ Vanished(a)
Request(a) == AskSettle(a) \/ AskCancel(a) \/ AskRestore(a) \/ AskDelete(a) \/ Deliver(a)

Next ==
    \/ \E a \in Actors : StartCycle(a) \/ Step(a) \/ Request(a) \/ Crash(a)
    \/ AdminRestore
    \/ NextDay

\* Every operation goes on (a provider call ends by its timeout of 20 s), the
\* worker starts its cycle hour after hour, and days pass; no request has to come.
Fairness == /\ \A a \in Actors : WF_vars(Step(a))
            /\ \A a \in Actors \ Clients : WF_vars(StartCycle(a))
            /\ SF_vars(NextDay)

Spec == Init /\ [][Next]_vars /\ Fairness

----------------------------------------------------------------------------
(* Properties                                                                *)

Statuses == {"active", "restricted"}
Subs == [until : Nat, status : Statuses, plan : Plans, updated : 0..MaxInvoices]
Invoices == [period : Nat, type : {"monthly", "failed"}, due : Nat, retried : Days \cup {None},
             status : {"issued", "payment_failed", "paid"}]
Requests == [status : {"requested", "renewal_restored", "restored"}, effective : Nat,
             deactivated : Days \cup {None}, byOwner : BOOLEAN]

\* Every variable has its type: rows hold the values the columns may have.
TypeOK ==
    /\ day \in 0..MaxDay /\ asked \in 0..MaxRequests /\ faults \in 0..MaxFaults
    /\ tenant \in [row : BOOLEAN, open : BOOLEAN, schema : BOOLEAN]
    /\ sub \in Subs
    /\ Len(inv) <= MaxInvoices /\ \A i \in DOMAIN inv : inv[i] \in Invoices
    /\ Len(req) <= MaxCancels /\ \A i \in DOMAIN req : req[i] \in Requests
    /\ event.applied \in 0..1 /\ (paid = None \/ paid \in [until : Nat, plan : Plans])

\* What the customer has paid for is what the subscription says, no day more
\* and no day less, and the plan paid for is the plan in force: whenever no
\* operation is under way, no payment overlapped another, no copy was written
\* over a newer row and no charge was lost.  (A second charge of one debt, an
\* extension forgotten or given twice would break it.)
PaidIsCovered ==
    Quiet /\ tenant.row /\ ~Disturbed => sub.until = paid.until /\ sub.plan = paid.plan

\* Unless it was disturbed, billing never has two open debts for one period,
\* though requests, failed retries and failed settlements all write them.
OneDebtPerPeriod ==
    tenant.row /\ ~Disturbed =>
        \A i, j \in DOMAIN inv :
            i # j /\ inv[i].period = inv[j].period => "paid" \in {inv[i].status, inv[j].status}

\* An invoice that was paid never becomes a debt again, although the daily
\* retry writes the status it read before the charge and the e-mail.
PaidStaysPaid ==
    [][\A i \in DOMAIN inv : inv[i].status = "paid" => inv'[i].status = "paid" \/ Disturbed']_vars

\* The schema is dropped only for a request whose tenant has been closed for
\* Grace days, and the worker closes none before Grace days past the paid time:
\* no run, restore or settlement in between shortens either wait.
NoEarlyDrop ==
    ~tenant.schema =>
        \E i \in DOMAIN req :
            /\ req[i].deactivated # None /\ req[i].deactivated + Grace <= day
            /\ req[i].byOwner \/ req[i].effective + Grace <= req[i].deactivated

IsOpen(i) == i \in DOMAIN req /\ req[i].status = "requested"
IsClosed(i) == i \in DOMAIN req /\ req[i].deactivated # None

\* A cancelled tenant that nobody restores is closed and then deleted, whatever
\* fails on the way: a crash between any two steps, a DROP SCHEMA, payments and
\* other runs in between.  (The days after MaxDay are not in the model.)
CancelledIsGone ==
    \A i \in 1..MaxCancels :
        IsOpen(i) /\ (IsClosed(i) \/ req[i].effective + Grace <= MaxDay)
            ~> ~tenant.row \/ ~IsOpen(i) \/ (IsClosed(i) /\ req[i].deactivated + Grace > MaxDay)

\* workflows.py:137: the restriction for a debt lasts until the debt is settled.
\* (It does not: see the README.)
RestrictionLasts ==
    [][sub.status = "restricted" /\ sub'.status = "active" =>
           ~\E i \in DOMAIN inv' : inv'[i].status = "payment_failed" /\ inv'[i].due < day]_vars

\* service.py:917: after "renewal restored" no cancellation closes the tenant.
\* (It does after a second cancellation request: see the README.)
RestoredStaysOpen ==
    [][tenant.open /\ ~tenant'.open =>
           ~(LastRequest # None /\ req[LastRequest].status = "renewal_restored" /\ Debt = None)]_vars

====
