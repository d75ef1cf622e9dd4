---- MODULE TenantProvisioning ----
(* Signup of tenants with a confirmed e-mail: the reservation of a slug, the *)
(* confirmation that provisions the tenant step by step, and the saga's      *)
(* compensation.  One slug, wanted by people whose companies have one name:  *)
(* whoever finds it taken goes on to the next suffix, which is another slug. *)
(* Every step is one call of a repository (a transaction of its own) or one  *)
(* DDL operation.  Left out: what a confirmation does after the first that   *)
(* completed (it only issues another set-password link), the limits and the  *)
(* blocklist, custom domains, and the expiry of the demo after days.         *)
EXTENDS Integers, Sequences, FiniteSets

CONSTANTS
    Actors,         \* request threads
    People,         \* who signs up: one e-mail address and one session each
    None,
    MaxRequests, MaxFaults  \* bounds

ASSUME ProvisioningAssumption ==
    None \notin People /\ MaxRequests \in Nat /\ MaxFaults \in Nat

VARIABLES
    slot,           \* the row of demo_signup_sessions that holds the slug, or None
    tenant,         \* row of public.tenants, with its config, domain and subscription
    schema, owners, \* the tenant's schema and the owners in its users table
    pc, my,         \* per actor: the next step, and what the request knows
    asked, faults,
    overlap,        \* history: two requests have provisioned the slug at once
    cut             \* history: what was cut short, of "saga", "create" and "undo"

vars == <<slot, tenant, schema, owners, pc, my, asked, faults, overlap, cut>>

NoTenant == [row |-> FALSE, active |-> FALSE, actor |-> None,
             config |-> FALSE, domain |-> FALSE, sub |-> FALSE]
\* Variant: the default of create, is_active=True
NewActiveTenant == [NoTenant EXCEPT !.row = TRUE, !.active = TRUE]
NewTenant == [NoTenant EXCEPT !.row = TRUE]
Nothing == [who |-> None, op |-> None, fresh |-> FALSE, plan |-> {}, actor |-> None]

Init ==
    /\ slot = None /\ tenant = NoTenant /\ schema = FALSE /\ owners = {}
    /\ pc = [a \in Actors |-> "idle"] /\ my = [a \in Actors |-> Nothing]
    /\ asked = 0 /\ faults = 0 /\ overlap = FALSE /\ cut = {}

----------------------------------------------------------------------------

Go(a, step) == pc' = [pc EXCEPT ![a] = step]
Know(a, regs) == my' = [my EXCEPT ![a] = regs]
Done(a) == Go(a, "idle") /\ Know(a, Nothing)
Who(a) == my[a].who

Holds(p) == slot # None /\ slot.who = p

\* The order of provision: what is not there is made, and noted in the plan.
Follows(step) ==
    CASE step = "look"     -> "schema"
      [] step = "schema"   -> "find"
      [] step = "find"     -> "owner"
      [] step = "create"   -> "owner"
      [] step = "owner"    -> "actor"
      [] step = "own"      -> "actor"
      [] step = "actor"    -> "config"
      [] step = "config"   -> "domain"
      [] step = "domain"   -> "activate"
      [] step = "activate" -> "validate"
      [] step = "validate" -> "load"

Saga == {"look", "schema", "find", "create", "owner", "own", "actor", "config",
         "domain", "activate", "validate"}
Confirming(a) == pc[a] \in Saga \cup {"undo", "load", "hooks", "complete"}

Advance(a) == Go(a, Follows(pc[a])) /\ UNCHANGED my
AdvanceWith(a, x) == Go(a, Follows(pc[a])) /\ Know(a, [my[a] EXCEPT !.plan = @ \cup x])
Raise(a) == Go(a, "undo") /\ UNCHANGED my

\* What a call writes before it raises, when the refresh of the row or the
\* invalidation of the cache fails that follow its commit.  The plan knows only
\* of the configuration, which is noted beforehand.
Written(a) ==
    /\ tenant' =
         CASE pc[a] = "create" /\ ~tenant.row               -> NewTenant
           [] pc[a] = "actor" /\ tenant.row                 -> [tenant EXCEPT !.actor = Who(a)]
           [] pc[a] \in {"config", "domain"} /\ tenant.row  -> [tenant EXCEPT ![pc[a]] = TRUE]
           [] pc[a] = "activate" /\ tenant.row              -> [tenant EXCEPT !.active = TRUE]
           [] OTHER                                         -> tenant
    /\ schema' = (schema \/ pc[a] = "schema")
    /\ owners' = IF pc[a] = "own" /\ schema THEN owners \cup {Who(a)} ELSE owners
    /\ Know(a, IF pc[a] = "config" /\ ~tenant.config
               THEN [my[a] EXCEPT !.plan = @ \cup {"config"}] ELSE my[a])
    /\ cut' = IF pc[a] = "create" /\ ~tenant.row THEN cut \cup {"create"} ELSE cut

Unwritten == UNCHANGED <<tenant, schema, owners, my, cut>>

\* Any call of the saga may raise, and a fault after the saga ends the request.
Fault(a) ==
    /\ faults < MaxFaults /\ faults' = faults + 1
    /\ \/ pc[a] \in Saga /\ Go(a, "undo") /\ (Unwritten \/ Written(a))
       \/ /\ pc[a] \in {"load", "hooks", "complete"} /\ Done(a)
          /\ UNCHANGED <<tenant, schema, owners, cut>>
    /\ UNCHANGED <<slot, asked, overlap>>

\* The process dies: nothing is compensated.
Crash(a) ==
    /\ pc[a] # "idle" /\ faults < MaxFaults
    /\ faults' = faults + 1
    /\ cut' = cut \cup (IF pc[a] \in Saga THEN {"saga"} ELSE {"undo"} \cap {pc[a]})
    /\ Done(a)
    /\ UNCHANGED <<slot, tenant, schema, owners, asked, overlap>>

----------------------------------------------------------------------------
(* signup: reserve the slug, store the token, send the link                  *)

Ask(a, p, op, step) ==
    /\ pc[a] = "idle" /\ asked < MaxRequests
    /\ asked' = asked + 1
    /\ Know(a, [Nothing EXCEPT !.who = p, !.op = op])
    /\ Go(a, step)
    /\ UNCHANGED <<slot, tenant, schema, owners, faults, cut>>

\* DemoSlugReserver.reserve: a slug without tenant, or the session's own one
Signup(a, p) ==
    /\ IF Holds(p) THEN slot.stage = "reserved" ELSE ~tenant.row
    /\ Ask(a, p, "signup", IF Holds(p) THEN "save" ELSE "insert")
    /\ UNCHANGED overlap

\* reserve_slug: ON CONFLICT DO NOTHING
Insert(a) ==
    /\ pc[a] = "insert"
    /\ IF slot = None
       THEN /\ slot' = [who |-> Who(a), stage |-> "reserved", stale |-> FALSE]
            /\ Go(a, "save") /\ UNCHANGED my
       ELSE Done(a) /\ UNCHANGED slot
    /\ UNCHANGED <<tenant, schema, owners, asked, faults, overlap, cut>>

\* Signing up again for the same company is resend_pending_verification.
Resend(a, p) ==
    /\ Holds(p) /\ slot.stage = "pending"
    /\ Ask(a, p, "resend", IF slot.stale THEN "release" ELSE "save")
    /\ UNCHANGED overlap

\* save_pending_verification: of a session that is there and not completed
Save(a) ==
    /\ pc[a] = "save"
    /\ IF Holds(Who(a)) /\ slot.stage # "done"
       THEN /\ slot' = [slot EXCEPT !.stage = "pending", !.stale = FALSE]
            /\ Go(a, "mail") /\ UNCHANGED my
       ELSE /\ UNCHANGED slot
            /\ IF my[a].op = "signup" THEN Go(a, "release") /\ UNCHANGED my ELSE Done(a)
    /\ UNCHANGED <<tenant, schema, owners, asked, faults, overlap, cut>>

\* A link that cannot be sent takes the first reservation back.
Mail(a) ==
    /\ pc[a] = "mail"
    /\ \/ Done(a) /\ UNCHANGED faults
       \/ /\ faults < MaxFaults /\ faults' = faults + 1
          /\ IF my[a].op = "signup" THEN Go(a, "release") /\ UNCHANGED my ELSE Done(a)
    /\ UNCHANGED <<slot, tenant, schema, owners, asked, overlap, cut>>

\* delete_session, by id
Release(a) ==
    /\ pc[a] = "release"
    /\ slot' = IF Holds(Who(a)) THEN None ELSE slot
    /\ Done(a)
    /\ UNCHANGED <<tenant, schema, owners, asked, faults, overlap, cut>>

\* verification_expires_at passes.
Expire ==
    /\ slot # None /\ slot.stage = "pending" /\ ~slot.stale
    /\ slot' = [slot EXCEPT !.stale = TRUE]
    /\ UNCHANGED <<tenant, schema, owners, pc, my, asked, faults, overlap, cut>>

\* cleanup_expired_pending_sessions, at the head of some request
Cleanup ==
    /\ slot # None /\ slot.stage = "pending" /\ slot.stale
    /\ slot' = None
    /\ UNCHANGED <<tenant, schema, owners, pc, my, asked, faults, overlap, cut>>

----------------------------------------------------------------------------
(* confirm_and_provision                                                     *)

AnyOwner(p) == schema /\ owners # {}     \* variant: by role, not by e-mail
OwnerOf(p) == schema /\ p \in owners

\* The token finds the session; an expired one is deleted, a completed one of
\* a tenant with its owner needs nothing more, a tenant that is there is not
\* provisioned.
Confirm(a, p) ==
    /\ Holds(p) /\ slot.stage \in {"pending", "done"}
    /\ ~(slot.stage = "done" /\ tenant.row /\ OwnerOf(p))
    /\ LET expired == slot.stage = "pending" /\ slot.stale
       IN  /\ Ask(a, p, "confirm", CASE expired                -> "release"
                                     [] ~expired /\ tenant.row -> "load"
                                     [] OTHER                  -> "look")
           /\ overlap' = (overlap \/ (~expired /\ \E b \in Actors : Confirming(b)))

Look(a) ==
    /\ pc[a] = "look"
    /\ Know(a, [my[a] EXCEPT !.fresh = ~schema]) /\ Go(a, Follows("look"))
    /\ UNCHANGED <<slot, tenant, schema, owners, asked, faults, overlap, cut>>

MakeSchema(a) ==
    /\ pc[a] = "schema"
    /\ schema' = TRUE
    /\ AdvanceWith(a, IF my[a].fresh THEN {"schema"} ELSE {})
    /\ UNCHANGED <<slot, tenant, owners, asked, faults, overlap, cut>>

FindTenant(a) ==
    /\ pc[a] = "find"
    /\ IF tenant.row THEN Advance(a) ELSE Go(a, "create") /\ UNCHANGED my
    /\ UNCHANGED <<slot, tenant, schema, owners, asked, faults, overlap, cut>>

\* The slug is unique: the loser of a race raises.
CreateTenant(a) ==
    /\ pc[a] = "create"
    /\ IF tenant.row THEN Raise(a) /\ UNCHANGED tenant
       ELSE tenant' = NewTenant /\ AdvanceWith(a, {"tenant"})
    /\ UNCHANGED <<slot, schema, owners, asked, faults, overlap, cut>>

\* The user of this e-mail, else one is created where no owner is.
FindOwner(a) ==
    /\ pc[a] = "owner"
    /\ IF OwnerOf(Who(a)) THEN Advance(a)
       ELSE IF schema /\ owners = {} THEN Go(a, "own") /\ UNCHANGED my
       ELSE Raise(a)
    /\ UNCHANGED <<slot, tenant, schema, owners, asked, faults, overlap, cut>>

CreateOwner(a) ==
    /\ pc[a] = "own"
    /\ IF schema /\ Who(a) \notin owners
       THEN owners' = owners \cup {Who(a)} /\ Advance(a)
       ELSE Raise(a) /\ UNCHANGED owners
    /\ UNCHANGED <<slot, tenant, schema, asked, faults, overlap, cut>>

SetActor(a) ==
    /\ pc[a] = "actor"
    /\ IF tenant.row /\ tenant.actor # Who(a)
       THEN /\ tenant' = [tenant EXCEPT !.actor = Who(a)]
            /\ Go(a, Follows("actor"))
            /\ Know(a, [my[a] EXCEPT !.plan = @ \cup {"actor"}, !.actor = tenant.actor])
       ELSE UNCHANGED tenant /\ Advance(a)
    /\ UNCHANGED <<slot, schema, owners, asked, faults, overlap, cut>>

\* Config and domain need the tenant's row; what is there is kept or rewritten.
MakeAnyway(a, step) ==      \* variant: no foreign key
    /\ pc[a] = step
    /\ tenant' = [tenant EXCEPT ![step] = TRUE] /\ AdvanceWith(a, {step})
    /\ UNCHANGED <<slot, schema, owners, asked, faults, overlap, cut>>

Make(a, step) ==
    /\ pc[a] = step
    /\ IF ~tenant.row THEN Raise(a) /\ UNCHANGED tenant
       ELSE IF tenant[step] THEN Advance(a) /\ UNCHANGED tenant
       ELSE tenant' = [tenant EXCEPT ![step] = TRUE] /\ AdvanceWith(a, {step})
    /\ UNCHANGED <<slot, schema, owners, asked, faults, overlap, cut>>

MakeConfig(a) == Make(a, "config")
MakeDomain(a) == Make(a, "domain")

Activate(a) ==
    /\ pc[a] = "activate"
    /\ IF tenant.row THEN tenant' = [tenant EXCEPT !.active = TRUE] /\ Advance(a)
       ELSE Raise(a) /\ UNCHANGED tenant
    /\ UNCHANGED <<slot, schema, owners, asked, faults, overlap, cut>>

\* is_consistent, of the tenant of this e-mail
Consistent(p) == tenant.row /\ tenant.config /\ tenant.domain /\ OwnerOf(p)

Validate(a) ==
    /\ pc[a] = "validate"
    /\ IF Consistent(Who(a))
       THEN Go(a, "load") /\ Know(a, [Nothing EXCEPT !.who = Who(a), !.op = "confirm"])
       ELSE Raise(a)
    /\ UNCHANGED <<slot, tenant, schema, owners, asked, faults, overlap, cut>>

----------------------------------------------------------------------------
(* _compensate: what the plan says was made, in this order                   *)

\* Variant: the tenant's row forgotten
UndoButTenant == <<"domain", "config", "actor", "schema">>

UndoOrder == <<"domain", "config", "actor", "tenant", "schema">>
\* The first of them that the plan still holds.
ToUndo(plan, x) ==
    \E i \in DOMAIN UndoOrder :
        x = UndoOrder[i] /\ x \in plan /\ \A j \in 1 .. (i - 1) : UndoOrder[j] \notin plan

UndoOne(a, x) ==
    /\ ToUndo(my[a].plan, x)
    /\ Know(a, [my[a] EXCEPT !.plan = @ \ {x}]) /\ UNCHANGED pc
    /\ tenant' = CASE x \in {"domain", "config"} -> [tenant EXCEPT ![x] = FALSE]
                   [] x = "actor" /\ tenant.row  -> [tenant EXCEPT !.actor = my[a].actor]
                   [] x = "tenant"               -> NoTenant
                   [] OTHER                      -> tenant
    /\ schema' = (schema /\ x # "schema")
    /\ owners' = IF x = "schema" THEN {} ELSE owners

Undo(a) ==
    /\ pc[a] = "undo"
    /\ IF \E x \in my[a].plan : ToUndo(my[a].plan, x) THEN \E x \in my[a].plan : UndoOne(a, x)
       ELSE Done(a) /\ UNCHANGED <<tenant, schema, owners>>
    /\ UNCHANGED <<slot, asked, faults, overlap, cut>>

\* A compensation step that raises leaves the later ones undone.
UndoFails(a) ==
    /\ pc[a] = "undo" /\ my[a].plan # {} /\ faults < MaxFaults
    /\ faults' = faults + 1 /\ cut' = cut \cup {"undo"}
    /\ Done(a)
    /\ UNCHANGED <<slot, tenant, schema, owners, asked, overlap>>

----------------------------------------------------------------------------
(* After the saga: owner, hooks of the modules, completion                   *)

LoadOwner(a) ==
    /\ pc[a] = "load"
    /\ IF OwnerOf(Who(a)) THEN Go(a, "hooks") /\ UNCHANGED my ELSE Done(a)
    /\ UNCHANGED <<slot, tenant, schema, owners, asked, faults, overlap, cut>>

\* The billing hook writes the subscription; it and the profile may run again.
Hooks(a) ==
    /\ pc[a] = "hooks"
    /\ tenant' = [tenant EXCEPT !.sub = tenant.row]
    /\ IF schema THEN Go(a, "complete") /\ UNCHANGED my ELSE Done(a)
    /\ UNCHANGED <<slot, schema, owners, asked, faults, overlap, cut>>

\* mark_session_completed, by id
Complete(a) ==
    /\ pc[a] = "complete"
    /\ slot' = IF Holds(Who(a)) THEN [slot EXCEPT !.stage = "done"] ELSE slot
    /\ Done(a)
    /\ UNCHANGED <<tenant, schema, owners, asked, faults, overlap, cut>>

----------------------------------------------------------------------------

Request(a) == \E p \in People : Signup(a, p) \/ Resend(a, p) \/ Confirm(a, p)
Reserving(a) == Insert(a) \/ Save(a) \/ Mail(a) \/ Release(a)
Provision(a) ==
    \/ Look(a) \/ MakeSchema(a) \/ FindTenant(a) \/ CreateTenant(a) \/ FindOwner(a)
    \/ CreateOwner(a) \/ SetActor(a) \/ MakeConfig(a) \/ MakeDomain(a) \/ Activate(a)
    \/ Validate(a)
Step(a) == Reserving(a) \/ Provision(a) \/ Undo(a) \/ LoadOwner(a) \/ Hooks(a) \/ Complete(a)

Next ==
    \/ \E a \in Actors : Request(a) \/ Step(a) \/ Fault(a) \/ Crash(a) \/ UndoFails(a)
    \/ Expire \/ Cleanup

Spec == Init /\ [][Next]_vars

----------------------------------------------------------------------------
(* Properties                                                                *)

Steps == Saga \cup {"idle", "insert", "save", "mail", "release", "undo", "load", "hooks", "complete"}

\* Every variable has its type, and nothing hangs on a row that is not there.
TypeOK ==
    /\ slot = None \/ slot \in [who : People, stage : {"reserved", "pending", "done"}, stale : BOOLEAN]
    /\ tenant \in [row : BOOLEAN, active : BOOLEAN, actor : People \cup {None},
                   config : BOOLEAN, domain : BOOLEAN, sub : BOOLEAN]
    /\ ~tenant.row => tenant = NoTenant
    /\ schema \in BOOLEAN /\ owners \subseteq People /\ (~schema => owners = {})
    /\ \A a \in Actors : pc[a] \in Steps /\ (pc[a] = "idle" <=> my[a] = Nothing)

Quiet == \A a \in Actors : pc[a] = "idle"
Whole == tenant.row /\ tenant.active /\ tenant.config /\ tenant.domain /\ schema /\ owners # {}

\* What a create leaves whose caller does not know that it committed.
Bare == tenant.row /\ ~tenant.active /\ ~tenant.config /\ ~tenant.domain

\* Whichever call of a confirmation fails, and however often it is repeated,
\* afterwards the tenant is whole or not there at all, and a completed signup
\* has a whole tenant with its subscription - but for a create that raises
\* after its commit: nobody takes its row back, and that row never becomes more
\* than an inactive one.  (Unless the process died or the compensation failed,
\* or two confirmations ran at once.)
WholeOrNone ==
    Quiet /\ ~overlap =>
        /\ cut = {} /\ tenant.row => Whole
        /\ cut = {} /\ slot # None /\ slot.stage = "done" => Whole /\ tenant.sub
        /\ cut = {"create"} => Bare

\* A tenant that serves requests has all it needs, whatever step of whatever
\* attempt the process died in, and though later attempts build on what is
\* there: it is activated last.  (Not when taking it back was cut short.)
ActiveIsWhole ==
    tenant.active /\ ~overlap /\ "undo" \notin cut /\ (\A a \in Actors : pc[a] # "undo") => Whole

\* A signup is completed only for a tenant whose one owner is the person who
\* signed up: not when the slug's session expired, was deleted and the slug was
\* reserved by someone else while the first confirmation was still running, nor
\* on what a crashed attempt of another left behind.
OwnOnly ==
    (slot # None /\ slot.stage = "done" /\ ~overlap) => owners = {slot.who}

\* provisioner.py:186: the compensation rolls back partial state regardless of
\* the error.  (Not the row of a create that raised late: see the README.)
NothingIsLeft ==
    Quiet /\ ~overlap /\ cut \subseteq {"create"} /\ tenant.row => Whole

\* new_demo_signup.py:308: a half-done provision is completed by the retry.
\* (It is not: see the README.)
RetryFinishes ==
    (slot # None /\ slot.stage = "done") => tenant.active /\ tenant.config /\ tenant.domain

====
