---------------------- MODULE TenantProvisioningProofs ----------------------
(* Theorems about TenantProvisioning, for any number of people and request  *)
(* threads, and any number of requests and faults.                          *)
EXTENDS TenantProvisioning, TLAPS

-----------------------------------------------------------------------------
(* The inductive invariant.                                                 *)

Slots == [who : People, stage : {"reserved", "pending", "done"}, stale : BOOLEAN]
Rows == [row : BOOLEAN, active : BOOLEAN, actor : People \cup {None},
         config : BOOLEAN, domain : BOOLEAN, sub : BOOLEAN]
Regs == [who : People \cup {None}, op : {None, "signup", "resend", "confirm"}, fresh : BOOLEAN,
         plan : SUBSET {"domain", "config", "actor", "tenant", "schema"},
         actor : People \cup {None}]

\* What each variable ranges over, and that a request is somebody's.
Shape ==
    /\ slot = None \/ slot \in Slots
    /\ tenant \in Rows /\ schema \in BOOLEAN /\ owners \subseteq People
    /\ pc \in [Actors -> Steps] /\ my \in [Actors -> Regs]
    /\ cut \subseteq {"saga", "create", "undo"} /\ overlap \in BOOLEAN

Idle(a) == IF pc[a] = "idle" THEN my[a] = Nothing ELSE Who(a) \in People

TypeInv ==
    /\ Shape
    /\ ~tenant.row => tenant = NoTenant
    /\ ~schema => owners = {}
    /\ \A a \in Actors : Idle(a)

Early == {"look", "schema", "find", "create"}
Owned == {"actor", "config", "domain", "activate", "validate", "hooks", "complete"}

\* What a confirmation has behind it when it is at a step.
Phase(a) ==
    /\ pc[a] \in Early => ~tenant.row
    /\ pc[a] \in Saga \ {"look", "schema"} => schema
    /\ pc[a] \in Saga \ Early => tenant.row /\ "tenant" \in my[a].plan
    /\ pc[a] = "own" => owners = {}
    /\ pc[a] \in Owned => owners = {Who(a)}
    /\ pc[a] \in {"domain", "activate", "validate"} => tenant.config
    /\ pc[a] \in {"activate", "validate"} => tenant.domain
    /\ pc[a] = "validate" => tenant.active
    /\ pc[a] \in Saga \ {"validate"} => ~tenant.active
    /\ pc[a] = "undo" /\ tenant.row => "tenant" \in my[a].plan \/ "create" \in cut
    /\ pc[a] \in {"load", "hooks", "complete"} => tenant.row
    /\ pc[a] \in {"hooks", "complete"} => schema
    /\ pc[a] = "complete" => tenant.sub

\* One confirmation at a time.
Solo == \A a, b \in Actors : Confirming(a) /\ Confirming(b) => a = b

\* Who makes the tenant or takes it back.
Works(a) == pc[a] \in Saga \cup {"undo"}

OneOwner == \A p, q \in owners : p = q

\* A completed signup has its tenant, and nobody will touch it.
Completed ==
    slot # None /\ slot.stage = "done" =>
        /\ tenant.row /\ tenant.sub /\ schema /\ owners = {slot.who}
        /\ \A a \in Actors : ~Works(a)

\* ActiveIsWhole, and as long as nothing was cut short.
ActiveWhole == tenant.active /\ "undo" \notin cut /\ (\A a \in Actors : pc[a] # "undo") => Whole
RowWhole == tenant.row /\ cut = {} /\ (\A a \in Actors : ~Works(a)) => Whole

Ordered ==
    /\ Solo /\ OneOwner /\ Completed /\ ActiveWhole /\ RowWhole
    /\ \A a \in Actors : Phase(a)

\* A plan notes the tenant's row once its create has returned; the row of a
\* create that raised is in no plan, and as nobody provisions a slug that has a
\* row, nothing is added to it.
Left ==
    /\ \A a \in Actors : pc[a] \in Early => "tenant" \notin my[a].plan
    /\ "create" \in cut => Bare
    /\ "create" \in cut => \A a \in Actors : pc[a] \notin Saga
    /\ "create" \in cut => \A a \in Actors : pc[a] = "undo" => "tenant" \notin my[a].plan

Inv == TypeInv /\ (~overlap => Ordered /\ Left)

-----------------------------------------------------------------------------
(* The types                                                                *)

\* A request that moves is typed if its step and what it knows are.
LEMMA MoveTyped ==
  ASSUME TypeInv, NEW a \in Actors, NEW s \in Steps, NEW m \in Regs,
         IF s = "idle" THEN m = Nothing ELSE m.who \in People,
         Go(a, s), Know(a, m)
  PROVE  /\ pc' \in [Actors -> Steps] /\ my' \in [Actors -> Regs]
         /\ \A b \in Actors : Idle(b)'
BY DEF TypeInv, Shape, Idle, Who, Go, Know

\* The same when it learns nothing.
LEMMA GoTyped ==
  ASSUME TypeInv, NEW a \in Actors, NEW s \in Steps, s # "idle", pc[a] # "idle",
         Go(a, s), UNCHANGED my
  PROVE  /\ pc' \in [Actors -> Steps] /\ my' \in [Actors -> Regs]
         /\ \A b \in Actors : Idle(b)'
BY DEF TypeInv, Shape, Idle, Who, Go

LEMMA NothingTyped == Nothing \in Regs /\ Nothing.who = None /\ Nothing.actor = None
BY DEF Nothing, Regs

LEMMA DoneTyped ==
  ASSUME TypeInv, NEW a \in Actors, Done(a)
  PROVE  /\ pc' \in [Actors -> Steps] /\ my' \in [Actors -> Regs]
         /\ \A b \in Actors : Idle(b)'
<1>1. "idle" \in Steps
  BY DEF Steps
<1> QED BY <1>1, NothingTyped, MoveTyped DEF Done

LEMMA SagaSteps ==
  /\ Saga \subseteq Steps /\ "idle" \notin Saga /\ "undo" \in Steps
  /\ \A s \in Saga : Follows(s) \in Steps /\ Follows(s) # "idle"
BY DEF Saga, Steps, Follows

\* A step of the saga goes on to the next or to the compensation.
LEMMA SagaTyped ==
  ASSUME TypeInv, NEW a \in Actors, pc[a] \in Saga,
         NEW x \in SUBSET {"domain", "config", "actor", "tenant", "schema"},
         \/ Advance(a) \/ AdvanceWith(a, x) \/ Raise(a)
         \/ Go(a, "create") /\ UNCHANGED my
         \/ Go(a, "own") /\ UNCHANGED my
  PROVE  /\ pc' \in [Actors -> Steps] /\ my' \in [Actors -> Regs]
         /\ \A b \in Actors : Idle(b)'
<1>1. pc[a] # "idle" /\ my[a] \in Regs /\ my[a].who \in People
  BY SagaSteps DEF TypeInv, Shape, Idle, Who
<1>2. Follows(pc[a]) \in Steps /\ Follows(pc[a]) # "idle"
  BY SagaSteps
<1>3. CASE Advance(a)
  BY <1>1, <1>2, <1>3, GoTyped DEF Advance
<1>4. CASE AdvanceWith(a, x)
  <2>1. [my[a] EXCEPT !.plan = @ \cup x] \in Regs /\ [my[a] EXCEPT !.plan = @ \cup x].who = my[a].who
    BY <1>1 DEF Regs
  <2> QED BY <1>1, <1>2, <1>4, <2>1, MoveTyped DEF AdvanceWith
<1>5. CASE Raise(a)
  BY <1>1, <1>5, SagaSteps, GoTyped DEF Raise
<1>6. CASE Go(a, "create") /\ UNCHANGED my
  BY <1>1, <1>6, GoTyped DEF Steps, Saga
<1>7. CASE Go(a, "own") /\ UNCHANGED my
  BY <1>1, <1>7, GoTyped DEF Steps, Saga
<1> QED BY <1>3, <1>4, <1>5, <1>6, <1>7

\* The rows of the tenant: with one field changed, and the row as it is made.
LEMMA TenantTyped ==
  ASSUME TypeInv
  PROVE  /\ NoTenant \in Rows /\ ~NoTenant.row /\ NewTenant \in Rows /\ NewTenant.row
         /\ \A f \in {"config", "domain"}, v \in BOOLEAN :
                [tenant EXCEPT ![f] = v] \in Rows /\ [tenant EXCEPT ![f] = v].row = tenant.row
         /\ \A v \in BOOLEAN :
                /\ [tenant EXCEPT !.active = v] \in Rows /\ [tenant EXCEPT !.active = v].row = tenant.row
                /\ [tenant EXCEPT !.sub = v] \in Rows /\ [tenant EXCEPT !.sub = v].row = tenant.row
         /\ \A p \in People \cup {None} :
                [tenant EXCEPT !.actor = p] \in Rows /\ [tenant EXCEPT !.actor = p].row = tenant.row
         /\ ~tenant.row => /\ \A f \in {"config", "domain"} : [tenant EXCEPT ![f] = FALSE] = NoTenant
                           /\ [tenant EXCEPT !.sub = tenant.row] = NoTenant
<1>1. tenant \in Rows /\ (~tenant.row => tenant = NoTenant)
  BY DEF TypeInv, Shape
<1>2. NoTenant \in Rows /\ ~NoTenant.row
  BY DEF Rows, NoTenant
<1>3. NewTenant \in Rows /\ NewTenant.row
  BY DEF Rows, NewTenant, NoTenant
<1>4. ASSUME NEW v \in BOOLEAN
      PROVE  /\ [tenant EXCEPT !["config"] = v] \in Rows /\ [tenant EXCEPT !["config"] = v].row = tenant.row
             /\ [tenant EXCEPT !["domain"] = v] \in Rows /\ [tenant EXCEPT !["domain"] = v].row = tenant.row
             /\ [tenant EXCEPT !.active = v] \in Rows /\ [tenant EXCEPT !.active = v].row = tenant.row
             /\ [tenant EXCEPT !.sub = v] \in Rows /\ [tenant EXCEPT !.sub = v].row = tenant.row
  BY <1>1 DEF Rows
<1>5. ASSUME NEW p \in People \cup {None}
      PROVE  [tenant EXCEPT !.actor = p] \in Rows /\ [tenant EXCEPT !.actor = p].row = tenant.row
  BY <1>1 DEF Rows
<1>6. ASSUME ~tenant.row
      PROVE  /\ [tenant EXCEPT !["config"] = FALSE] = NoTenant /\ [tenant EXCEPT !["domain"] = FALSE] = NoTenant
             /\ [tenant EXCEPT !.sub = FALSE] = NoTenant /\ tenant.row = FALSE
  <2>1. tenant = NoTenant /\ tenant \in Rows
    BY <1>1, <1>6
  <2>2. tenant.config = FALSE /\ tenant.domain = FALSE /\ tenant.sub = FALSE /\ tenant.row = FALSE
    BY <2>1 DEF NoTenant
  <2>3. /\ [tenant EXCEPT !["config"] = FALSE] = tenant /\ [tenant EXCEPT !["domain"] = FALSE] = tenant
        /\ [tenant EXCEPT !.sub = FALSE] = tenant
    BY <2>1, <2>2 DEF Rows
  <2> QED BY <2>1, <2>2, <2>3
<1> QED BY <1>2, <1>3, <1>4, <1>5, <1>6

-----------------------------------------------------------------------------
(* Every step keeps the types.                                              *)

LEMMA AskTyped ==
  ASSUME TypeInv, NEW a \in Actors, NEW p \in People,
         NEW op \in {"signup", "resend", "confirm"}, NEW s \in Steps \ {"idle"},
         Ask(a, p, op, s), overlap' \in BOOLEAN
  PROVE  TypeInv'
<1>1. LET m == [Nothing EXCEPT !.who = p, !.op = op] IN m \in Regs /\ m.who = p
  BY DEF Nothing, Regs
<1>2. /\ pc' \in [Actors -> Steps] /\ my' \in [Actors -> Regs]
      /\ \A b \in Actors : Idle(b)'
  BY <1>1, MoveTyped DEF Ask
<1> QED BY <1>2 DEF TypeInv, Shape, Ask

LEMMA RequestTyped ==
  ASSUME TypeInv, NEW a \in Actors, Request(a)
  PROVE  TypeInv'
<1>0. overlap \in BOOLEAN
  BY DEF TypeInv, Shape
<1>1. PICK p \in People : Signup(a, p) \/ Resend(a, p) \/ Confirm(a, p)
  BY DEF Request
<1>2. CASE Signup(a, p)
  <2>1. PICK s \in Steps \ {"idle"} : Ask(a, p, "signup", s) /\ UNCHANGED overlap
    BY <1>2 DEF Signup, Steps
  <2> QED BY <1>0, <2>1, AskTyped
<1>3. CASE Resend(a, p)
  <2>1. PICK s \in Steps \ {"idle"} : Ask(a, p, "resend", s) /\ UNCHANGED overlap
    BY <1>3 DEF Resend, Steps
  <2> QED BY <1>0, <2>1, AskTyped
<1>4. CASE Confirm(a, p)
  <2>1. PICK s \in Steps \ {"idle"} : Ask(a, p, "confirm", s) /\ overlap' \in BOOLEAN
    <3> DEFINE expired == slot.stage = "pending" /\ slot.stale
    <3>1. CASE expired
      BY <1>4, <3>1, <1>0 DEF Confirm, Steps
    <3>2. CASE ~expired /\ tenant.row
      BY <1>4, <3>2, <1>0 DEF Confirm, Steps
    <3>3. CASE ~expired /\ ~tenant.row
      BY <1>4, <3>3, <1>0 DEF Confirm, Steps, Saga
    <3> QED BY <3>1, <3>2, <3>3
  <2> QED BY <2>1, AskTyped
<1> QED BY <1>1, <1>2, <1>3, <1>4

LEMMA ReservingTyped ==
  ASSUME TypeInv, NEW a \in Actors, Reserving(a)
  PROVE  TypeInv'
<1>1. /\ pc' \in [Actors -> Steps] /\ my' \in [Actors -> Regs]
      /\ \A b \in Actors : Idle(b)'
  <2>1. pc[a] # "idle" /\ "save" \in Steps /\ "mail" \in Steps /\ "release" \in Steps
    BY DEF Reserving, Insert, Save, Mail, Release, Steps
  <2>2. \/ Done(a)
        \/ \E s \in {"save", "mail", "release"} : Go(a, s) /\ UNCHANGED my
    BY DEF Reserving, Insert, Save, Mail, Release
  <2> QED BY <2>1, <2>2, GoTyped, DoneTyped
<1>2. slot' = None \/ slot' \in Slots
  <2>1. CASE Insert(a)
    <3>1. Who(a) \in People
      BY <2>1 DEF Insert, TypeInv, Idle
    <3>2. [who |-> Who(a), stage |-> "reserved", stale |-> FALSE] \in Slots
      BY <3>1 DEF Slots
    <3> QED BY <2>1, <3>2 DEF Insert, TypeInv, Shape
  <2>2. CASE Save(a)
    BY <2>2 DEF Save, TypeInv, Shape, Slots, Holds
  <2>3. CASE Mail(a) \/ Release(a)
    BY <2>3 DEF Mail, Release, TypeInv, Shape
  <2> QED BY <2>1, <2>2, <2>3 DEF Reserving
<1>3. UNCHANGED <<tenant, schema, owners, cut, overlap>>
  BY DEF Reserving, Insert, Save, Mail, Release
<1> QED BY <1>1, <1>2, <1>3 DEF TypeInv, Shape

LEMMA ProvisionTyped ==
  ASSUME TypeInv, NEW a \in Actors, Provision(a)
  PROVE  TypeInv'
<1> DEFINE Typed == /\ pc' \in [Actors -> Steps] /\ my' \in [Actors -> Regs]
                    /\ \A b \in Actors : Idle(b)'
<1>0. /\ pc[a] # "idle" => my[a] \in Regs /\ Who(a) \in People
      /\ tenant \in Rows /\ schema \in BOOLEAN /\ owners \subseteq People
  BY DEF TypeInv, Shape, Idle
<1>1. CASE Look(a)
  <2>1. [my[a] EXCEPT !.fresh = ~schema] \in Regs /\ [my[a] EXCEPT !.fresh = ~schema].who = Who(a)
    BY <1>0, <1>1 DEF Look, Regs, Who
  <2>2. Typed
    BY <1>0, <1>1, <2>1, MoveTyped, SagaSteps DEF Look, Saga
  <2> QED BY <1>1, <2>2 DEF Look, TypeInv, Shape
<1>2. CASE MakeSchema(a)
  <2>1. Typed
    BY <1>2, SagaTyped DEF MakeSchema, Saga
  <2> QED BY <1>2, <2>1 DEF MakeSchema, TypeInv, Shape
<1>3. CASE FindTenant(a)
  <2>1. Typed
    BY <1>3, SagaTyped DEF FindTenant, Saga
  <2> QED BY <1>3, <2>1 DEF FindTenant, TypeInv, Shape
<1>4. CASE CreateTenant(a)
  <2>1. Typed
    BY <1>4, SagaTyped DEF CreateTenant, Saga
  <2>2. tenant' \in Rows /\ (~tenant'.row => tenant' = NoTenant)
    BY <1>4, TenantTyped DEF CreateTenant, TypeInv, Shape
  <2> QED BY <1>4, <2>1, <2>2 DEF CreateTenant, TypeInv, Shape
<1>5. CASE FindOwner(a)
  <2>1. Advance(a) \/ (Go(a, "own") /\ UNCHANGED my) \/ Raise(a)
    BY <1>5 DEF FindOwner
  <2>2. Typed
    BY <1>5, <2>1, SagaTyped DEF FindOwner, Saga
  <2> QED BY <1>5, <2>2 DEF FindOwner, TypeInv, Shape
<1>6. CASE CreateOwner(a)
  <2>1. Typed
    BY <1>6, SagaTyped DEF CreateOwner, Saga
  <2>2. owners' \subseteq People /\ (~schema => owners' = {})
    BY <1>0, <1>6 DEF CreateOwner, TypeInv
  <2> QED BY <1>6, <2>1, <2>2 DEF CreateOwner, TypeInv, Shape
<1>7. CASE SetActor(a)
  <2>1. CASE tenant.row /\ tenant.actor # Who(a)
    <3>1. pc[a] = "actor" /\ tenant' = [tenant EXCEPT !.actor = Who(a)] /\ Go(a, "config")
          /\ Know(a, [my[a] EXCEPT !.plan = @ \cup {"actor"}, !.actor = tenant.actor])
      BY <1>7, <2>1 DEF SetActor, Follows
    <3> DEFINE m == [my[a] EXCEPT !.plan = @ \cup {"actor"}, !.actor = tenant.actor]
    <3>2. m \in Regs /\ m.who = Who(a)
      BY <1>0, <3>1 DEF Regs, Rows, Who
    <3>3. Typed
      BY <1>0, <3>1, <3>2, MoveTyped DEF Steps, Saga
    <3>4. tenant' \in Rows /\ tenant'.row
      BY <1>0, <2>1, <3>1, TenantTyped
    <3> QED BY <1>7, <3>3, <3>4 DEF SetActor, TypeInv, Shape
  <2>2. CASE ~(tenant.row /\ tenant.actor # Who(a))
    <3>1. Typed
      BY <1>7, <2>2, SagaTyped DEF SetActor, Saga
    <3> QED BY <1>7, <2>2, <3>1 DEF SetActor, TypeInv, Shape
  <2> QED BY <2>1, <2>2
<1>8. CASE MakeConfig(a) \/ MakeDomain(a)
  <2>1. PICK f \in {"config", "domain"} : Make(a, f)
    BY <1>8 DEF MakeConfig, MakeDomain
  <2>2. Typed
    BY <2>1, SagaTyped DEF Make, Saga
  <2>3. UNCHANGED tenant \/ (tenant.row /\ tenant' = [tenant EXCEPT ![f] = TRUE])
    BY <2>1 DEF Make
  <2>4. tenant' \in Rows /\ (~tenant'.row => tenant' = NoTenant)
    BY <2>3, TenantTyped DEF TypeInv, Shape
  <2> QED BY <2>1, <2>2, <2>4 DEF Make, TypeInv, Shape
<1>9. CASE Activate(a)
  <2>1. Typed
    BY <1>9, SagaTyped DEF Activate, Saga
  <2>2. tenant' \in Rows /\ (~tenant'.row => tenant' = NoTenant)
    BY <1>9, TenantTyped DEF Activate, TypeInv, Shape
  <2> QED BY <1>9, <2>1, <2>2 DEF Activate, TypeInv, Shape
<1>10. CASE Validate(a)
  <2>1. CASE Consistent(Who(a))
    <3>1. LET m == [Nothing EXCEPT !.who = Who(a), !.op = "confirm"] IN m \in Regs /\ m.who = Who(a)
      BY <1>0, <1>10 DEF Nothing, Regs, Validate
    <3>2. Typed
      BY <1>0, <1>10, <2>1, <3>1, MoveTyped DEF Validate, Steps
    <3> QED BY <1>10, <3>2 DEF Validate, TypeInv, Shape
  <2>2. CASE ~Consistent(Who(a))
    <3>1. Typed
      BY <1>10, <2>2, SagaTyped DEF Validate, Saga
    <3> QED BY <1>10, <3>1 DEF Validate, TypeInv, Shape
  <2> QED BY <2>1, <2>2
<1> QED BY <1>1, <1>2, <1>3, <1>4, <1>5, <1>6, <1>7, <1>8, <1>9, <1>10 DEF Provision

LEMMA UndoTyped ==
  ASSUME TypeInv, NEW a \in Actors, Undo(a)
  PROVE  TypeInv'
<1>1. CASE Done(a) /\ UNCHANGED <<tenant, schema, owners>>
  BY <1>1, DoneTyped DEF Undo, TypeInv, Shape
<1>2. ASSUME NEW x \in my[a].plan, UndoOne(a, x)
      PROVE  TypeInv'
  <2>1. my[a] \in Regs /\ Who(a) \in People /\ tenant \in Rows /\ pc[a] = "undo"
    BY DEF Undo, TypeInv, Shape, Idle
  <2>2. x \in {"domain", "config", "actor", "tenant", "schema"} /\ my[a].actor \in People \cup {None}
    BY <2>1 DEF Regs
  <2>3. [my[a] EXCEPT !.plan = @ \ {x}] \in Regs /\ [my[a] EXCEPT !.plan = @ \ {x}].who = Who(a)
    BY <2>1 DEF Regs, Who
  <2>4. pc' = pc /\ my' = [my EXCEPT ![a] = [my[a] EXCEPT !.plan = @ \ {x}]]
    BY <1>2 DEF UndoOne, Know
  <2>5. /\ pc' \in [Actors -> Steps] /\ my' \in [Actors -> Regs]
        /\ \A b \in Actors : Idle(b)'
    BY <2>1, <2>3, <2>4 DEF TypeInv, Shape, Idle, Who
  <2>6. tenant' \in Rows /\ (~tenant'.row => tenant' = NoTenant)
    <3>1. CASE x \in {"domain", "config"}
      BY <1>2, <3>1, TenantTyped DEF UndoOne, TypeInv
    <3>2. CASE x = "actor"
      BY <1>2, <2>1, <2>2, <3>2, TenantTyped DEF UndoOne, TypeInv
    <3>3. CASE x = "tenant"
      BY <1>2, <3>3, TenantTyped DEF UndoOne
    <3>4. CASE x = "schema"
      BY <1>2, <2>1, <3>4 DEF UndoOne, TypeInv
    <3> QED BY <2>2, <3>1, <3>2, <3>3, <3>4
  <2>7. schema' \in BOOLEAN /\ owners' \subseteq People /\ (~schema' => owners' = {})
    BY <1>2 DEF UndoOne, TypeInv, Shape
  <2> QED BY <2>5, <2>6, <2>7 DEF Undo, TypeInv, Shape
<1> QED BY <1>1, <1>2 DEF Undo

LEMMA AfterTyped ==
  ASSUME TypeInv, NEW a \in Actors, LoadOwner(a) \/ Hooks(a) \/ Complete(a)
  PROVE  TypeInv'
<1>1. /\ pc' \in [Actors -> Steps] /\ my' \in [Actors -> Regs]
      /\ \A b \in Actors : Idle(b)'
  <2>1. pc[a] # "idle"
    BY DEF LoadOwner, Hooks, Complete
  <2>2. Done(a) \/ \E s \in {"hooks", "complete"} : Go(a, s) /\ UNCHANGED my
    BY DEF LoadOwner, Hooks, Complete
  <2> QED BY <2>1, <2>2, GoTyped, DoneTyped DEF Steps
<1>2. CASE LoadOwner(a)
  BY <1>1, <1>2 DEF LoadOwner, TypeInv, Shape
<1>3. CASE Hooks(a)
  <2>1. tenant' \in Rows /\ (~tenant'.row => tenant' = NoTenant)
    BY <1>3, TenantTyped DEF Hooks, TypeInv, Shape, Rows
  <2> QED BY <1>1, <1>3, <2>1 DEF Hooks, TypeInv, Shape
<1>4. CASE Complete(a)
  <2>1. slot' = None \/ slot' \in Slots
    BY <1>4 DEF Complete, TypeInv, Shape, Slots, Holds
  <2> QED BY <1>1, <1>4, <2>1 DEF Complete, TypeInv, Shape
<1> QED BY <1>2, <1>3, <1>4

LEMMA FaultTyped ==
  ASSUME TypeInv, NEW a \in Actors, Fault(a) \/ Crash(a) \/ UndoFails(a)
  PROVE  TypeInv'
<1>1. CASE Fault(a) /\ Done(a) /\ UNCHANGED <<tenant, schema, owners, cut>>
  BY <1>1, DoneTyped DEF Fault, TypeInv, Shape
<1>3. CASE Fault(a) /\ pc[a] \in Saga /\ Go(a, "undo") /\ Unwritten
  <2>1. Raise(a)
    BY <1>3 DEF Raise, Unwritten
  <2>2. /\ pc' \in [Actors -> Steps] /\ my' \in [Actors -> Regs]
        /\ \A b \in Actors : Idle(b)'
    BY <1>3, <2>1, SagaTyped
  <2> QED BY <1>3, <2>2 DEF Fault, Unwritten, TypeInv, Shape
<1>4. CASE Fault(a) /\ pc[a] \in Saga /\ Go(a, "undo") /\ Written(a)
  <2>1. my[a] \in Regs /\ Who(a) \in People /\ tenant \in Rows /\ "undo" \in Steps /\ "undo" # "idle"
    BY <1>4, SagaSteps DEF TypeInv, Shape, Idle
  <2>2. /\ [my[a] EXCEPT !.plan = @ \cup {"config"}] \in Regs
        /\ [my[a] EXCEPT !.plan = @ \cup {"config"}].who = Who(a)
    BY <2>1 DEF Regs, Who
  <2>3. \E m \in Regs : Know(a, m) /\ m.who = Who(a)
    BY <1>4, <2>1, <2>2 DEF Written, Who
  <2>4. /\ pc' \in [Actors -> Steps] /\ my' \in [Actors -> Regs]
        /\ \A b \in Actors : Idle(b)'
    BY <1>4, <2>1, <2>3, MoveTyped
  <2>5. tenant' \in Rows /\ (~tenant'.row => tenant' = NoTenant)
    <3>1. CASE pc[a] = "create"
      BY <1>4, <2>1, <3>1, TenantTyped DEF Written, TypeInv
    <3>2. CASE pc[a] = "actor"
      BY <1>4, <2>1, <3>2, TenantTyped DEF Written, TypeInv
    <3>3. CASE pc[a] \in {"config", "domain"}
      BY <1>4, <2>1, <3>3, TenantTyped DEF Written, TypeInv
    <3>4. CASE pc[a] = "activate"
      BY <1>4, <2>1, <3>4, TenantTyped DEF Written, TypeInv
    <3>5. CASE pc[a] \notin {"create", "actor", "config", "domain", "activate"}
      BY <1>4, <2>1, <3>5 DEF Written, TypeInv
    <3> QED BY <3>1, <3>2, <3>3, <3>4, <3>5
  <2>6. schema' \in BOOLEAN /\ owners' \subseteq People /\ (~schema' => owners' = {})
    BY <1>4, <2>1 DEF Written, TypeInv, Shape
  <2>7. cut' \subseteq {"saga", "create", "undo"}
    BY <1>4 DEF Written, TypeInv, Shape
  <2> QED BY <1>4, <2>4, <2>5, <2>6, <2>7 DEF Fault, TypeInv, Shape
<1>2. CASE Crash(a) \/ UndoFails(a)
  <2>1. Done(a) /\ cut' \subseteq {"saga", "create", "undo"} /\ UNCHANGED <<slot, tenant, schema, owners, overlap>>
    BY <1>2 DEF Crash, UndoFails, TypeInv, Shape
  <2> QED BY <2>1, DoneTyped DEF TypeInv, Shape
<1> QED BY <1>1, <1>2, <1>3, <1>4 DEF Fault

LEMMA ExpiryTyped ==
  ASSUME TypeInv, Expire \/ Cleanup
  PROVE  TypeInv'
<1>1. slot' = None \/ slot' \in Slots
  BY DEF Expire, Cleanup, TypeInv, Shape, Slots
<1>2. UNCHANGED <<tenant, schema, owners, pc, my, overlap, cut>>
  BY DEF Expire, Cleanup
<1> QED BY <1>1, <1>2 DEF TypeInv, Shape, Idle, Who

LEMMA TypeStep == TypeInv /\ [Next]_vars => TypeInv'
<1> SUFFICES ASSUME TypeInv, [Next]_vars PROVE TypeInv'
  OBVIOUS
<1>1. CASE Next
  <2>1. ASSUME NEW a \in Actors, Request(a) \/ Step(a) \/ Fault(a) \/ Crash(a) \/ UndoFails(a)
        PROVE  TypeInv'
    BY <2>1, RequestTyped, ReservingTyped, ProvisionTyped, UndoTyped, AfterTyped, FaultTyped DEF Step
  <2> QED BY <1>1, <2>1, ExpiryTyped DEF Next
<1>2. CASE UNCHANGED vars
  BY <1>2 DEF vars, TypeInv, Shape, Idle, Who
<1> QED BY <1>1, <1>2

LEMMA InitTyped == Init => TypeInv
<1> SUFFICES ASSUME Init PROVE TypeInv
  OBVIOUS
<1>1. NoTenant \in Rows
  BY DEF NoTenant, Rows
<1> QED BY <1>1, NothingTyped DEF Init, TypeInv, Shape, Idle, Steps

-----------------------------------------------------------------------------
(* Every step keeps the order in which a tenant is made and taken back.     *)

After == {"load", "hooks", "complete"}

\* One that is not confirming moves, and leaves the tenant alone.
LEMMA AsideStep ==
  ASSUME Ordered, NEW a \in Actors, pc \in [Actors -> Steps], my \in [Actors -> Regs],
         ~Confirming(a), NEW s \in Steps \ (Saga \cup {"undo"} \cup After), Go(a, s),
         \A b \in Actors \ {a} : my'[b] = my[b],
         UNCHANGED <<tenant, schema, owners, cut>>,
         slot' # None /\ slot'.stage = "done" =>
            slot # None /\ slot.stage = "done" /\ slot.who = slot'.who
  PROVE  Ordered'
<1>1. /\ pc'[a] = s /\ ~Works(a) /\ s \notin Saga \cup {"undo"} \cup After
      /\ \A b \in Actors \ {a} : pc'[b] = pc[b]
  BY DEF Go, Works, Confirming
<1>2. \A b \in Actors : Confirming(b)' => Confirming(b) /\ b # a
  BY <1>1 DEF Confirming, After
<1>3. Solo'
  BY <1>2 DEF Ordered, Solo
<1>4. \A b \in Actors : Works(b)' <=> Works(b)
  BY <1>1 DEF Works
<1>5. \A b \in Actors : pc'[b] = "undo" <=> pc[b] = "undo"
  BY <1>1 DEF Confirming
<1>6. OneOwner' /\ Completed' /\ ActiveWhole' /\ RowWhole'
  BY <1>4, <1>5 DEF Ordered, OneOwner, Completed, ActiveWhole, RowWhole, Whole
<1>7. Phase(a)'
  BY <1>1 DEF Phase, Early, Owned, Saga, After
<1>8. ASSUME NEW b \in Actors \ {a}
      PROVE  Phase(b)'
  <2>1. Phase(b) /\ pc'[b] = pc[b] /\ my'[b] = my[b]
    BY <1>1 DEF Ordered
  <2> QED BY <2>1 DEF Phase, Who
<1> QED BY <1>3, <1>6, <1>7, <1>8 DEF Ordered

\* One that confirms does it alone: what remains to show is about itself.
LEMMA AloneStep ==
  ASSUME Ordered, NEW a \in Actors, pc \in [Actors -> Steps], my \in [Actors -> Regs],
         Confirming(a), NEW s \in Steps, Go(a, s),
         OneOwner', Phase(a)',
         slot' # None /\ slot'.stage = "done" =>
            /\ tenant'.row /\ tenant'.sub /\ schema' /\ owners' = {slot'.who}
            /\ s \notin Saga \cup {"undo"},
         tenant'.active /\ "undo" \notin cut' /\ s # "undo" => Whole',
         tenant'.row /\ cut' = {} /\ s \notin Saga \cup {"undo"} => Whole'
  PROVE  Ordered'
<1>1. pc'[a] = s /\ \A b \in Actors \ {a} : pc'[b] = pc[b] /\ ~Confirming(b)
  BY DEF Go, Ordered, Solo
<1>2. \A b \in Actors \ {a} : ~Confirming(b)' /\ ~Works(b)' /\ pc'[b] # "undo"
  BY <1>1 DEF Confirming, Works
<1>3. Solo'
  BY <1>2 DEF Solo
<1>4. ASSUME NEW b \in Actors \ {a}
      PROVE  Phase(b)'
  <2>1. pc'[b] \notin Saga \cup {"undo", "load", "hooks", "complete"}
    BY <1>2 DEF Confirming
  <2> QED BY <2>1 DEF Phase, Early, Owned, Saga
<1>5. Works(a)' <=> s \in Saga \cup {"undo"}
  BY <1>1 DEF Works
<1>6. Completed' /\ ActiveWhole' /\ RowWhole'
  BY <1>1, <1>2, <1>5 DEF Completed, ActiveWhole, RowWhole
<1> QED BY <1>3, <1>4, <1>6 DEF Ordered

\* What is known when nobody else confirms.
LEMMA AloneKnows ==
  ASSUME TypeInv, Ordered, NEW a \in Actors, Confirming(a)
  PROVE  /\ Phase(a) /\ OneOwner
         /\ Who(a) \in People /\ pc[a] \in Steps /\ tenant \in Rows
         /\ pc[a] \in Saga \cup {"undo"} => ~(slot # None /\ slot.stage = "done")
         /\ slot # None /\ slot.stage = "done" =>
               tenant.row /\ tenant.sub /\ schema /\ owners = {slot.who}
         /\ tenant.active /\ "undo" \notin cut /\ pc[a] # "undo" => Whole
         /\ tenant.row /\ cut = {} /\ pc[a] \notin Saga \cup {"undo"} => Whole
<1>1. \A b \in Actors \ {a} : ~Confirming(b)
  BY DEF Ordered, Solo
<1>2. \A b \in Actors \ {a} : ~Works(b) /\ pc[b] # "undo"
  BY <1>1 DEF Works, Confirming
<1>3. Works(a) <=> pc[a] \in Saga \cup {"undo"}
  BY DEF Works
<1>4. Who(a) \in People
  BY DEF TypeInv, Idle, Confirming, Saga
<1> QED BY <1>2, <1>3, <1>4 DEF Ordered, Completed, ActiveWhole, RowWhole, TypeInv, Shape

LEMMA ReservingOrdered ==
  ASSUME TypeInv, Ordered, NEW a \in Actors, Reserving(a)
  PROVE  Ordered'
<1>1. PICK s \in {"save", "mail", "release", "idle"} : Go(a, s) /\ (my' = my \/ Know(a, Nothing))
  BY DEF Reserving, Insert, Save, Mail, Release, Done
<1>2. s \in Steps \ (Saga \cup {"undo"} \cup After)
  BY DEF Steps, Saga, After
<1>3. pc \in [Actors -> Steps] /\ my \in [Actors -> Regs]
  BY DEF TypeInv, Shape
<1>4. \A b \in Actors \ {a} : my'[b] = my[b]
  BY <1>1, <1>3 DEF Know
<1>5. ~Confirming(a) /\ UNCHANGED <<tenant, schema, owners, cut>>
  BY DEF Reserving, Insert, Save, Mail, Release, Confirming, Saga
<1>6. slot' # None /\ slot'.stage = "done" =>
            slot # None /\ slot.stage = "done" /\ slot.who = slot'.who
  <2>1. slot = None \/ slot \in Slots
    BY DEF TypeInv, Shape
  <2>2. CASE Insert(a)
    BY <2>2 DEF Insert
  <2>3. CASE Save(a)
    BY <2>1, <2>3 DEF Save, Slots, Holds
  <2>4. CASE Mail(a) \/ Release(a)
    BY <2>4 DEF Mail, Release
  <2> QED BY <2>2, <2>3, <2>4 DEF Reserving
<1> QED BY <1>1, <1>2, <1>3, <1>4, <1>5, <1>6, AsideStep

LEMMA RequestOrdered ==
  ASSUME TypeInv, ~overlap => Ordered, NEW a \in Actors, Request(a), ~overlap'
  PROVE  Ordered'
<1>0. pc \in [Actors -> Steps] /\ my \in [Actors -> Regs]
  BY DEF TypeInv, Shape
<1>1. PICK p \in People : Signup(a, p) \/ Resend(a, p) \/ Confirm(a, p)
  BY DEF Request
<1>2. /\ pc[a] = "idle" /\ UNCHANGED <<slot, tenant, schema, owners, cut>>
      /\ my' = [my EXCEPT ![a] = my'[a]] /\ my'[a].who = p /\ Ordered
  <2>1. /\ pc[a] = "idle" /\ UNCHANGED <<slot, tenant, schema, owners, cut>> /\ ~overlap
        /\ \E op \in {"signup", "resend", "confirm"} : Know(a, [Nothing EXCEPT !.who = p, !.op = op])
    <3>1. CASE Signup(a, p)
      BY <3>1 DEF Signup, Ask
    <3>2. CASE Resend(a, p)
      BY <3>2 DEF Resend, Ask
    <3>3. CASE Confirm(a, p)
      BY <3>3 DEF Confirm, Ask
    <3> QED BY <1>1, <3>1, <3>2, <3>3
  <2> QED BY <1>0, <2>1 DEF Know, Nothing
<1>3. ~Confirming(a)
  BY <1>2 DEF Confirming, Saga
<1>4. (\E s \in Steps \ (Saga \cup {"undo"} \cup After) : Go(a, s)) => Ordered'
  BY <1>0, <1>2, <1>3, AsideStep
<1>5. CASE Signup(a, p) \/ Resend(a, p)
  <2>1. \E s \in {"save", "insert", "release"} : Go(a, s)
    BY <1>5 DEF Signup, Resend, Ask
  <2> QED BY <1>4, <2>1 DEF Steps, Saga, After
<1>6. CASE Confirm(a, p)
  <2> DEFINE expired == slot.stage = "pending" /\ slot.stale
  <2>1. CASE expired
    <3>1. Go(a, "release")
      BY <1>6, <2>1 DEF Confirm, Ask
    <3> QED BY <1>4, <3>1 DEF Steps, Saga, After
  <2>2. CASE ~expired
    <3>1. PICK s \in {"load", "look"} : Go(a, s) /\ (s = "load" <=> tenant.row)
      <4>1. CASE tenant.row
        BY <1>6, <2>2, <4>1 DEF Confirm, Ask
      <4>2. CASE ~tenant.row
        BY <1>6, <2>2, <4>2 DEF Confirm, Ask
      <4> QED BY <4>1, <4>2
    <3>2. \A b \in Actors : ~Confirming(b)
      BY <1>6, <2>2 DEF Confirm
    <3>3. /\ pc'[a] = s /\ \A b \in Actors \ {a} : pc'[b] = pc[b]
          /\ \A b \in Actors : Confirming(b)' <=> b = a
      BY <1>0, <3>1, <3>2 DEF Go, Confirming, Saga
    <3>4. Solo' /\ OneOwner'
      BY <1>2, <3>3 DEF Ordered, Solo, OneOwner
    <3>5. Phase(a)'
      <4>1. ~tenant.row => ~tenant.active
        BY DEF TypeInv, NoTenant
      <4> QED BY <1>2, <3>1, <3>3, <4>1 DEF Phase, Saga, Early, Owned
    <3>6. ASSUME NEW b \in Actors \ {a}
          PROVE  Phase(b)'
      <4>1. pc'[b] \notin Saga \cup {"undo", "load", "hooks", "complete"}
        BY <3>3 DEF Confirming
      <4> QED BY <4>1 DEF Phase, Early, Owned, Saga
    <3>7. Completed' /\ ActiveWhole' /\ RowWhole'
      <4>1. \A b \in Actors : ~Works(b) /\ pc[b] # "undo" /\ pc'[b] # "undo" /\ (Works(b)' => s = "look")
        BY <3>1, <3>2, <3>3 DEF Works, Confirming, Saga
      <4>2. tenant.row => s = "load"
        BY <3>1
      <4>3. Completed'
        BY <1>2, <4>1, <4>2 DEF Ordered, Completed
      <4>4. ActiveWhole'
        BY <1>2, <4>1, <4>2 DEF Ordered, ActiveWhole, Whole
      <4>5. RowWhole'
        BY <1>2, <4>1, <4>2 DEF Ordered, RowWhole, Whole
      <4> QED BY <4>3, <4>4, <4>5
    <3> QED BY <3>4, <3>5, <3>6, <3>7 DEF Ordered
  <2> QED BY <2>1, <2>2
<1> QED BY <1>1, <1>5, <1>6

\* A fault in the saga, or a step of it that raises, hands over to _compensate.
LEMMA RaiseStep ==
  ASSUME TypeInv, Ordered, NEW a \in Actors, pc[a] \in Saga, Go(a, "undo"), my' = my,
         UNCHANGED <<slot, tenant, cut>>, OneOwner',
         tenant.active => UNCHANGED <<schema, owners>>
  PROVE  Ordered'
<1>1. Confirming(a) /\ pc \in [Actors -> Steps] /\ my \in [Actors -> Regs] /\ "undo" \in Steps
  BY DEF Confirming, TypeInv, Shape, Steps
<1>2. Phase(a) /\ ~(slot # None /\ slot.stage = "done")
  BY <1>1, AloneKnows
<1>3. Phase(a)'
  <2>1. pc'[a] = "undo"
    BY <1>1 DEF Go
  <2>2. tenant.row => "tenant" \in my[a].plan
    BY <1>2 DEF Phase, Early
  <2> QED BY <2>1, <2>2 DEF Phase, Saga, Early, Owned
<1> QED BY <1>1, <1>2, <1>3, AloneStep

LEMMA MakingOrdered ==
  ASSUME TypeInv, Ordered, NEW a \in Actors,
         Look(a) \/ MakeSchema(a) \/ FindTenant(a) \/ CreateTenant(a) \/ FindOwner(a) \/ CreateOwner(a)
  PROVE  Ordered'
<1>1. /\ pc[a] \in Early \cup {"owner", "own"} /\ Early \cup {"owner", "own"} \subseteq Saga /\ Confirming(a)
      /\ pc \in [Actors -> Steps] /\ my \in [Actors -> Regs] /\ tenant \in Rows /\ schema \in BOOLEAN
      /\ owners \subseteq People
  BY DEF Look, MakeSchema, FindTenant, CreateTenant, FindOwner, CreateOwner, Early, Saga, Confirming, TypeInv, Shape
<1>2. /\ Phase(a) /\ OneOwner /\ Who(a) \in People /\ ~(slot # None /\ slot.stage = "done")
      /\ ~tenant.active
  <2>1. Phase(a) /\ OneOwner /\ Who(a) \in People /\ ~(slot # None /\ slot.stage = "done")
    BY <1>1, AloneKnows
  <2> QED BY <1>1, <2>1 DEF Phase, Early, Saga
<1>3. CASE Raise(a) /\ UNCHANGED <<slot, tenant, schema, owners, cut>>
  BY <1>1, <1>2, <1>3, RaiseStep DEF Raise, OneOwner
<1>4. ASSUME NEW s \in {"schema", "find", "create", "owner", "own", "actor"}, Go(a, s),
             UNCHANGED <<slot, cut>>, ~tenant'.active, OneOwner', Phase(a)'
      PROVE  Ordered'
  <2>1. s \in Steps /\ s \in Saga
    BY DEF Steps, Saga
  <2> QED BY <1>1, <1>2, <1>4, <2>1, AloneStep
<1>5. CASE Look(a)
  <2>1. Go(a, "schema") /\ pc'[a] = "schema" /\ UNCHANGED <<slot, tenant, schema, owners, cut>>
    BY <1>1, <1>5 DEF Look, Follows, Go
  <2>2. Phase(a)'
    BY <1>2, <1>5, <2>1 DEF Phase, Look, Early, Saga, Owned
  <2> QED BY <1>2, <1>4, <2>1, <2>2 DEF OneOwner
<1>6. CASE MakeSchema(a)
  <2>1. Go(a, "find") /\ pc'[a] = "find" /\ UNCHANGED <<slot, tenant, owners, cut>> /\ schema'
    BY <1>1, <1>6 DEF MakeSchema, AdvanceWith, Follows, Go
  <2>2. Phase(a)'
    BY <1>2, <1>6, <2>1 DEF Phase, MakeSchema, Early, Saga, Owned
  <2> QED BY <1>2, <1>4, <2>1, <2>2 DEF OneOwner
<1>7. CASE FindTenant(a)
  <2>1. Go(a, "create") /\ pc'[a] = "create" /\ UNCHANGED <<slot, tenant, schema, owners, cut>> /\ my' = my
    BY <1>1, <1>2, <1>7 DEF FindTenant, Go, Phase, Early
  <2>2. Phase(a)'
    BY <1>2, <1>7, <2>1 DEF Phase, FindTenant, Early, Saga, Owned
  <2> QED BY <1>2, <1>4, <2>1, <2>2 DEF OneOwner
<1>8. CASE CreateTenant(a)
  <2>1. /\ Go(a, "owner") /\ pc'[a] = "owner" /\ UNCHANGED <<slot, schema, owners, cut>>
        /\ tenant' = NewTenant /\ my'[a] = [my[a] EXCEPT !.plan = @ \cup {"tenant"}]
    BY <1>1, <1>2, <1>8 DEF CreateTenant, AdvanceWith, Know, Follows, Go, Phase, Early
  <2>2. tenant'.row /\ ~tenant'.active /\ "tenant" \in my'[a].plan
    BY <1>1, <2>1 DEF NewTenant, NoTenant, Regs
  <2>3. Phase(a)'
    BY <1>2, <1>8, <2>1, <2>2 DEF Phase, CreateTenant, Early, Saga, Owned
  <2> QED BY <1>2, <1>4, <2>1, <2>2, <2>3 DEF OneOwner
<1>9. CASE FindOwner(a)
  <2>1. CASE OwnerOf(Who(a))
    <3>1. Go(a, "actor") /\ pc'[a] = "actor" /\ UNCHANGED <<slot, tenant, schema, owners, cut>> /\ my' = my
      BY <1>1, <1>9, <2>1 DEF FindOwner, Advance, Follows, Go
    <3>2. owners = {Who(a)}
      BY <1>2, <2>1 DEF OwnerOf, OneOwner
    <3>3. Phase(a)'
      BY <1>2, <1>9, <3>1, <3>2 DEF Phase, FindOwner, Early, Saga, Owned, Who
    <3> QED BY <1>2, <1>4, <3>1, <3>3 DEF OneOwner
  <2>2. CASE ~OwnerOf(Who(a)) /\ schema /\ owners = {}
    <3>1. Go(a, "own") /\ pc'[a] = "own" /\ UNCHANGED <<slot, tenant, schema, owners, cut>> /\ my' = my
      BY <1>1, <1>9, <2>2 DEF FindOwner, Go
    <3>3. Phase(a)'
      BY <1>2, <1>9, <2>2, <3>1 DEF Phase, FindOwner, Early, Saga, Owned
    <3> QED BY <1>2, <1>4, <3>1, <3>3 DEF OneOwner
  <2>3. CASE ~OwnerOf(Who(a)) /\ ~(schema /\ owners = {})
    BY <1>3, <1>9, <2>3 DEF FindOwner
  <2> QED BY <2>1, <2>2, <2>3
<1>10. CASE CreateOwner(a)
  <2>1. CASE schema /\ Who(a) \notin owners
    <3>1. /\ Go(a, "actor") /\ pc'[a] = "actor" /\ UNCHANGED <<slot, tenant, schema, cut>> /\ my' = my
          /\ owners' = {Who(a)}
      BY <1>1, <1>2, <1>10, <2>1 DEF CreateOwner, Advance, Follows, Go, Phase
    <3>2. Phase(a)'
      BY <1>2, <1>10, <2>1, <3>1 DEF Phase, CreateOwner, Early, Saga, Owned, Who
    <3> QED BY <1>2, <1>4, <3>1, <3>2 DEF OneOwner
  <2>2. CASE ~(schema /\ Who(a) \notin owners)
    BY <1>3, <1>10, <2>2 DEF CreateOwner
  <2> QED BY <2>1, <2>2
<1> QED BY <1>5, <1>6, <1>7, <1>8, <1>9, <1>10

LEMMA FinishingOrdered ==
  ASSUME TypeInv, Ordered, NEW a \in Actors,
         SetActor(a) \/ MakeConfig(a) \/ MakeDomain(a) \/ Activate(a) \/ Validate(a)
  PROVE  Ordered'
<1>1. /\ pc[a] \in Owned \ {"hooks", "complete"} /\ Confirming(a) /\ pc[a] \in Saga \ Early
      /\ pc \in [Actors -> Steps] /\ my \in [Actors -> Regs] /\ tenant \in Rows /\ my[a] \in Regs
  BY DEF SetActor, MakeConfig, MakeDomain, Make, Activate, Validate, Owned, Early, Saga, Confirming, TypeInv, Shape
<1>2. /\ Phase(a) /\ OneOwner /\ Who(a) \in People /\ ~(slot # None /\ slot.stage = "done")
      /\ tenant.row /\ "tenant" \in my[a].plan /\ schema /\ owners = {Who(a)}
      /\ pc[a] # "validate" => ~tenant.active
  <2>1. Phase(a) /\ OneOwner /\ Who(a) \in People /\ ~(slot # None /\ slot.stage = "done")
    BY <1>1, AloneKnows
  <2> QED BY <1>1, <2>1 DEF Phase, Early, Saga, Owned
<1>3. ASSUME NEW s \in {"config", "domain", "activate", "validate"}, Go(a, s),
             UNCHANGED <<slot, cut, schema, owners>>, tenant'.row,
             my'[a].who = Who(a), "tenant" \in my'[a].plan,
             s \in {"domain", "activate", "validate"} => tenant'.config,
             s \in {"activate", "validate"} => tenant'.domain,
             tenant'.active <=> s = "validate"
      PROVE  Ordered'
  <2>1. s \in Steps /\ s \in Saga /\ pc'[a] = s
    BY <1>1, <1>3 DEF Steps, Saga, Go
  <2>2. Phase(a)'
    BY <1>2, <1>3, <2>1 DEF Phase, Early, Saga, Owned, Who
  <2>3. tenant'.active => Whole'
    BY <1>2, <1>3 DEF Whole
  <2>4. OneOwner'
    BY <1>2, <1>3 DEF OneOwner
  <2> QED BY <1>1, <1>2, <1>3, <2>1, <2>2, <2>3, <2>4, AloneStep
<1>4. CASE SetActor(a)
  <2>1. Go(a, "config") /\ UNCHANGED <<slot, cut, schema, owners>>
    BY <1>1, <1>4 DEF SetActor, Advance, Follows
  <2>2. tenant'.row /\ tenant'.active = tenant.active
    BY <1>1, <1>2, <1>4 DEF SetActor, Rows
  <2>3. my'[a].who = Who(a) /\ "tenant" \in my'[a].plan
    <3>1. CASE tenant.actor # Who(a)
      <4>1. my'[a] = [my[a] EXCEPT !.plan = @ \cup {"actor"}, !.actor = tenant.actor]
        BY <1>1, <1>2, <1>4, <3>1 DEF SetActor, Know
      <4> QED BY <1>1, <1>2, <4>1 DEF Regs, Who
    <3>2. CASE tenant.actor = Who(a)
      BY <1>2, <1>4, <3>2 DEF SetActor, Advance, Who
    <3> QED BY <3>1, <3>2
  <2> QED BY <1>2, <1>3, <1>4, <2>1, <2>2, <2>3 DEF SetActor
<1>5. CASE MakeConfig(a) \/ MakeDomain(a)
  <2>1. PICK f \in {"config", "domain"} : pc[a] = f /\ Make(a, f)
    BY <1>5 DEF MakeConfig, MakeDomain, Make
  <2>2. /\ Go(a, Follows(f)) /\ UNCHANGED <<slot, cut, schema, owners>>
        /\ tenant' = tenant \/ tenant' = [tenant EXCEPT ![f] = TRUE]
        /\ tenant'[f] /\ my'[a].who = Who(a) /\ "tenant" \in my'[a].plan
    <3>1. CASE tenant[f]
      BY <1>1, <1>2, <2>1, <3>1 DEF Make, Advance, Who
    <3>2. CASE ~tenant[f]
      <4>1. Go(a, Follows(f)) /\ tenant' = [tenant EXCEPT ![f] = TRUE]
            /\ my'[a] = [my[a] EXCEPT !.plan = @ \cup {f}] /\ UNCHANGED <<slot, cut, schema, owners>>
        BY <1>1, <1>2, <2>1, <3>2 DEF Make, AdvanceWith, Know
      <4>2. my'[a].who = Who(a) /\ "tenant" \in my'[a].plan
        BY <1>1, <1>2, <4>1 DEF Regs, Who
      <4>3. tenant'[f]
        BY <1>1, <4>1 DEF Rows
      <4> QED BY <4>1, <4>2, <4>3
    <3> QED BY <3>1, <3>2
  <2>3. tenant'.row /\ tenant'.active = tenant.active /\ (tenant.config => tenant'.config)
    BY <1>1, <1>2, <2>2 DEF Rows
  <2>4. CASE f = "config"
    <3>1. Go(a, "domain") /\ tenant'.config
      BY <2>2, <2>4 DEF Follows
    <3> QED BY <1>2, <1>3, <2>1, <2>2, <2>3, <2>4, <3>1
  <2>5. CASE f = "domain"
    <3>1. Go(a, "activate") /\ tenant'.domain /\ tenant'.config
      BY <1>2, <2>1, <2>2, <2>3, <2>5 DEF Follows, Phase
    <3> QED BY <1>2, <1>3, <2>1, <2>2, <2>3, <2>5, <3>1
  <2> QED BY <2>1, <2>4, <2>5
<1>6. CASE Activate(a)
  <2>1. /\ Go(a, "validate") /\ UNCHANGED <<slot, cut, schema, owners>> /\ my' = my
        /\ tenant' = [tenant EXCEPT !.active = TRUE]
    BY <1>2, <1>6 DEF Activate, Advance, Follows
  <2>2. tenant'.row /\ tenant'.active /\ tenant'.config /\ tenant'.domain
    BY <1>1, <1>2, <1>6, <2>1 DEF Activate, Rows, Phase
  <2> QED BY <1>2, <1>3, <2>1, <2>2 DEF Who
<1>7. CASE Validate(a)
  <2>1. Consistent(Who(a)) /\ Whole
    BY <1>2, <1>7 DEF Consistent, OwnerOf, Validate, Phase, Whole
  <2>2. /\ Go(a, "load") /\ pc'[a] = "load" /\ UNCHANGED <<slot, tenant, schema, owners, cut>>
    BY <1>1, <1>7, <2>1 DEF Validate, Go
  <2>3. Phase(a)'
    BY <1>2, <2>2 DEF Phase, Early, Saga, Owned
  <2>4. Whole' /\ OneOwner' /\ "load" \in Steps
    BY <1>2, <2>1, <2>2 DEF Whole, OneOwner, Steps
  <2> QED BY <1>1, <1>2, <2>2, <2>3, <2>4, AloneStep
<1> QED BY <1>4, <1>5, <1>6, <1>7

\* As long as the plan holds a step, one of them is the next to take back.
LEMMA SomethingToUndo ==
  ASSUME NEW plan, "tenant" \in plan
  PROVE  \E x \in plan : ToUndo(plan, x)
<1>1. /\ DOMAIN UndoOrder = 1 .. 5 /\ UndoOrder[1] = "domain" /\ UndoOrder[2] = "config"
      /\ UndoOrder[3] = "actor" /\ UndoOrder[4] = "tenant"
  BY DEF UndoOrder
<1>2. CASE "domain" \in plan
  BY <1>1, <1>2 DEF ToUndo
<1>3. CASE "domain" \notin plan /\ "config" \in plan
  BY <1>1, <1>3 DEF ToUndo
<1>4. CASE "domain" \notin plan /\ "config" \notin plan /\ "actor" \in plan
  BY <1>1, <1>4 DEF ToUndo
<1>5. CASE "domain" \notin plan /\ "config" \notin plan /\ "actor" \notin plan
  BY <1>1, <1>5 DEF ToUndo
<1> QED BY <1>2, <1>3, <1>4, <1>5

LEMMA UndoOrdered ==
  ASSUME TypeInv, Ordered, Left, NEW a \in Actors, Undo(a)
  PROVE  Ordered'
<1>1. /\ pc[a] = "undo" /\ Confirming(a) /\ UNCHANGED <<slot, cut>>
      /\ pc \in [Actors -> Steps] /\ my \in [Actors -> Regs] /\ tenant \in Rows /\ my[a] \in Regs
  BY DEF Undo, Confirming, TypeInv, Shape
<1>2. /\ Phase(a) /\ OneOwner /\ ~(slot # None /\ slot.stage = "done")
      /\ tenant.row => "tenant" \in my[a].plan \/ "create" \in cut
  <2>1. Phase(a) /\ OneOwner /\ ~(slot # None /\ slot.stage = "done")
    BY <1>1, AloneKnows
  <2> QED BY <1>1, <2>1 DEF Phase
<1>3. CASE ~\E x \in my[a].plan : ToUndo(my[a].plan, x)
  <2>1. /\ Go(a, "idle") /\ pc'[a] = "idle" /\ UNCHANGED <<tenant, schema, owners>>
    BY <1>1, <1>3 DEF Undo, Done, Go
  <2>2. ~tenant.active /\ (tenant.row => cut # {})
    <3>1. tenant.row => "create" \in cut
      BY <1>2, <1>3, SomethingToUndo
    <3>2. ~tenant.row => ~tenant.active
      BY DEF TypeInv, NoTenant
    <3> QED BY <3>1, <3>2 DEF Left, Bare
  <2>3. Phase(a)' /\ OneOwner' /\ "idle" \in Steps
    BY <1>2, <2>1 DEF Phase, Early, Saga, Owned, OneOwner, Steps
  <2> QED BY <1>1, <1>2, <2>1, <2>2, <2>3, AloneStep
<1>4. ASSUME NEW x \in my[a].plan, UndoOne(a, x)
      PROVE  Ordered'
  <2>1. /\ pc' = pc /\ my'[a] = [my[a] EXCEPT !.plan = @ \ {x}] /\ owners' \subseteq owners
    BY <1>1, <1>4 DEF UndoOne, Know
  <2>2. my'[a].plan = my[a].plan \ {x}
    BY <1>1, <2>1 DEF Regs
  <2>3. tenant'.row => tenant.row /\ x # "tenant"
    <3>1. CASE x = "tenant"
      <4>1. tenant' = NoTenant
        BY <1>4, <3>1 DEF UndoOne
      <4> QED BY <4>1 DEF NoTenant
    <3>2. CASE x \in {"domain", "config"}
      BY <1>1, <1>4, <3>2 DEF UndoOne, Rows
    <3>3. CASE x = "actor"
      BY <1>1, <1>4, <3>3 DEF UndoOne, Rows
    <3>4. CASE x = "schema"
      BY <1>1, <1>4, <3>4 DEF UndoOne
    <3> QED BY <1>1, <3>1, <3>2, <3>3, <3>4 DEF Regs
  <2>4. Phase(a)'
    BY <1>1, <1>2, <2>1, <2>2, <2>3 DEF Phase, Early, Saga, Owned
  <2>5. OneOwner' /\ "undo" \in Steps /\ Go(a, "undo")
    BY <1>1, <1>2, <2>1 DEF OneOwner, Steps, Go
  <2> QED BY <1>1, <1>2, <2>4, <2>5, AloneStep
<1> QED BY <1>3, <1>4 DEF Undo

LEMMA AfterOrdered ==
  ASSUME TypeInv, Ordered, NEW a \in Actors, LoadOwner(a) \/ Hooks(a) \/ Complete(a)
  PROVE  Ordered'
<1>1. /\ pc[a] \in After /\ Confirming(a) /\ pc[a] \notin Saga \cup {"undo"}
      /\ pc \in [Actors -> Steps] /\ my \in [Actors -> Regs] /\ tenant \in Rows
      /\ slot = None \/ slot \in Slots
  BY DEF LoadOwner, Hooks, Complete, After, Confirming, Saga, TypeInv, Shape
<1>2. /\ Phase(a) /\ OneOwner /\ tenant.row
      /\ slot # None /\ slot.stage = "done" =>
               tenant.row /\ tenant.sub /\ schema /\ owners = {slot.who}
      /\ tenant.active /\ "undo" \notin cut /\ pc[a] # "undo" => Whole
      /\ tenant.row /\ cut = {} /\ pc[a] \notin Saga \cup {"undo"} => Whole
  <2>1. Phase(a)
    BY <1>1, AloneKnows
  <2> QED BY <1>1, <2>1, AloneKnows DEF Phase, After
<1>3. PICK s \in {"hooks", "complete", "idle"} : Go(a, s) /\ pc'[a] = s /\ (s # "idle" => my' = my)
  BY <1>1 DEF LoadOwner, Hooks, Complete, Done, Go
<1>4. UNCHANGED <<schema, owners, cut>> /\ s \in Steps /\ s \notin Saga \cup {"undo"}
  BY DEF LoadOwner, Hooks, Complete, Steps, Saga
<1>5. tenant' = tenant \/ tenant' = [tenant EXCEPT !.sub = tenant.row]
  BY DEF LoadOwner, Hooks, Complete
<1>6. /\ tenant'.row /\ tenant'.active = tenant.active /\ tenant'.config = tenant.config
      /\ tenant'.domain = tenant.domain /\ (tenant.sub => tenant'.sub)
  BY <1>1, <1>2, <1>5 DEF Rows
<1>7. Whole => Whole'
  BY <1>4, <1>6 DEF Whole
<1>8. OneOwner'
  BY <1>2, <1>4 DEF OneOwner
<1>9. Phase(a)'
  <2>1. CASE s = "idle"
    BY <1>3, <2>1 DEF Phase, Early, Saga, Owned
  <2>2. CASE s = "hooks"
    <3>1. pc[a] = "load" /\ OwnerOf(Who(a))
      BY <1>1, <1>3, <2>2 DEF LoadOwner, Hooks, Complete, Done, Go
    <3>2. owners' = {Who(a)} /\ schema'
      BY <1>2, <1>4, <3>1 DEF OwnerOf, OneOwner
    <3> QED BY <1>3, <1>6, <2>2, <3>2 DEF Phase, Early, Saga, Owned, Who
  <2>3. CASE s = "complete"
    <3>1. pc[a] = "hooks" /\ tenant' = [tenant EXCEPT !.sub = tenant.row]
      BY <1>1, <1>3, <2>3 DEF LoadOwner, Hooks, Complete, Done, Go
    <3>2. tenant'.sub /\ owners = {Who(a)} /\ schema
      BY <1>1, <1>2, <3>1 DEF Rows, Phase, Owned
    <3> QED BY <1>3, <1>4, <1>6, <2>3, <3>2 DEF Phase, Early, Saga, Owned, Who
  <2> QED BY <2>1, <2>2, <2>3
<1>10. slot' # None /\ slot'.stage = "done" =>
            tenant'.row /\ tenant'.sub /\ schema' /\ owners' = {slot'.who}
  <2>1. CASE LoadOwner(a) \/ Hooks(a)
    <3>1. slot' = slot
      BY <2>1 DEF LoadOwner, Hooks
    <3> QED BY <1>2, <1>4, <1>6, <3>1
  <2>2. CASE Complete(a)
    <3>1. owners = {Who(a)} /\ schema /\ tenant.sub /\ tenant' = tenant
      BY <1>2, <2>2 DEF Complete, Phase, Owned
    <3>2. slot' = slot \/ (slot' \in Slots /\ slot'.who = Who(a))
      BY <1>1, <2>2 DEF Complete, Holds, Slots
    <3> QED BY <1>2, <1>4, <3>1, <3>2
  <2> QED BY <2>1, <2>2
<1> QED BY <1>1, <1>2, <1>3, <1>4, <1>6, <1>7, <1>8, <1>9, <1>10, AloneStep

\* A confirmation that ends where it is leaves what it had made.
LEMMA EndStep ==
  ASSUME TypeInv, Ordered, NEW a \in Actors, Confirming(a), Done(a), UNCHANGED <<slot, tenant, schema, owners>>,
         cut \subseteq cut', pc[a] = "undo" => "undo" \in cut', pc[a] \in Saga => cut' # {}
  PROVE  Ordered'
<1>1. pc \in [Actors -> Steps] /\ my \in [Actors -> Regs] /\ "idle" \in Steps \ Saga /\ Go(a, "idle") /\ pc'[a] = "idle"
  BY DEF TypeInv, Shape, Steps, Saga, Done, Go
<1>2. Phase(a)' /\ OneOwner'
  BY <1>1, AloneKnows DEF Phase, Early, Saga, Owned, OneOwner
<1>3. slot' # None /\ slot'.stage = "done" =>
            tenant'.row /\ tenant'.sub /\ schema' /\ owners' = {slot'.who}
  BY AloneKnows
<1>4. tenant'.active /\ "undo" \notin cut' => Whole'
  <2>1. tenant.active /\ "undo" \notin cut /\ pc[a] # "undo" => Whole
    BY AloneKnows
  <2> QED BY <2>1 DEF Whole
<1>5. tenant'.row /\ cut' = {} => Whole'
  <2>1. tenant.row /\ cut = {} /\ pc[a] \notin Saga \cup {"undo"} => Whole
    BY AloneKnows
  <2> QED BY <2>1 DEF Whole
<1> QED BY <1>1, <1>2, <1>3, <1>4, <1>5, AloneStep

LEMMA FaultOrdered ==
  ASSUME TypeInv, Ordered, NEW a \in Actors, Fault(a) \/ Crash(a) \/ UndoFails(a)
  PROVE  Ordered'
<1>1. CASE Fault(a) /\ pc[a] \in Saga
  <2>1. /\ Go(a, "undo") /\ UNCHANGED slot /\ (Unwritten \/ Written(a)) /\ Confirming(a)
        /\ Phase(a) /\ OneOwner /\ ~(slot # None /\ slot.stage = "done")
    <3>1. Confirming(a)
      BY <1>1 DEF Confirming
    <3>2. Go(a, "undo") /\ UNCHANGED slot /\ (Unwritten \/ Written(a))
      BY <1>1 DEF Fault, Saga
    <3> QED BY <1>1, <3>1, <3>2, AloneKnows
  <2>2. CASE Unwritten
    BY <1>1, <2>1, <2>2, RaiseStep DEF Unwritten, OneOwner
  <2>3. CASE Written(a)
    <3>1. /\ pc \in [Actors -> Steps] /\ my \in [Actors -> Regs] /\ my[a] \in Regs /\ tenant \in Rows
          /\ "undo" \in Steps
      BY DEF TypeInv, Shape, Steps
    <3>2. pc'[a] = "undo"
      BY <2>1, <3>1 DEF Go
    <3>3. OneOwner'
      BY <2>1, <2>3 DEF Written, OneOwner, Phase
    <3>4. my[a].plan \subseteq my'[a].plan
      BY <2>3, <3>1 DEF Written, Know, Regs
    <3>5. tenant.row => "tenant" \in my[a].plan
      BY <1>1, <2>1 DEF Phase
    <3>6. tenant'.row => tenant.row \/ "create" \in cut'
      BY <2>3, <3>1 DEF Written, Rows
    <3>7. Phase(a)'
      BY <3>2, <3>4, <3>5, <3>6 DEF Phase, Early, Saga, Owned
    <3> QED BY <2>1, <3>1, <3>3, <3>7, AloneStep
  <2> QED BY <2>1, <2>2, <2>3
<1>2. CASE Fault(a) /\ pc[a] \notin Saga
  <2>1. /\ Done(a) /\ UNCHANGED <<slot, tenant, cut, owners, schema>> /\ pc[a] \in After
    BY <1>2 DEF Fault, After
  <2> QED BY <1>2, <2>1, EndStep DEF Confirming, After
<1>3. CASE Crash(a) /\ Confirming(a)
  BY <1>3, EndStep DEF Crash, Saga
<1>4. CASE Crash(a) /\ ~Confirming(a)
  <2>1. /\ Go(a, "idle") /\ Know(a, Nothing) /\ UNCHANGED <<slot, tenant, owners, schema, cut>>
        /\ "idle" \in Steps \ (Saga \cup {"undo"} \cup After)
        /\ pc \in [Actors -> Steps] /\ my \in [Actors -> Regs]
    BY <1>4 DEF Crash, Done, Confirming, TypeInv, Shape, Steps, Saga, After
  <2>2. \A b \in Actors \ {a} : my'[b] = my[b]
    BY <2>1 DEF Know
  <2> QED BY <1>4, <2>1, <2>2, AsideStep
<1>5. CASE UndoFails(a)
  BY <1>5, EndStep DEF UndoFails, Confirming, Saga
<1> QED BY <1>1, <1>2, <1>3, <1>4, <1>5

LEMMA ExpiryOrdered ==
  ASSUME TypeInv, Ordered, Expire \/ Cleanup
  PROVE  Ordered'
<1>1. UNCHANGED <<tenant, schema, owners, pc, my, cut>>
  BY DEF Expire, Cleanup
<1>2. slot' # None => slot'.stage # "done"
  BY DEF Expire, Cleanup, TypeInv, Shape, Slots
<1>3. Completed'
  BY <1>2 DEF Completed
<1>4. \A a \in Actors : (Confirming(a)' <=> Confirming(a)) /\ (Works(a)' <=> Works(a)) /\ (Phase(a) => Phase(a)')
  BY <1>1 DEF Confirming, Works, Phase, Who
<1>5. Solo' /\ OneOwner' /\ ActiveWhole' /\ RowWhole'
  BY <1>1, <1>4 DEF Ordered, Solo, OneOwner, ActiveWhole, RowWhole, Whole
<1> QED BY <1>3, <1>4, <1>5 DEF Ordered

LEMMA OrderedStep ==
  ASSUME TypeInv, ~overlap => Ordered /\ Left, [Next]_vars, ~overlap'
  PROVE  Ordered'
<1>1. ASSUME NEW a \in Actors, Request(a)
      PROVE  Ordered'
  BY <1>1, RequestOrdered
<1>2. ASSUME NEW a \in Actors, Step(a) \/ Fault(a) \/ Crash(a) \/ UndoFails(a)
      PROVE  Ordered'
  <2>1. overlap' = overlap
    BY <1>2 DEF Step, Reserving, Insert, Save, Mail, Release, Provision, Look, MakeSchema, FindTenant,
                CreateTenant, FindOwner, CreateOwner, SetActor, MakeConfig, MakeDomain, Make, Activate,
                Validate, Undo, LoadOwner, Hooks, Complete, Fault, Crash, UndoFails
  <2>2. Ordered /\ Left
    BY <2>1
  <2>3. CASE Provision(a)
    BY <2>2, <2>3, MakingOrdered, FinishingOrdered DEF Provision
  <2> QED BY <1>2, <2>2, <2>3, ReservingOrdered, UndoOrdered, AfterOrdered, FaultOrdered DEF Step
<1>3. CASE Expire \/ Cleanup
  <2>1. Ordered
    BY <1>3 DEF Expire, Cleanup
  <2> QED BY <1>3, <2>1, ExpiryOrdered
<1>4. CASE UNCHANGED vars
  <2>1. UNCHANGED <<slot, tenant, schema, owners, pc, my, cut, overlap>>
    BY <1>4 DEF vars
  <2>2. \A a \in Actors : (Confirming(a)' <=> Confirming(a)) /\ (Works(a)' <=> Works(a)) /\ (Phase(a) => Phase(a)')
    BY <2>1 DEF Confirming, Works, Phase, Who
  <2> QED BY <2>1, <2>2 DEF Ordered, Solo, OneOwner, Completed, ActiveWhole, RowWhole, Whole
<1> QED BY <1>1, <1>2, <1>3, <1>4 DEF Next

\* One request moves: what it keeps of Left.
LEMMA LeftMove ==
  ASSUME Left, NEW a \in Actors,
         \A b \in Actors \ {a} : pc'[b] = pc[b] /\ my'[b] = my[b],
         pc'[a] \in Early => "tenant" \notin my'[a].plan,
         "create" \in cut' =>
            /\ Bare' /\ pc'[a] \notin Saga /\ (pc'[a] = "undo" => "tenant" \notin my'[a].plan)
            /\ "create" \in cut \/ \A b \in Actors \ {a} : ~Confirming(b)
  PROVE  Left'
<1>1. ASSUME NEW b \in Actors, pc'[b] \in Early
      PROVE  "tenant" \notin my'[b].plan
  BY <1>1 DEF Left
<1>2. ASSUME "create" \in cut', NEW b \in Actors
      PROVE  pc'[b] \notin Saga /\ (pc'[b] = "undo" => "tenant" \notin my'[b].plan)
  BY <1>2 DEF Left, Confirming
<1> QED BY <1>1, <1>2 DEF Left

\* A request that is not one of the saga's steps afterwards.
LEMMA LeftAside ==
  ASSUME TypeInv, Left, NEW a \in Actors, NEW s \in Steps \ (Saga \cup {"undo"}), Go(a, s),
         \A b \in Actors \ {a} : my'[b] = my[b],
         "create" \in cut' => "create" \in cut, Bare => Bare'
  PROVE  Left'
<1>1. pc'[a] = s /\ \A b \in Actors \ {a} : pc'[b] = pc[b]
  BY DEF Go, TypeInv, Shape
<1>2. s \notin Early
  BY DEF Early, Saga
<1>3. "create" \in cut' => Bare'
  BY DEF Left
<1> QED BY <1>1, <1>2, <1>3, LeftMove

LEMMA LeftRequest ==
  ASSUME TypeInv, Left, NEW a \in Actors, Request(a)
  PROVE  Left'
<1>1. PICK p \in People : Signup(a, p) \/ Resend(a, p) \/ Confirm(a, p)
  BY DEF Request
<1>2. PICK s \in {"save", "insert", "release", "load", "look"}, op \in {"signup", "resend", "confirm"} :
        Ask(a, p, op, s) /\ (s = "look" => ~tenant.row)
  <2>1. CASE Signup(a, p) \/ Resend(a, p)
    BY <2>1 DEF Signup, Resend
  <2>2. CASE Confirm(a, p)
    <3> DEFINE expired == slot.stage = "pending" /\ slot.stale
    <3>1. CASE expired
      BY <2>2, <3>1 DEF Confirm
    <3>2. CASE ~expired /\ tenant.row
      BY <2>2, <3>2 DEF Confirm
    <3>3. CASE ~expired /\ ~tenant.row
      BY <2>2, <3>3 DEF Confirm
    <3> QED BY <3>1, <3>2, <3>3
  <2> QED BY <1>1, <2>1, <2>2
<1>3. /\ Go(a, s) /\ Know(a, [Nothing EXCEPT !.who = p, !.op = op]) /\ UNCHANGED <<tenant, cut>>
      /\ pc'[a] = s /\ my'[a].plan = {}
      /\ \A b \in Actors \ {a} : pc'[b] = pc[b] /\ my'[b] = my[b]
  BY <1>2 DEF Ask, Go, Know, TypeInv, Shape, Nothing
<1>4. CASE s = "look"
  <2>1. "create" \notin cut'
    BY <1>2, <1>3, <1>4 DEF Left, Bare
  <2> QED BY <1>3, <2>1, LeftMove
<1>5. CASE s # "look"
  <2>1. s \in Steps \ (Saga \cup {"undo"})
    BY <1>5 DEF Steps, Saga
  <2> QED BY <1>3, <2>1, LeftAside DEF Bare
<1> QED BY <1>4, <1>5

LEMMA LeftProvision ==
  ASSUME TypeInv, Left, NEW a \in Actors, Provision(a)
  PROVE  Left'
<1>1. pc[a] \in Saga /\ UNCHANGED cut
  BY DEF Provision, Look, MakeSchema, FindTenant, CreateTenant, FindOwner, CreateOwner, SetActor,
         MakeConfig, MakeDomain, Make, Activate, Validate, Saga
<1>2. "create" \notin cut'
  BY <1>1 DEF Left
<1>3. \A b \in Actors \ {a} : pc'[b] = pc[b] /\ my'[b] = my[b]
  BY DEF Provision, Look, MakeSchema, FindTenant, CreateTenant, FindOwner, CreateOwner, SetActor,
         MakeConfig, MakeDomain, Make, Activate, Validate, Advance, AdvanceWith, Raise, Go, Know,
         TypeInv, Shape
<1>4. my[a] \in Regs /\ pc \in [Actors -> Steps] /\ my \in [Actors -> Regs]
  BY DEF TypeInv, Shape
<1>5. pc'[a] \in Early => "tenant" \notin my'[a].plan
  <2>1. CASE Look(a)
    <3>1. pc[a] \in Early /\ my'[a] = [my[a] EXCEPT !.fresh = ~schema]
      BY <1>4, <2>1 DEF Look, Know, Early
    <3> QED BY <1>4, <3>1 DEF Left, Regs
  <2>2. CASE MakeSchema(a)
    <3>1. pc[a] \in Early /\ my'[a] = [my[a] EXCEPT !.plan = @ \cup (IF my[a].fresh THEN {"schema"} ELSE {})]
      BY <1>4, <2>2 DEF MakeSchema, AdvanceWith, Know, Early
    <3> QED BY <1>4, <3>1 DEF Left, Regs
  <2>3. CASE FindTenant(a)
    <3>1. pc[a] \in Early /\ my' = my
      BY <2>3 DEF FindTenant, Advance, Early
    <3> QED BY <3>1 DEF Left
  <2>4. CASE CreateTenant(a) \/ FindOwner(a) \/ CreateOwner(a) \/ SetActor(a)
    <3>1. pc'[a] \in {"owner", "own", "actor", "config", "undo"}
      BY <1>4, <2>4 DEF CreateTenant, FindOwner, CreateOwner, SetActor, Advance, AdvanceWith, Raise, Go, Follows
    <3> QED BY <3>1 DEF Early
  <2>5. CASE MakeConfig(a) \/ MakeDomain(a) \/ Activate(a) \/ Validate(a)
    <3>1. pc'[a] \in {"domain", "activate", "validate", "load", "undo"}
      BY <1>4, <2>5 DEF MakeConfig, MakeDomain, Make, Activate, Validate, Advance, AdvanceWith, Raise, Go, Follows
    <3> QED BY <3>1 DEF Early
  <2> QED BY <2>1, <2>2, <2>3, <2>4, <2>5 DEF Provision
<1> QED BY <1>2, <1>3, <1>5, LeftMove

LEMMA LeftUndo ==
  ASSUME TypeInv, Left, NEW a \in Actors, Undo(a)
  PROVE  Left'
<1>1. /\ pc[a] = "undo" /\ UNCHANGED cut /\ my[a] \in Regs /\ tenant \in Rows
      /\ pc \in [Actors -> Steps] /\ my \in [Actors -> Regs]
  BY DEF Undo, TypeInv, Shape
<1>2. CASE Done(a) /\ UNCHANGED tenant
  <2>1. "idle" \in Steps \ (Saga \cup {"undo"})
    BY DEF Steps, Saga
  <2> QED BY <1>1, <1>2, <2>1, LeftAside DEF Done, Know, Bare
<1>3. ASSUME NEW x \in my[a].plan, UndoOne(a, x)
      PROVE  Left'
  <2>1. pc' = pc /\ my' = [my EXCEPT ![a] = [my[a] EXCEPT !.plan = @ \ {x}]]
    BY <1>1, <1>3 DEF UndoOne, Know
  <2>2. my'[a].plan = my[a].plan \ {x}
    BY <1>1, <2>1 DEF Regs
  <2>3. ASSUME "create" \in cut
        PROVE  Bare' /\ "tenant" \notin my'[a].plan
    <3>1. Bare /\ x # "tenant" /\ "tenant" \notin my[a].plan
      BY <1>1, <2>3 DEF Left
    <3>2. Bare'
      BY <1>1, <1>3, <3>1 DEF UndoOne, Bare, Rows
    <3> QED BY <2>2, <3>1, <3>2
  <2>4. pc'[a] = "undo" /\ "undo" \notin Saga /\ "undo" \notin Early
    BY <1>1, <2>1 DEF Saga, Early
  <2> QED BY <1>1, <2>1, <2>3, <2>4, LeftMove
<1> QED BY <1>2, <1>3 DEF Undo

LEMMA LeftFault ==
  ASSUME TypeInv, Ordered, Left, NEW a \in Actors, Fault(a) \/ Crash(a) \/ UndoFails(a)
  PROVE  Left'
<1>1. "idle" \in Steps \ (Saga \cup {"undo"}) /\ my \in [Actors -> Regs] /\ pc \in [Actors -> Steps]
  BY DEF Steps, Saga, TypeInv, Shape
<1>2. CASE Done(a) /\ UNCHANGED tenant /\ ("create" \in cut' => "create" \in cut)
  BY <1>1, <1>2, LeftAside DEF Done, Know, Bare
<1>3. CASE Fault(a) /\ pc[a] \in Saga
  <2>1. Go(a, "undo") /\ (Unwritten \/ Written(a)) /\ "create" \notin cut
    BY <1>3 DEF Fault, Left, Saga
  <2>2. /\ pc'[a] = "undo" /\ "undo" \notin Saga /\ "undo" \notin Early
        /\ \A b \in Actors \ {a} : pc'[b] = pc[b] /\ my'[b] = my[b] /\ ~Confirming(b)
    <3>1. \A b \in Actors \ {a} : ~Confirming(b)
      BY <1>3 DEF Ordered, Solo, Confirming
    <3>2. \A b \in Actors \ {a} : my'[b] = my[b]
      BY <1>1, <2>1 DEF Unwritten, Written, Know
    <3> QED BY <1>1, <2>1, <3>1, <3>2 DEF Go, Saga, Early
  <2>3. ASSUME "create" \in cut'
        PROVE  Bare' /\ "tenant" \notin my'[a].plan
    <3>1. Written(a) /\ pc[a] = "create" /\ ~tenant.row
      BY <2>1, <2>3 DEF Unwritten, Written
    <3>2. tenant' = NewTenant /\ my'[a] = my[a]
      BY <1>1, <3>1 DEF Written, Know
    <3>3. "tenant" \notin my[a].plan
      BY <3>1 DEF Left, Early
    <3> QED BY <3>2, <3>3 DEF Bare, NewTenant, NoTenant
  <2> QED BY <2>2, <2>3, LeftMove
<1>4. CASE Fault(a) /\ pc[a] \notin Saga
  BY <1>2, <1>4 DEF Fault
<1>5. CASE Crash(a) \/ UndoFails(a)
  BY <1>2, <1>5 DEF Crash, UndoFails
<1> QED BY <1>3, <1>4, <1>5

LEMMA LeftStep ==
  ASSUME TypeInv, ~overlap => Ordered /\ Left, [Next]_vars, ~overlap'
  PROVE  Left'
<1>0. Ordered /\ Left
  <2>1. overlap => overlap'
    BY DEF Next, Request, Signup, Resend, Confirm, Step, Reserving, Insert, Save, Mail, Release,
           Provision, Look, MakeSchema, FindTenant, CreateTenant, FindOwner, CreateOwner, SetActor,
           MakeConfig, MakeDomain, Make, Activate, Validate, Undo, LoadOwner, Hooks, Complete, Fault,
           Crash, UndoFails, Expire, Cleanup, vars
  <2> QED BY <2>1
<1>1. ASSUME NEW a \in Actors, Reserving(a)
      PROVE  Left'
  <2>1. PICK s \in {"save", "mail", "release", "idle"} : Go(a, s) /\ (my' = my \/ Know(a, Nothing))
    BY <1>1 DEF Reserving, Insert, Save, Mail, Release, Done
  <2>2. s \in Steps \ (Saga \cup {"undo"}) /\ \A b \in Actors \ {a} : my'[b] = my[b]
    BY <2>1 DEF Steps, Saga, Know, TypeInv, Shape
  <2>3. UNCHANGED <<tenant, cut>>
    BY <1>1 DEF Reserving, Insert, Save, Mail, Release
  <2> QED BY <1>0, <2>1, <2>2, <2>3, LeftAside DEF Bare
<1>2. ASSUME NEW a \in Actors, LoadOwner(a) \/ Hooks(a) \/ Complete(a)
      PROVE  Left'
  <2>1. PICK s \in {"hooks", "complete", "idle"} : Go(a, s) /\ (my' = my \/ Know(a, Nothing))
    BY <1>2 DEF LoadOwner, Hooks, Complete, Done
  <2>2. s \in Steps \ (Saga \cup {"undo"}) /\ \A b \in Actors \ {a} : my'[b] = my[b]
    BY <2>1 DEF Steps, Saga, Know, TypeInv, Shape
  <2>3. UNCHANGED cut /\ (tenant' = tenant \/ tenant' = [tenant EXCEPT !.sub = tenant.row])
    BY <1>2 DEF LoadOwner, Hooks, Complete
  <2>4. Bare => Bare'
    BY <2>3 DEF Bare, TypeInv, Shape, Rows
  <2> QED BY <1>0, <2>1, <2>2, <2>3, <2>4, LeftAside
<1>3. ASSUME NEW a \in Actors, Request(a) \/ Step(a) \/ Fault(a) \/ Crash(a) \/ UndoFails(a)
      PROVE  Left'
  BY <1>0, <1>1, <1>2, <1>3, LeftRequest, LeftProvision, LeftUndo, LeftFault DEF Step
<1>4. CASE Expire \/ Cleanup \/ UNCHANGED vars
  <2>1. UNCHANGED <<tenant, pc, my, cut>>
    BY <1>4 DEF Expire, Cleanup, vars
  <2> QED BY <1>0, <2>1 DEF Left, Bare
<1> QED BY <1>3, <1>4 DEF Next

LEMMA InitInv == Init => Inv
<1> SUFFICES ASSUME Init PROVE Inv
  OBVIOUS
<1>1. \A a \in Actors : ~Confirming(a) /\ ~Works(a) /\ Phase(a)
  BY DEF Init, Confirming, Works, Phase, Saga, Early, Owned
<1>2. ~tenant.row /\ ~tenant.active
  BY DEF Init, NoTenant
<1>3. Ordered
  BY <1>1, <1>2 DEF Init, Ordered, Solo, OneOwner, Completed, ActiveWhole, RowWhole
<1>4. Left
  BY <1>1 DEF Init, Left, Early
<1> QED BY <1>3, <1>4, InitTyped DEF Inv

LEMMA InvStep == Inv /\ [Next]_vars => Inv'
BY TypeStep, OrderedStep, LeftStep DEF Inv

\* The invariant of every behaviour.
LEMMA Invariant == Spec => []Inv
BY InitInv, InvStep, PTL DEF Spec

-----------------------------------------------------------------------------
(* The theorems.                                                            *)

\* TypeOK in every reachable state: whatever two confirmations of one slug and
\* the compensation of one of them do to each other, configuration, domain and
\* subscription never outlive the tenant's row, nor the owners their schema.
THEOREM TypeCorrect == Spec => []TypeOK
<1>1. Inv => TypeOK
  <2> SUFFICES ASSUME Inv PROVE TypeOK
    OBVIOUS
  <2>1. \A a \in Actors : pc[a] \in Steps /\ (pc[a] = "idle" <=> my[a] = Nothing)
    <3> SUFFICES ASSUME NEW a \in Actors PROVE pc[a] \in Steps /\ (pc[a] = "idle" <=> my[a] = Nothing)
      OBVIOUS
    <3>1. pc[a] \in Steps /\ Idle(a)
      BY DEF Inv, TypeInv, Shape
    <3>2. my[a] = Nothing => Who(a) \notin People
      BY NothingTyped, ProvisioningAssumption DEF Who, ProvisioningAssumption
    <3> QED BY <3>1, <3>2 DEF Idle
  <2> QED BY <2>1 DEF Inv, TypeInv, Shape, TypeOK, Slots, Rows
<1> QED BY <1>1, Invariant, PTL

\* An active tenant has everything it needs, wherever attempts to provision it
\* failed or died: provision activates last, and compensation takes the
\* tenant's row with the rest.
THEOREM ActiveTenantIsWhole == Spec => []ActiveIsWhole
<1>1. Inv => ActiveIsWhole
  BY DEF Inv, Ordered, ActiveWhole, ActiveIsWhole
<1> QED BY <1>1, Invariant, PTL

\* A completed signup has one owner, the person whose signup it was: of the
\* e-mail that confirm_and_provision looks the owner up by.
THEOREM CompletedByItsOwner == Spec => []OwnOnly
<1>1. Inv => OwnOnly
  BY DEF Inv, Ordered, Completed, OwnOnly
<1> QED BY <1>1, Invariant, PTL

\* Whichever calls fail, before or after they committed, and however many
\* attempts are made one after another: when nothing is under way, _compensate
\* has left a whole tenant or none, except the row of a create that raised after
\* its commit, and that row has neither become active nor got anything else.
THEOREM AllOrNothing == Spec => []WholeOrNone
<1>1. Inv => WholeOrNone
  <2> SUFFICES ASSUME Inv, Quiet, ~overlap PROVE
        /\ cut = {} /\ tenant.row => Whole
        /\ cut = {} /\ slot # None /\ slot.stage = "done" => Whole /\ tenant.sub
        /\ cut = {"create"} => Bare
    BY DEF WholeOrNone
  <2>1. \A a \in Actors : ~Works(a)
    BY DEF Quiet, Works, Saga
  <2>2. cut = {} /\ tenant.row => Whole
    BY <2>1 DEF Inv, Ordered, RowWhole
  <2>3. cut = {} /\ slot # None /\ slot.stage = "done" => Whole /\ tenant.sub
    BY <2>2 DEF Inv, Ordered, Completed
  <2> QED BY <2>2, <2>3 DEF Inv, Left
<1> QED BY <1>1, Invariant, PTL

=============================================================================
