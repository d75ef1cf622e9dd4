------------------------- MODULE BillingCycleProofs -------------------------
(* Theorems about BillingCycle, for any threads, requests, days and invoices. *)
EXTENDS BillingCycle, SequenceTheorems, WellFoundedInduction, TLAPS

-----------------------------------------------------------------------------
(* The inductive invariant.                                                  *)

Steps == {"idle", "lifecycle", "mark", "judge", "shut", "sync", "erase", "status", "bill", "issue", "retry", "charge",
          "book", "complete", "decline", "extend", "reopen", "meta", "cancel", "restore", "upgrade", "apply"}

Rows == [id : Nat, gone : Days \cup {None}]

Regs == [op : {None, "cycle", "settle", "cancel", "restore", "delete", "webhook"}, sub : Subs \cup {None},
         debt : Nat \cup {None}, status : {None, "issued", "payment_failed", "paid"}, open : BOOLEAN,
         todo : SUBSET Rows, target : Nat \cup {None}, restrict : BOOLEAN, next : Statuses \cup {None},
         back : {None, "bill", "meta"}]

\* What each variable ranges over.
Shape ==
  /\ day \in 0..MaxDay /\ asked \in 0..MaxRequests /\ faults \in 0..MaxFaults
  /\ tenant \in [row : BOOLEAN, open : BOOLEAN, schema : BOOLEAN]
  /\ sub \in Subs
  /\ inv \in Seq(Invoices) /\ Len(inv) <= MaxInvoices
  /\ req \in Seq(Requests) /\ Len(req) <= MaxCancels
  /\ event \in [recorded : BOOLEAN, applied : 0..1]
  /\ paid = None \/ paid \in [until : Nat, plan : Plans]
  /\ pc \in [Actors -> Steps] /\ my \in [Actors -> Regs]

\* The steps at which an operation holds a copy of the subscription.
HasSub == {"sync", "judge", "status", "bill", "issue", "charge", "book", "complete", "decline", "extend", "cancel", "apply"}

\* What an operation knows at step p with the registers m.
Knows(p, m) ==
  /\ p = "idle" => m = Nothing
  /\ p \in HasSub => m.sub \in Subs
  /\ p = "status" => m.next \in Statuses
  /\ m.debt # None => m.debt \in DOMAIN inv
  /\ p \in {"book", "meta"} => m.debt # None
  /\ p = "meta" \/ m.back = "meta" => m.debt # None /\ m.status = "payment_failed"
  /\ m.back # None => p \in {"sync", "shut", "mark", "judge", "status", "meta"}
  /\ m.op = "delete" => p \in {"idle", "shut", "mark"} /\ ~m.restrict
  /\ m.restrict => p \in {"shut", "mark", "judge"} /\ m.sub \in Subs
  /\ p \in {"shut", "mark"} /\ m.back # None => m.restrict
  /\ p = "apply" => m.target \in Nat
  /\ p = "issue" => /\ m.target \in 0..Len(inv)
                    /\ \A i \in DOMAIN inv : i <= m.target => inv[i].period # m.sub.until
  /\ p \in {"shut", "mark"} => /\ m.target \in DOMAIN req
                               /\ m.op # "delete" => req[m.target].effective + Grace <= day
  /\ \A r \in m.todo : r.id \in DOMAIN req /\ (r.gone # None => r.gone = req[r.id].deactivated)

TypeInv == Shape /\ \A a \in Actors : Knows(pc[a], my[a])

\* A request is closed in time, and not closed again.
Waits ==
  \A i \in DOMAIN req : req[i].deactivated # None =>
    /\ req[i].deactivated <= day
    /\ req[i].byOwner \/ req[i].effective + Grace <= req[i].deactivated

\* One cancellation at a time, and there is room for it.
Room ==
  \A a \in Actors : pc[a] = "cancel" =>
    Len(req) < MaxCancels /\ \A b \in Actors : pc[b] = "cancel" => b = a

\* The event is applied by the delivery that recorded it.
Once ==
  /\ ~event.recorded => event.applied = 0
  /\ \A a \in Actors : pc[a] \in {"upgrade", "apply"} =>
       /\ event.recorded /\ event.applied = 0
       /\ \A b \in Actors : pc[b] \in {"upgrade", "apply"} => b = a

\* A request for payment has the type of one.
Requesting == \A i \in DOMAIN inv : inv[i].status = "issued" => inv[i].type = "monthly"

\* A payment is under way.
Busy(a) == Paying(a) \/ Unbooked(a)

\* What is left of its debt to be written.
Owing(a) == (pc[a] \in {"charge", "decline", "book", "meta"} \/ my[a].back = "meta") /\ my[a].debt # None

\* Until something disturbs it, one payment is under way, and its debt is one.
Alone == ~Disturbed => \A a, b \in Actors : Busy(a) /\ Busy(b) => a = b
Owed  == ~Disturbed => \A a \in Actors : Owing(a) => inv[my[a].debt].status # "paid"

OneDebt ==
  ~Disturbed => \A i, j \in DOMAIN inv :
    i # j /\ inv[i].period = inv[j].period => "paid" \in {inv[i].status, inv[j].status}

\* The charge taken and the upgrade recorded, of which the subscription does
\* not know yet.
Owes(a) == pc[a] \in {"book", "complete", "extend"}
Upgrading(a) == pc[a] \in {"upgrade", "apply"}

Covered ==
  tenant.row /\ ~Disturbed =>
    /\ paid.until = IF \E a \in Actors : Owes(a) THEN sub.until + Cycle ELSE sub.until
    /\ paid.plan = IF \E a \in Actors : Upgrading(a) THEN "pro" ELSE sub.plan

Inv == TypeInv /\ Waits /\ NoEarlyDrop /\ Room /\ Once /\ Requesting /\ Alone /\ Owed /\ OneDebt /\ Covered


-----------------------------------------------------------------------------
(* What the queries answer.                                                  *)

\* A set of natural numbers that is not empty has a least element.
LEMMA LeastExists ==
  ASSUME NEW T, T \subseteq Nat, T # {}
  PROVE  \E x \in T : \A y \in T : x <= y
<1>1. IsWellFoundedOn(OpToRel(<, Nat), Nat)
  BY NatLessThanWellFounded, Zenon
<1>2. PICK x \in T : \A y \in T : ~(<<y, x>> \in OpToRel(<, Nat))
  BY <1>1, WFMin, Zenon
<1>3. ASSUME NEW y \in T, y < x
      PROVE  FALSE
  <2>1. <<y, x>> \in OpToRel(<, Nat)
    BY <1>3, Zenon DEF OpToRel
  <2> QED BY <1>2, <2>1, Zenon
<1>4. ASSUME NEW y \in T
      PROVE  x <= y
  <2>1. x \in Nat /\ y \in Nat
    BY <1>2
  <2>2. ~(y < x)
    BY <1>3
  <2> QED BY <2>1, <2>2
<1> QED BY <1>2, <1>4

\* NULL is not a number.
LEMMA NoNumber == None \notin Nat /\ None # "meta"
BY BillingAssumption DEF BillingAssumption

\* The latest of the rows that a query finds is one of them.
LEMMA LatestIn ==
  ASSUME NEW n \in Nat, NEW S, S \subseteq 1..n
  PROVE  /\ Latest(S) # None <=> S # {}
         /\ Latest(S) # None => Latest(S) \in S
<1>1. CASE S = {}
  BY <1>1 DEF Latest
<1>2. CASE S # {}
  <2> DEFINE T == {n - i : i \in S}
  <2>1. \A j \in S : j \in Nat /\ n - j \in Nat /\ n - j \in T
    OBVIOUS
  <2>2. T \subseteq Nat /\ T # {}
    BY <1>2, <2>1
  <2>3. PICK x \in T : \A y \in T : x <= y
    BY <2>2, LeastExists
  <2>a. PICK i \in S : x = n - i
    BY <2>3
  <2> HIDE DEF T
  <2>4. \A j \in S : j <= i
    BY <2>1, <2>3, <2>a
  <2>5. Latest(S) \in S
    BY <1>2, <2>a, <2>4 DEF Latest
  <2>6. Latest(S) # None
    BY <2>1, <2>5, NoNumber
  <2> QED BY <1>2, <2>5, <2>6
<1> QED BY <1>1, <1>2

\* The row that a run of the lifecycle works on is one of its list.
LEMMA RowIn ==
  ASSUME NEW a \in Actors, my[a].todo \subseteq Rows, my[a].todo # {}
  PROVE  Row(a) \in my[a].todo /\ Row(a) \in Rows
<1> DEFINE T == {r.id : r \in my[a].todo}
<1>1. T \subseteq Nat /\ T # {}
  BY DEF Rows
<1>2. PICK x \in T : \A y \in T : x <= y
  BY <1>1, LeastExists
<1>3. PICK r \in my[a].todo : x = r.id
  BY <1>2
<1>4. \A q \in my[a].todo : r.id <= q.id
  BY <1>2, <1>3
<1> QED BY <1>3, <1>4 DEF Row

\* The invoice that a query finds is there, and is as the query wants it.
LEMMA Queries ==
  ASSUME inv \in Seq(Invoices)
  PROVE  /\ Debt # None => Debt \in DOMAIN inv /\ inv[Debt].status \in {"issued", "payment_failed"}
         /\ Debt = None => \A i \in DOMAIN inv : /\ inv[i].status # "payment_failed"
                                                 /\ inv[i].type = "monthly" => inv[i].status # "issued"
         /\ OpenRequest # None => OpenRequest \in DOMAIN inv /\ inv[OpenRequest].status = "issued"
         /\ FailedUnpaid # None => FailedUnpaid \in DOMAIN inv
<1> DEFINE D == {i \in DOMAIN inv : \/ inv[i].type = "monthly" /\ inv[i].status = "issued"
                                    \/ inv[i].status = "payment_failed"}
           R == {i \in DOMAIN inv : inv[i].type = "monthly" /\ inv[i].status = "issued"}
           F == {i \in DOMAIN inv : inv[i].type = "failed"}
<1>1. Len(inv) \in Nat /\ DOMAIN inv = 1..Len(inv)
  OBVIOUS
<1>2. (Latest(D) # None <=> D # {}) /\ (Latest(D) # None => Latest(D) \in D)
  BY <1>1, LatestIn
<1>3. (Latest(R) # None <=> R # {}) /\ (Latest(R) # None => Latest(R) \in R)
  BY <1>1, LatestIn
<1>4. (Latest(F) # None <=> F # {}) /\ (Latest(F) # None => Latest(F) \in F)
  BY <1>1, LatestIn
<1>5. Debt = Latest(D) /\ OpenRequest = Latest(R) /\ LatestOf("failed") = Latest(F)
  BY DEF Debt, OpenRequest, LatestOf
<1>6. FailedUnpaid = None \/ FailedUnpaid = Latest(F)
  BY <1>5 DEF FailedUnpaid
<1> QED BY <1>2, <1>3, <1>4, <1>5, <1>6

\* The same for the requests.
LEMMA RequestQueries ==
  ASSUME req \in Seq(Requests)
  PROVE  /\ LastRequest # None => LastRequest \in DOMAIN req
         /\ Latest({i \in DOMAIN req : req[i].status = "requested"}) # None
              => Latest({i \in DOMAIN req : req[i].status = "requested"}) \in DOMAIN req
<1>1. Len(req) \in Nat /\ DOMAIN req = 1..Len(req)
  OBVIOUS
<1> QED BY <1>1, LatestIn DEF LastRequest

-----------------------------------------------------------------------------
(* What the steps of an operation do.                                        *)

\* Nothing is taken away from the invoices and the requests.
Grows ==
  /\ day' = day
  /\ Len(inv) <= Len(inv') /\ \A i \in DOMAIN inv : inv'[i].period = inv[i].period
  /\ Len(req) <= Len(req')
  /\ \A i \in DOMAIN req :
       /\ req'[i].effective = req[i].effective
       /\ req[i].deactivated # None => req'[i].deactivated = req[i].deactivated /\ req'[i].byOwner = req[i].byOwner

\* Only a goes on.
Others(a) ==
  /\ pc' \in [Actors -> Steps] /\ my' \in [Actors -> Regs]
  /\ \A b \in Actors \ {a} : pc'[b] = pc[b] /\ my'[b] = my[b]

\* The invoices, the requests and the day stay as they are.
Reads == UNCHANGED <<day, inv, req>>

\* The rows the steps of an operation leave are rows.
Tables ==
  /\ day \in 0..MaxDay /\ asked \in 0..MaxRequests /\ faults \in 0..MaxFaults
  /\ tenant \in [row : BOOLEAN, open : BOOLEAN, schema : BOOLEAN]
  /\ sub \in Subs
  /\ inv \in Seq(Invoices) /\ Len(inv) <= MaxInvoices
  /\ req \in Seq(Requests) /\ Len(req) <= MaxCancels
  /\ event \in [recorded : BOOLEAN, applied : 0..1]
  /\ paid = None \/ paid \in [until : Nat, plan : Plans]

\* What a step of a leaves, for itself and for the others.
Moves(a) == Tables' /\ Others(a) /\ Grows /\ Knows(pc[a], my[a])'

LEMMA Bounds ==
  /\ FirstDue \in Nat \ {0} /\ Cycle \in Nat \ {0} /\ Grace \in Nat \ {0} /\ CloseAfter \in Nat \ {0}
  /\ MaxDay \in Nat /\ MaxInvoices \in Nat /\ MaxCancels \in Nat /\ MaxRequests \in Nat /\ MaxFaults \in Nat
BY BillingAssumption DEF BillingAssumption

LEMMA Becoming ==
  ASSUME Shape, NEW a \in Actors, NEW p \in Steps, NEW m \in Regs, Go(a, p), Know(a, m)
  PROVE  Others(a) /\ pc'[a] = p /\ my'[a] = m
BY DEF Shape, Go, Know, Others

LEMMA Going ==
  ASSUME Shape, NEW a \in Actors, NEW p \in Steps, Go(a, p), UNCHANGED my
  PROVE  Others(a) /\ pc'[a] = p /\ my'[a] = my[a]
BY DEF Shape, Go, Others

LEMMA Knowing ==
  ASSUME Shape, NEW a \in Actors, NEW m \in Regs, UNCHANGED pc, Know(a, m)
  PROVE  Others(a) /\ pc'[a] = pc[a] /\ my'[a] = m
BY DEF Shape, Know, Others

\* The registers of a thread that does nothing.
LEMMA NothingFacts ==
  /\ Nothing \in Regs /\ Nothing.op = None /\ Nothing.sub = None /\ Nothing.debt = None /\ Nothing.status = None
  /\ Nothing.todo = {} /\ Nothing.target = None /\ Nothing.restrict = FALSE /\ Nothing.next = None
  /\ Nothing.back = None
BY DEF Nothing, Regs

LEMMA Finishing ==
  ASSUME Shape, NEW a \in Actors, Done(a)
  PROVE  Others(a) /\ pc'[a] = "idle" /\ my'[a] = Nothing /\ Knows(pc[a], my[a])'
<1>1. "idle" \in Steps /\ Nothing \in Regs /\ Go(a, "idle") /\ Know(a, Nothing)
  BY NothingFacts DEF Steps, Done
<1>2. Others(a) /\ pc'[a] = "idle" /\ my'[a] = Nothing
  BY <1>1, Becoming
<1> QED BY <1>2, NothingFacts, NoNumber DEF Knows, HasSub

\* What a step that only reads leaves as it was.
LEMMA Reading ==
  ASSUME Shape, Reads
  PROVE  Grows
BY DEF Shape, Reads, Grows

LEMMA TablesOf == Shape <=> Tables /\ pc \in [Actors -> Steps] /\ my \in [Actors -> Regs]
BY DEF Shape, Tables

\* The others still know what they knew.
LEMMA OthersKnow ==
  ASSUME Shape, Shape', Grows, NEW b \in Actors, pc'[b] = pc[b], my'[b] = my[b], Knows(pc[b], my[b])
  PROVE  Knows(pc[b], my[b])'
<1> DEFINE m == my[b]
<1>1. /\ m \in Regs
      /\ \A r \in m.todo : r \in Rows
  BY DEF Shape, Regs
<1>2. DOMAIN inv = 1..Len(inv) /\ DOMAIN inv' = 1..Len(inv') /\ DOMAIN req = 1..Len(req) /\ DOMAIN req' = 1..Len(req')
      /\ Len(inv) \in Nat /\ Len(req) \in Nat /\ Len(inv') \in Nat /\ Len(req') \in Nat
  BY DEF Shape
<1>3. DOMAIN inv \subseteq DOMAIN inv' /\ DOMAIN req \subseteq DOMAIN req'
  BY <1>2 DEF Grows
<1> HIDE DEF m
<1>4. Knows(pc[b], m)
  BY DEF m
<1>5. \A r \in m.todo : r.id \in DOMAIN req' /\ (r.gone # None => r.gone = req'[r.id].deactivated)
  BY <1>3, <1>4 DEF Knows, Grows
<1>6. pc[b] = "issue" => /\ m.target \in 0..Len(inv')
                         /\ \A i \in DOMAIN inv' : i <= m.target => inv'[i].period # m.sub.until
  BY <1>2, <1>3, <1>4 DEF Knows, Grows
<1>7. pc[b] \in {"shut", "mark"} => /\ m.target \in DOMAIN req'
                                    /\ m.op # "delete" => req'[m.target].effective + Grace <= day'
  BY <1>3, <1>4 DEF Knows, Grows
<1>8. my'[b] = m
  BY DEF m
<1> QED BY <1>3, <1>4, <1>5, <1>6, <1>7, <1>8 DEF Knows

-----------------------------------------------------------------------------
(* The due cycle, to where the subscription is judged.                       *)

\* A closed tenant is a tenant.
LEMMA Closing ==
  ASSUME Shape, Close
  PROVE  tenant' \in [row : BOOLEAN, open : BOOLEAN, schema : BOOLEAN] /\ tenant'.schema = tenant.schema
BY DEF Shape, Close

LEMMA StartCycleMoves ==
  ASSUME Shape, NEW a \in Actors, StartCycle(a)
  PROVE  /\ Moves(a) /\ UNCHANGED <<tenant, inv, req, event, paid>>
         /\ pc'[a] = "lifecycle" /\ my'[a].back = None
<1> DEFINE m == [Nothing EXCEPT !.op = "cycle", !.todo = OpenRequests]
<1>1. OpenRequests \subseteq Rows /\ \A r \in OpenRequests : r.id \in DOMAIN req /\ r.gone = req[r.id].deactivated
  <2>1. ASSUME NEW r \in OpenRequests
        PROVE  r \in Rows /\ r.id \in DOMAIN req /\ r.gone = req[r.id].deactivated
    <3>1. PICK i \in DOMAIN req : r = [id |-> i, gone |-> req[i].deactivated]
      BY DEF OpenRequests
    <3>2. i \in Nat /\ req[i] \in Requests
      BY DEF Shape
    <3>3. req[i].deactivated \in Days \cup {None}
      BY <3>2 DEF Requests
    <3> QED BY <3>1, <3>2, <3>3 DEF Rows
  <2> QED BY <2>1
<1>2. m \in Regs /\ m.op = "cycle" /\ m.todo = OpenRequests /\ m.debt = None /\ m.back = None /\ m.restrict = FALSE
  BY <1>1 DEF Regs, Nothing
<1> HIDE DEF m
<1>3. Go(a, "lifecycle") /\ Know(a, m) /\ "lifecycle" \in Steps
  BY DEF StartCycle, m, Steps
<1>4. Others(a) /\ pc'[a] = "lifecycle" /\ my'[a] = m
  BY <1>2, <1>3, Becoming
<1>5. Tables' /\ Reads /\ UNCHANGED <<tenant, inv, req, event, paid>>
  BY Bounds DEF StartCycle, Tables, Shape, Reads
<1>6. Knows(pc[a], my[a])'
  BY <1>1, <1>2, <1>4, <1>5, NoNumber DEF Knows, HasSub, Reads
<1> QED BY <1>2, <1>4, <1>5, <1>6, Reading DEF Moves

LEMMA PassRowMoves ==
  ASSUME Shape, NEW a \in Actors, Knows(pc[a], my[a]), PassRow(a)
  PROVE  /\ Moves(a) /\ UNCHANGED <<tenant, inv, req, event, paid>>
         /\ pc'[a] = "lifecycle" /\ my'[a].back = None
<1> DEFINE m == [my[a] EXCEPT !.todo = @ \ {Row(a)}]
<1>1. /\ pc[a] = "lifecycle" /\ my[a] \in Regs /\ my[a].back = None
  BY DEF PassRow, At, Shape, Knows
<1>2. /\ m \in Regs /\ m.todo \subseteq my[a].todo /\ m.debt = my[a].debt /\ m.back = my[a].back
      /\ m.restrict = my[a].restrict /\ m.op = my[a].op /\ m.sub = my[a].sub
  BY <1>1 DEF Regs
<1> HIDE DEF m
<1>3. Know(a, m) /\ UNCHANGED pc
  BY DEF PassRow, NextRow, m
<1>4. Others(a) /\ pc'[a] = "lifecycle" /\ my'[a] = m
  BY <1>1, <1>2, <1>3, Knowing
<1>5. Tables' /\ Reads /\ UNCHANGED <<tenant, inv, req, event, paid>>
  BY DEF PassRow, Tables, Shape, Reads
<1>6. Knows(pc[a], my[a])'
  BY <1>1, <1>2, <1>4, <1>5, NoNumber DEF Knows, HasSub, Reads
<1> QED BY <1>1, <1>2, <1>4, <1>5, <1>6, Reading DEF Moves

LEMMA CloseLapsedMoves ==
  ASSUME Shape, NEW a \in Actors, Knows(pc[a], my[a]), CloseLapsed(a)
  PROVE  /\ Moves(a) /\ UNCHANGED <<inv, req, event, paid>> /\ tenant'.schema = tenant.schema
         /\ pc'[a] = "mark" /\ my'[a].back = None
<1> DEFINE m == [my[a] EXCEPT !.todo = @ \ {Row(a)}, !.target = Row(a).id]
<1>1. /\ pc[a] = "lifecycle" /\ my[a] \in Regs /\ my[a].back = None /\ my[a].todo # {} /\ my[a].todo \subseteq Rows
  BY DEF CloseLapsed, At, Shape, Knows, Regs
<1>2. Row(a) \in my[a].todo /\ Row(a) \in Rows
  BY <1>1, RowIn
<1>3. PICK r \in my[a].todo : r = Row(a)
  BY <1>2
<1>4. r \in Rows /\ r.id \in Nat /\ r.id \in DOMAIN req /\ day >= req[r.id].effective + Grace
  BY <1>2, <1>3 DEF CloseLapsed, Lapsed, Rows, Knows
<1>5. /\ m \in Regs /\ m.todo \subseteq my[a].todo /\ m.debt = my[a].debt /\ m.back = my[a].back
      /\ m.restrict = my[a].restrict /\ m.op = my[a].op /\ m.sub = my[a].sub /\ m.target = r.id
  BY <1>1, <1>3, <1>4 DEF Regs
<1> HIDE DEF m
<1>6. Know(a, m) /\ Go(a, "mark") /\ "mark" \in Steps
  BY DEF CloseLapsed, m, Steps
<1>7. Others(a) /\ pc'[a] = "mark" /\ my'[a] = m
  BY <1>5, <1>6, Becoming
<1>8. Tables' /\ Reads /\ UNCHANGED <<inv, req, event, paid>> /\ tenant'.schema = tenant.schema
  BY Closing DEF CloseLapsed, Tables, Shape, Reads
<1>9. req[r.id].effective + Grace <= day
  BY <1>4, Bounds DEF Shape, Requests
<1>a. Knows(pc[a], my[a])'
  BY <1>1, <1>4, <1>5, <1>7, <1>8, <1>9, NoNumber DEF Knows, HasSub, Reads
<1> QED BY <1>1, <1>5, <1>7, <1>8, <1>a, Reading DEF Moves

LEMMA MarkMoves ==
  ASSUME Shape, NEW a \in Actors, Knows(pc[a], my[a]), Mark(a)
  PROVE  /\ Moves(a) /\ UNCHANGED <<tenant, inv, event, paid>>
         /\ pc[a] = "mark" /\ my[a].target \in DOMAIN req /\ Len(req') = Len(req)
         /\ \A i \in DOMAIN req : req'[i] = req[i] \/
              /\ i = my[a].target /\ req[i].deactivated = None
              /\ req'[i].deactivated = day /\ req'[i].effective = req[i].effective
              /\ req'[i].byOwner = (my[a].op = "delete")
         /\ pc'[a] \in {"idle", "judge", "lifecycle"}
         /\ my'[a].back = "meta" => my[a].back = "meta" /\ my'[a].debt = my[a].debt
<1>1. /\ pc[a] = "mark" /\ my[a] \in Regs /\ my[a].target \in DOMAIN req
      /\ my[a].op # "delete" => req[my[a].target].effective + Grace <= day
  BY DEF Mark, At, Shape, Knows
<1>2. PICK t \in DOMAIN req : t = my[a].target
  BY <1>1
<1>3. PICK v \in BOOLEAN : v = (my[a].op = "delete")
  OBVIOUS
<1>4. req' = IF req[t].deactivated # None THEN req
             ELSE [req EXCEPT ![t] = [req[t] EXCEPT !.deactivated = day, !.byOwner = v]]
  BY <1>2, <1>3 DEF Mark, Shape, Requests
<1>5. req[t] \in Requests /\ day \in Days
  BY <1>2, Bounds DEF Shape, Days
<1>6. /\ [req[t] EXCEPT !.deactivated = day, !.byOwner = v] \in Requests
      /\ [req[t] EXCEPT !.deactivated = day, !.byOwner = v].deactivated = day
      /\ [req[t] EXCEPT !.deactivated = day, !.byOwner = v].byOwner = v
      /\ [req[t] EXCEPT !.deactivated = day, !.byOwner = v].effective = req[t].effective
  BY <1>5 DEF Requests
<1> DEFINE q == [req[t] EXCEPT !.deactivated = day, !.byOwner = v]
<1> HIDE DEF q
<1>7. /\ req' \in Seq(Requests) /\ Len(req') = Len(req) /\ DOMAIN req' = DOMAIN req
      /\ \A i \in DOMAIN req : req'[i] = IF i = t /\ req[t].deactivated = None THEN q ELSE req[i]
  BY <1>4, <1>6, ExceptSeq DEF Shape, q
<1>8. /\ q.deactivated = day /\ q.byOwner = v /\ q.effective = req[t].effective
  BY <1>6 DEF q
<1>9. Tables' /\ UNCHANGED <<day, tenant, inv, event, paid>>
  BY <1>7 DEF Mark, Shape, Tables
<1>a. Grows
  BY <1>7, <1>8, <1>9 DEF Shape, Grows
<1>b. \A r \in my[a].todo : r.id \in DOMAIN req' /\ (r.gone # None => r.gone = req'[r.id].deactivated)
  BY <1>7 DEF Knows
<1>c. /\ Others(a) /\ Knows(pc[a], my[a])'
      /\ pc'[a] \in {"idle", "judge", "lifecycle"}
      /\ my'[a].back = "meta" => my[a].back = "meta" /\ my'[a].debt = my[a].debt
  <2>1. CASE my[a].op = "delete"
    <3>1. Done(a)
      BY <2>1 DEF Mark
    <3> QED BY <3>1, Finishing, NothingFacts, NoNumber
  <2>2. CASE my[a].op # "delete" /\ my[a].restrict
    <3>1. Go(a, "judge") /\ UNCHANGED my /\ "judge" \in Steps
      BY <2>2 DEF Mark, Steps
    <3>2. Others(a) /\ pc'[a] = "judge" /\ my'[a] = my[a]
      BY <3>1, Going
    <3>3. Knows(pc[a], my[a])'
      BY <1>1, <1>9, <1>b, <2>2, <3>2 DEF Knows, HasSub
    <3> QED BY <3>2, <3>3
  <2>3. CASE my[a].op # "delete" /\ ~my[a].restrict
    <3> DEFINE m == [my[a] EXCEPT !.target = None]
    <3>1. /\ m \in Regs /\ m.todo = my[a].todo /\ m.debt = my[a].debt /\ m.back = my[a].back
          /\ m.restrict = my[a].restrict /\ m.status = my[a].status /\ m.op = my[a].op
      BY <1>1 DEF Regs
    <3> HIDE DEF m
    <3>2. Go(a, "lifecycle") /\ Know(a, m) /\ "lifecycle" \in Steps
      BY <2>3 DEF Mark, Steps, m
    <3>3. Others(a) /\ pc'[a] = "lifecycle" /\ my'[a] = m
      BY <3>1, <3>2, Becoming
    <3>4. my[a].back = None
      BY <1>1, <2>3 DEF Knows
    <3>5. Knows(pc[a], my[a])'
      BY <1>1, <1>9, <1>b, <2>3, <3>1, <3>3 DEF Knows, HasSub
    <3> QED BY <3>1, <3>3, <3>5
  <2> QED BY <2>1, <2>2, <2>3
<1> QED BY <1>1, <1>2, <1>3, <1>7, <1>8, <1>9, <1>a, <1>c DEF Moves

LEMMA DropSchemaMoves ==
  ASSUME Shape, NEW a \in Actors, Knows(pc[a], my[a]), DropSchema(a)
  PROVE  /\ Moves(a) /\ UNCHANGED <<inv, req, event, paid>>
         /\ pc'[a] \in {"lifecycle", "erase"} /\ my'[a].back = None
         /\ \E i \in DOMAIN req : req[i].deactivated # None /\ req[i].deactivated + Grace <= day
<1>1. /\ pc[a] = "lifecycle" /\ my[a] \in Regs /\ my[a].back = None /\ my[a].todo # {} /\ my[a].todo \subseteq Rows
  BY DEF DropSchema, At, Shape, Knows, Regs
<1>2. Row(a) \in my[a].todo /\ Row(a) \in Rows
  BY <1>1, RowIn
<1>3. PICK r \in my[a].todo : r = Row(a)
  BY <1>2
<1>4. r.id \in DOMAIN req /\ r.gone # None /\ r.gone = req[r.id].deactivated /\ day >= r.gone + Grace
  BY <1>3 DEF DropSchema, Droppable, Knows
<1>5. r.gone \in Nat
  BY <1>2, <1>3, <1>4, Bounds DEF Rows, Days
<1>6. req[r.id].deactivated # None /\ req[r.id].deactivated + Grace <= day
  BY <1>4, <1>5, Bounds DEF Shape
<1>a. \/ /\ tenant' = [tenant EXCEPT !.schema = FALSE] /\ faults' = faults
      \/ /\ faults < MaxFaults /\ faults' = faults + 1 /\ tenant' = tenant
  BY DEF DropSchema
<1>b. tenant' \in [row : BOOLEAN, open : BOOLEAN, schema : BOOLEAN] /\ faults' \in 0..MaxFaults
  <2>1. tenant \in [row : BOOLEAN, open : BOOLEAN, schema : BOOLEAN] /\ faults \in 0..MaxFaults /\ MaxFaults \in Nat
    BY Bounds DEF Shape
  <2>2. [tenant EXCEPT !.schema = FALSE] \in [row : BOOLEAN, open : BOOLEAN, schema : BOOLEAN]
    BY <2>1
  <2>3. faults' = faults \/ (faults < MaxFaults /\ faults' = faults + 1)
    BY <1>a
  <2>4. tenant' = tenant \/ tenant' = [tenant EXCEPT !.schema = FALSE]
    BY <1>a
  <2>5. faults' \in 0..MaxFaults
    BY <2>1, <2>3
  <2> QED BY <2>1, <2>2, <2>4, <2>5
<1>7. Tables' /\ Reads /\ UNCHANGED <<inv, req, event, paid>>
  BY <1>b DEF DropSchema, Tables, Shape, Reads
<1>8. Others(a) /\ pc'[a] \in {"lifecycle", "erase"} /\ my'[a].back = None /\ Knows(pc[a], my[a])'
  <2>1. CASE Go(a, "erase") /\ UNCHANGED my
    <3>1. "erase" \in Steps
      BY DEF Steps
    <3>2. Others(a) /\ pc'[a] = "erase" /\ my'[a] = my[a]
      BY <2>1, <3>1, Going
    <3> QED BY <1>1, <1>7, <3>2 DEF Knows, HasSub, Reads
  <2>2. CASE NextRow(a) /\ UNCHANGED pc
    <3> DEFINE m == [my[a] EXCEPT !.todo = @ \ {Row(a)}]
    <3>1. /\ m \in Regs /\ m.todo \subseteq my[a].todo /\ m.debt = my[a].debt /\ m.back = my[a].back
          /\ m.restrict = my[a].restrict /\ m.op = my[a].op /\ m.sub = my[a].sub
      BY <1>1 DEF Regs
    <3>2. Know(a, m)
      BY <2>2 DEF NextRow
    <3> HIDE DEF m
    <3>3. Others(a) /\ pc'[a] = "lifecycle" /\ my'[a] = m
      BY <1>1, <2>2, <3>1, <3>2, Knowing
    <3> QED BY <1>1, <1>7, <3>1, <3>3, NoNumber DEF Knows, HasSub, Reads
  <2> QED BY <2>1, <2>2 DEF DropSchema
<1> QED BY <1>4, <1>6, <1>7, <1>8, Reading DEF Moves

LEMMA EraseMoves ==
  ASSUME Shape, NEW a \in Actors, Erase(a)
  PROVE  /\ Moves(a) /\ UNCHANGED <<inv, req, event, paid>> /\ tenant'.schema = tenant.schema
         /\ pc'[a] = "idle" /\ my'[a].back = None
<1>1. Others(a) /\ pc'[a] = "idle" /\ my'[a] = Nothing /\ Knows(pc[a], my[a])'
  BY Finishing DEF Erase
<1>2. Tables' /\ Reads /\ UNCHANGED <<inv, req, event, paid>> /\ tenant'.schema = tenant.schema
  BY DEF Erase, Tables, Shape, Reads
<1> QED BY <1>1, <1>2, NothingFacts, Reading DEF Moves

LEMMA ReadTenantMoves ==
  ASSUME Shape, NEW a \in Actors, Knows(pc[a], my[a]), ReadTenant(a)
  PROVE  /\ Moves(a) /\ UNCHANGED <<tenant, inv, req, event, paid>>
         /\ pc'[a] \in {"sync", "idle"} /\ my'[a].back # "meta"
<1>1. /\ pc[a] = "lifecycle" /\ my[a] \in Regs /\ my[a].back = None /\ sub \in Subs
  BY DEF ReadTenant, At, Shape, Knows
<1>2. Tables' /\ Reads /\ UNCHANGED <<tenant, inv, req, event, paid>>
  BY DEF ReadTenant, Tables, Shape, Reads
<1>3. CASE tenant.open
  <2> DEFINE m == [my[a] EXCEPT !.sub = sub, !.back = "bill"]
  <2>1. /\ m \in Regs /\ m.todo = my[a].todo /\ m.debt = my[a].debt /\ m.back = "bill"
        /\ m.restrict = my[a].restrict /\ m.op = my[a].op /\ m.sub = sub
    BY <1>1 DEF Regs
  <2> HIDE DEF m
  <2>2. Go(a, "sync") /\ Know(a, m) /\ "sync" \in Steps
    BY <1>3 DEF ReadTenant, m, Steps
  <2>3. Others(a) /\ pc'[a] = "sync" /\ my'[a] = m
    BY <2>1, <2>2, Becoming
  <2>4. Knows(pc[a], my[a])'
    BY <1>1, <1>2, <2>1, <2>3 DEF Knows, HasSub, Reads
  <2> QED BY <1>2, <2>1, <2>3, <2>4, Reading DEF Moves
<1>4. CASE ~tenant.open
  <2>1. Done(a)
    BY <1>4 DEF ReadTenant
  <2> QED BY <1>2, <2>1, Finishing, Reading, NothingFacts, NoNumber DEF Moves
<1> QED BY <1>3, <1>4

-----------------------------------------------------------------------------
(* Judging the subscription.                                                 *)

\* What a step of sync_status leaves of the payment it belongs to.
KeepsDebt(a) == my'[a].back = my[a].back /\ my'[a].debt = my[a].debt

LEMMA SyncCancellationMoves ==
  ASSUME Shape, NEW a \in Actors, Knows(pc[a], my[a]), SyncCancellation(a)
  PROVE  /\ Moves(a) /\ UNCHANGED <<tenant, inv, req, event, paid>>
         /\ pc[a] = "sync" /\ pc'[a] = "shut" /\ KeepsDebt(a)
<1> DEFINE m == [my[a] EXCEPT !.restrict = TRUE, !.target = LastRequest]
<1>1. /\ pc[a] = "sync" /\ my[a] \in Regs /\ my[a].sub \in Subs
      /\ LastRequest # None /\ day >= req[LastRequest].effective + Grace
  BY DEF SyncCancellation, At, Shape, Knows, HasSub, InForce, Cancelled
<1>2. LastRequest \in DOMAIN req
  BY <1>1, RequestQueries DEF Shape
<1>3. PICK l \in DOMAIN req : l = LastRequest
  BY <1>2
<1>4. l \in Nat /\ req[l].effective + Grace <= day
  BY <1>1, <1>3, Bounds DEF Shape, Requests
<1>5. /\ m \in Regs /\ m.todo = my[a].todo /\ m.debt = my[a].debt /\ m.back = my[a].back
      /\ m.restrict = TRUE /\ m.op = my[a].op /\ m.sub = my[a].sub /\ m.target = l /\ m.status = my[a].status
  BY <1>1, <1>3, <1>4 DEF Regs
<1> HIDE DEF m
<1>6. Go(a, "shut") /\ Know(a, m) /\ "shut" \in Steps
  BY DEF SyncCancellation, m, Steps
<1>7. Others(a) /\ pc'[a] = "shut" /\ my'[a] = m
  BY <1>5, <1>6, Becoming
<1>8. Tables' /\ Reads /\ UNCHANGED <<tenant, inv, req, event, paid>>
  BY DEF SyncCancellation, Tables, Shape, Reads
<1>9. Knows(pc[a], my[a])'
  BY <1>1, <1>4, <1>5, <1>7, <1>8 DEF Knows, HasSub, Reads
<1> QED BY <1>1, <1>5, <1>7, <1>8, <1>9, Reading DEF Moves, KeepsDebt

LEMMA ShutMoves ==
  ASSUME Shape, NEW a \in Actors, Knows(pc[a], my[a]), Shut(a)
  PROVE  /\ Moves(a) /\ UNCHANGED <<inv, req, event, paid>> /\ tenant'.schema = tenant.schema
         /\ pc[a] = "shut" /\ pc'[a] = "mark" /\ KeepsDebt(a)
<1>1. pc[a] = "shut" /\ my[a] \in Regs /\ Go(a, "mark") /\ UNCHANGED my /\ "mark" \in Steps
  BY DEF Shut, At, Shape, Steps
<1>2. Others(a) /\ pc'[a] = "mark" /\ my'[a] = my[a]
  BY <1>1, Going
<1>3. Tables' /\ Reads /\ UNCHANGED <<inv, req, event, paid>> /\ tenant'.schema = tenant.schema
  BY Closing DEF Shut, Tables, Shape, Reads
<1>4. Knows(pc[a], my[a])'
  BY <1>1, <1>2, <1>3 DEF Knows, HasSub, Reads
<1> QED BY <1>1, <1>2, <1>3, <1>4, Reading DEF Moves, KeepsDebt

LEMMA JudgeMoves ==
  ASSUME Shape, NEW a \in Actors, Knows(pc[a], my[a]), Judge(a)
  PROVE  /\ Moves(a) /\ UNCHANGED <<inv, req, event, paid>> /\ tenant'.schema = tenant.schema
         /\ pc[a] \in {"judge", "sync"} /\ pc'[a] = "status" /\ KeepsDebt(a)
<1>1. /\ pc[a] \in {"judge", "sync"} /\ my[a] \in Regs /\ my[a].sub \in Subs
  BY DEF Judge, At, Shape, Knows, HasSub
<1>2. PICK n \in Statuses : Know(a, [my[a] EXCEPT !.next = n, !.restrict = FALSE, !.target = None])
  BY DEF Judge, Statuses
<1> DEFINE m == [my[a] EXCEPT !.next = n, !.restrict = FALSE, !.target = None]
<1>3. /\ m \in Regs /\ m.todo = my[a].todo /\ m.debt = my[a].debt /\ m.back = my[a].back
      /\ m.restrict = FALSE /\ m.op = my[a].op /\ m.sub = my[a].sub /\ m.status = my[a].status /\ m.next = n
  BY <1>1 DEF Regs
<1>4. Know(a, m)
  BY <1>2
<1> HIDE DEF m
<1>5. Go(a, "status") /\ "status" \in Steps
  BY DEF Judge, Steps
<1>6. Others(a) /\ pc'[a] = "status" /\ my'[a] = m
  BY <1>3, <1>4, <1>5, Becoming
<1>7. UNCHANGED <<day, sub, inv, req, event, asked, faults, paid>> /\ (Close \/ UNCHANGED tenant)
  BY DEF Judge
<1>8. Tables' /\ Reads /\ tenant'.schema = tenant.schema
  BY <1>7, Closing DEF Tables, Shape, Reads
<1>9. Knows(pc[a], my[a])'
  BY <1>1, <1>3, <1>6, <1>7 DEF Knows, HasSub
<1> QED BY <1>1, <1>3, <1>6, <1>7, <1>8, <1>9, Reading DEF Moves, KeepsDebt

\* The account of what was paid is followed, or given up.
LEMMA Following ==
  ASSUME NEW p, NEW lost, Follow(p, lost), paid # None => p \in [until : Nat, plan : Plans]
  PROVE  /\ paid' = None \/ paid' \in [until : Nat, plan : Plans]
         /\ paid = None => paid' = None
         /\ lost => paid' = None
BY DEF Follow

\* The row that is written is a row.
LEMMA Upserting ==
  ASSUME Shape, NEW a \in Actors, NEW s \in Subs, NEW p, Upsert(a, s, p), paid # None => p \in [until : Nat, plan : Plans]
  PROVE  /\ sub' \in Subs
         /\ paid = None => paid' = None
         /\ paid' = None \/ paid' \in [until : Nat, plan : Plans]
<1>1. Len(inv) \in 0..MaxInvoices
  BY Bounds DEF Shape
<1>2. sub' = [s EXCEPT !.updated = Len(inv)] /\ Follow(p, my[a].sub # sub)
  BY DEF Upsert
<1>3. [s EXCEPT !.updated = Len(inv)] \in Subs
  BY <1>1 DEF Subs
<1> QED BY <1>2, <1>3, Following

LEMMA StatusMoves ==
  ASSUME Shape, NEW a \in Actors, Knows(pc[a], my[a]), Status(a)
  PROVE  /\ Moves(a) /\ UNCHANGED <<tenant, inv, req, event>>
         /\ paid = None => paid' = None
         /\ pc[a] = "status" /\ pc'[a] \in {"bill", "meta", "idle"}
         /\ my[a].back # "meta" => my'[a].back # "meta" /\ pc'[a] # "meta"
         /\ my[a].back = "meta" => KeepsDebt(a)
<1> DEFINE s == [my[a].sub EXCEPT !.status = my[a].next]
<1>1. /\ pc[a] = "status" /\ my[a] \in Regs /\ my[a].sub \in Subs /\ my[a].next \in Statuses
      /\ my[a].back \in {None, "bill", "meta"}
  BY DEF Status, At, Shape, Knows, HasSub, Regs
<1>2. s \in Subs
  BY <1>1 DEF Subs
<1>3. UNCHANGED <<day, tenant, inv, req, event, asked, faults>>
  BY DEF Status
<1>4. (s = my[a].sub /\ UNCHANGED <<sub, paid>>) \/ (s # my[a].sub /\ Upsert(a, s, paid))
  BY DEF Status
<1>5. \/ my[a].back = "bill" /\ Go(a, "bill")
         /\ Know(a, [Nothing EXCEPT !.op = "cycle", !.sub = IF s = my[a].sub THEN s ELSE sub'])
      \/ my[a].back = "meta" /\ Go(a, "meta") /\ Know(a, [my[a] EXCEPT !.sub = None, !.next = None])
      \/ my[a].back # "bill" /\ my[a].back # "meta" /\ Done(a)
  BY <1>1 DEF Status
<1> HIDE DEF s
<1>6. /\ sub' \in Subs
      /\ paid = None => paid' = None
      /\ paid' = None \/ paid' \in [until : Nat, plan : Plans]
  BY <1>2, <1>4, Upserting DEF Shape
<1>7. Tables' /\ Reads
  BY <1>3, <1>6 DEF Shape, Tables, Reads
<1>8. CASE my[a].back = "bill"
  <2>1. PICK u \in Subs : Know(a, [Nothing EXCEPT !.op = "cycle", !.sub = u])
    BY <1>2, <1>5, <1>6, <1>8
  <2> DEFINE m == [Nothing EXCEPT !.op = "cycle", !.sub = u]
  <2>2. /\ m \in Regs /\ m.op = "cycle" /\ m.sub = u /\ m.debt = None /\ m.status = None /\ m.todo = {}
        /\ m.target = None /\ m.restrict = FALSE /\ m.next = None /\ m.back = None
    BY DEF Nothing, Regs
  <2>3. Know(a, m)
    BY <2>1
  <2> HIDE DEF m
  <2>4. Go(a, "bill") /\ "bill" \in Steps
    BY <1>5, <1>8 DEF Steps
  <2>5. Others(a) /\ pc'[a] = "bill" /\ my'[a] = m
    BY <2>2, <2>3, <2>4, Becoming
  <2>6. Knows(pc[a], my[a])'
    BY <2>2, <2>5, NoNumber DEF Knows, HasSub
  <2> QED BY <1>1, <1>3, <1>6, <1>7, <1>8, <2>2, <2>5, <2>6, NoNumber, Reading DEF Moves
<1>9. CASE my[a].back = "meta"
  <2> DEFINE m == [my[a] EXCEPT !.sub = None, !.next = None]
  <2>1. /\ m \in Regs /\ m.todo = my[a].todo /\ m.debt = my[a].debt /\ m.back = my[a].back
        /\ m.restrict = my[a].restrict /\ m.op = my[a].op /\ m.status = my[a].status
    BY <1>1 DEF Regs
  <2> HIDE DEF m
  <2>2. Go(a, "meta") /\ Know(a, m) /\ "meta" \in Steps
    BY <1>5, <1>9 DEF Steps, m
  <2>3. Others(a) /\ pc'[a] = "meta" /\ my'[a] = m
    BY <2>1, <2>2, Becoming
  <2>4. Knows(pc[a], my[a])'
    BY <1>1, <1>3, <1>9, <2>1, <2>3 DEF Knows, HasSub
  <2> QED BY <1>1, <1>3, <1>6, <1>7, <1>9, <2>1, <2>3, <2>4, Reading DEF Moves, KeepsDebt
<1>a. CASE my[a].back # "bill" /\ my[a].back # "meta"
  <2>1. Done(a)
    BY <1>5, <1>a
  <2> QED BY <1>1, <1>3, <1>6, <1>7, <1>a, <2>1, Finishing, NothingFacts, NoNumber, Reading DEF Moves
<1> QED BY <1>8, <1>9, <1>a

-----------------------------------------------------------------------------
(* Requests for payment and payments.                                        *)

\* An invoice x is added, or the status of the invoice d rewritten.
Adds(x) ==
  /\ Len(inv') = Len(inv) + 1 /\ DOMAIN inv' = DOMAIN inv \cup {Len(inv) + 1}
  /\ inv'[Len(inv) + 1] = x /\ \A i \in DOMAIN inv : inv'[i] = inv[i]

Rewrites(d, status) ==
  /\ d \in DOMAIN inv /\ DOMAIN inv' = DOMAIN inv /\ Len(inv') = Len(inv)
  /\ inv'[d].status = status /\ inv'[d].period = inv[d].period
  /\ \A i \in DOMAIN inv \ {d} : inv'[i] = inv[i]

LEMMA Rowwise ==
  ASSUME Shape
  PROVE  /\ DOMAIN inv = 1..Len(inv) /\ Len(inv) \in Nat
         /\ \A i \in DOMAIN inv : inv[i] \in Invoices
         /\ \A i \in DOMAIN inv : inv[i].period \in Nat /\ inv[i].due \in Nat
<1>1. DOMAIN inv = 1..Len(inv) /\ Len(inv) \in Nat /\ \A i \in DOMAIN inv : inv[i] \in Invoices
  BY DEF Shape
<1> QED BY <1>1 DEF Invoices

LEMMA Adding ==
  ASSUME Shape, NEW x \in Invoices, Len(inv) # MaxInvoices, inv' = Append(inv, x)
  PROVE  Adds(x) /\ inv' \in Seq(Invoices) /\ Len(inv') <= MaxInvoices
BY Bounds, AppendProperties DEF Shape, Adds

LEMMA Rewriting ==
  ASSUME Shape, NEW d \in DOMAIN inv, NEW x \in Invoices, x.period = inv[d].period, inv' = [inv EXCEPT ![d] = x]
  PROVE  Rewrites(d, x.status) /\ inv' \in Seq(Invoices) /\ Len(inv') <= MaxInvoices
<1>1. inv' \in Seq(Invoices) /\ Len(inv') = Len(inv) /\ DOMAIN inv' = DOMAIN inv
      /\ \A i \in DOMAIN inv : inv'[i] = IF i = d THEN x ELSE inv[i]
  BY ExceptSeq DEF Shape
<1> QED BY <1>1 DEF Rewrites, Shape

\* Neither of them takes an invoice away.
LEMMA Growing ==
  ASSUME Shape, UNCHANGED <<day, req>>, (\E x : Adds(x)) \/ (\E d, st : Rewrites(d, st)) \/ inv' = inv
  PROVE  Grows
<1>1. Len(req) \in Nat /\ Len(inv) \in Nat
  BY DEF Shape
<1>2. CASE inv' = inv
  BY <1>1, <1>2 DEF Grows
<1>3. CASE \E x : Adds(x)
  BY <1>1, <1>3 DEF Grows, Adds
<1>4. ASSUME NEW d, NEW st, Rewrites(d, st)
      PROVE  Grows
  BY <1>1, <1>4 DEF Grows, Rewrites
<1> QED BY <1>2, <1>3, <1>4

LEMMA BillMoves ==
  ASSUME Shape, NEW a \in Actors, Knows(pc[a], my[a]), Bill(a)
  PROVE  /\ Moves(a) /\ UNCHANGED <<tenant, inv, req, event, paid>>
         /\ pc'[a] = "issue" /\ my'[a].back = None
<1> DEFINE m == [my[a] EXCEPT !.target = Len(inv)]
<1>1. /\ pc[a] = "bill" /\ my[a] \in Regs /\ my[a].sub \in Subs /\ my[a].back = None
      /\ Billable(my[a].sub.until) /\ Len(inv) \in Nat
  BY DEF Bill, At, Shape, Knows, HasSub, MustBill
<1>2. \A i \in DOMAIN inv : inv[i].period # my[a].sub.until
  <2>1. \A i \in DOMAIN inv : inv[i].type \in {"monthly", "failed"}
    BY Rowwise DEF Invoices
  <2> QED BY <1>1, <2>1 DEF Billable, Exists
<1>3. /\ m \in Regs /\ m.todo = my[a].todo /\ m.debt = my[a].debt /\ m.back = my[a].back
      /\ m.restrict = my[a].restrict /\ m.op = my[a].op /\ m.sub = my[a].sub /\ m.target = Len(inv)
  BY <1>1 DEF Regs
<1> HIDE DEF m
<1>4. Know(a, m) /\ Go(a, "issue") /\ "issue" \in Steps
  BY DEF Bill, Steps, m
<1>5. Others(a) /\ pc'[a] = "issue" /\ my'[a] = m
  BY <1>3, <1>4, Becoming
<1>6. Tables' /\ Reads /\ UNCHANGED <<tenant, inv, req, event, paid>>
  BY DEF Bill, Tables, Shape, Reads
<1>7. Knows(pc[a], my[a])'
  BY <1>1, <1>2, <1>3, <1>5, <1>6, NoNumber DEF Knows, HasSub, Reads
<1> QED BY <1>1, <1>3, <1>5, <1>6, <1>7, Reading DEF Moves

LEMMA IssueMoves ==
  ASSUME Shape, NEW a \in Actors, Knows(pc[a], my[a]), Issue(a)
  PROVE  /\ Moves(a) /\ UNCHANGED <<tenant, req, event>>
         /\ pc[a] = "issue" /\ pc'[a] = "retry" /\ my'[a].back = None
         /\ \/ UNCHANGED <<inv, paid>>
            \/ /\ \E x : Adds(x) /\ x.status = "issued" /\ x.type = "monthly" /\ x.period = my[a].sub.until
               /\ paid = None => paid' = None
               /\ paid' # None => \A i \in DOMAIN inv : inv[i].period # my[a].sub.until
<1> DEFINE m == [my[a] EXCEPT !.sub = None, !.target = None]
           x == NewInvoice(my[a].sub.until, "monthly", "issued", day)
<1>1. /\ pc[a] = "issue" /\ my[a] \in Regs /\ my[a].sub \in Subs /\ my[a].back = None /\ my[a].sub.until \in Nat
      /\ my[a].target \in 0..Len(inv)
  BY DEF Issue, At, Shape, Knows, HasSub, Subs
<1>2. /\ x \in Invoices /\ x.status = "issued" /\ x.type = "monthly" /\ x.period = my[a].sub.until
  BY <1>1, Bounds DEF NewInvoice, Invoices, Shape
<1>3. /\ m \in Regs /\ m.todo = my[a].todo /\ m.debt = my[a].debt /\ m.back = my[a].back
      /\ m.restrict = my[a].restrict /\ m.op = my[a].op
  BY <1>1 DEF Regs
<1>4. \/ UNCHANGED <<inv, paid>>
      \/ /\ ~Exists("monthly", my[a].sub.until) /\ Len(inv) # MaxInvoices
         /\ inv' = Append(inv, x)
         /\ Follow(paid, \E i \in my[a].target + 1..Len(inv) : inv[i].type = "failed" /\ inv[i].period = my[a].sub.until)
  BY DEF Issue
<1>5. Know(a, m) /\ Go(a, "retry") /\ "retry" \in Steps
  BY DEF Issue, Steps
<1> HIDE DEF m, x
<1>6. Others(a) /\ pc'[a] = "retry" /\ my'[a] = m
  BY <1>3, <1>5, Becoming
<1>7. \/ UNCHANGED <<inv, paid>>
      \/ /\ Adds(x) /\ inv' \in Seq(Invoices) /\ Len(inv') <= MaxInvoices
         /\ paid' = None \/ paid' \in [until : Nat, plan : Plans]
         /\ paid = None => paid' = None
         /\ paid' # None => \A i \in DOMAIN inv : inv[i].period # my[a].sub.until
  <2>1. CASE UNCHANGED <<inv, paid>>
    BY <2>1
  <2>2. CASE ~UNCHANGED <<inv, paid>>
    <3>1. Adds(x) /\ inv' \in Seq(Invoices) /\ Len(inv') <= MaxInvoices
      BY <1>2, <1>4, <2>2, Adding
    <3> DEFINE lost == \E i \in my[a].target + 1..Len(inv) : inv[i].type = "failed" /\ inv[i].period = my[a].sub.until
    <3>2. Follow(paid, lost) /\ ~Exists("monthly", my[a].sub.until)
      BY <1>4, <2>2
    <3>3. /\ paid' = None \/ paid' \in [until : Nat, plan : Plans]
          /\ paid = None => paid' = None
          /\ paid' # None => ~lost
      BY <3>2 DEF Follow, Shape
    <3>4. ASSUME NEW i \in DOMAIN inv, inv[i].period = my[a].sub.until
          PROVE  lost
      <4>1. i > my[a].target
        BY <1>1, <3>4 DEF Knows, Shape
      <4>2. inv[i] \in Invoices /\ inv[i].type # "monthly"
        BY <3>2, <3>4 DEF Exists, Shape
      <4>3. inv[i].type = "failed"
        BY <4>2 DEF Invoices
      <4>4. i \in my[a].target + 1..Len(inv)
        BY <1>1, <4>1 DEF Shape
      <4> QED BY <3>4, <4>3, <4>4
    <3> HIDE DEF lost
    <3> QED BY <3>1, <3>3, <3>4
  <2> QED BY <2>1, <2>2
<1>8. UNCHANGED <<day, tenant, sub, req, event, asked, faults>>
  BY DEF Issue
<1>9. Tables'
  BY <1>7, <1>8 DEF Tables, Shape
<1>a. Grows
  BY <1>7, <1>8, Growing
<1>b. Len(inv) \in Nat /\ DOMAIN inv = 1..Len(inv) /\ DOMAIN inv \subseteq DOMAIN inv'
  BY <1>7 DEF Adds, Shape
<1>c. Knows(pc[a], my[a])'
  BY <1>1, <1>3, <1>6, <1>8, <1>b, NoNumber DEF Knows, HasSub
<1> QED BY <1>1, <1>2, <1>3, <1>6, <1>7, <1>8, <1>9, <1>a, <1>c DEF Moves

LEMMA ReadDebtMoves ==
  ASSUME Shape, NEW a \in Actors, Knows(pc[a], my[a]), ReadDebt(a)
  PROVE  /\ Moves(a) /\ UNCHANGED <<tenant, inv, req, event>>
         /\ paid = None => paid' = None
         /\ my'[a].back = None
         /\ \/ pc'[a] = "idle" /\ UNCHANGED paid
            \/ /\ pc'[a] = "charge" /\ my'[a].debt \in DOMAIN inv /\ inv[my'[a].debt].status # "paid"
               /\ paid' # None => \A b \in Actors \ {a} : ~Busy(b)
<1>1. /\ pc[a] \in {"retry", "bill"} /\ my[a] \in Regs /\ my[a].back = None /\ sub \in Subs /\ my[a].op # "delete"
  BY DEF ReadDebt, At, Shape, Knows
<1>2. UNCHANGED <<day, tenant, sub, inv, req, event, asked, faults>>
  BY DEF ReadDebt
<1>3. CASE tenant.open /\ Retryable(Debt)
  <2>1. Debt # None
    BY <1>3 DEF Retryable
  <2>2. Debt \in DOMAIN inv /\ inv[Debt].status \in {"issued", "payment_failed"}
    BY <2>1, Queries DEF Shape
  <2>3. PICK d \in DOMAIN inv : d = Debt
    BY <2>2
  <2>4. d \in Nat /\ inv[d].status # "paid" /\ inv[d].status \in {"issued", "payment_failed"}
    BY <2>2, <2>3 DEF Shape
  <2> DEFINE m == [my[a] EXCEPT !.sub = sub, !.debt = d, !.status = inv[d].status]
  <2>5. /\ m \in Regs /\ m.todo = my[a].todo /\ m.debt = d /\ m.back = my[a].back
        /\ m.restrict = my[a].restrict /\ m.op = my[a].op /\ m.sub = sub
    BY <1>1, <2>4 DEF Regs
  <2>6. Know(a, m) /\ Go(a, "charge") /\ "charge" \in Steps
    BY <1>3, <2>3 DEF ReadDebt, Steps
  <2> HIDE DEF m
  <2>7. Others(a) /\ pc'[a] = "charge" /\ my'[a] = m
    BY <2>5, <2>6, Becoming
  <2> DEFINE lost == \E b \in Actors \ {a} : Paying(b) \/ Unbooked(b)
  <2>8. Follow(paid, lost)
    BY <1>3 DEF ReadDebt, Overlap
  <2>9. /\ paid' = None \/ paid' \in [until : Nat, plan : Plans]
        /\ paid = None => paid' = None
        /\ paid' # None => ~lost
    BY <2>8 DEF Follow, Shape
  <2>a. paid' # None => \A b \in Actors \ {a} : ~Busy(b)
    BY <2>9 DEF Busy
  <2> HIDE DEF lost
  <2>b. Tables' /\ Reads
    BY <1>2, <2>9 DEF Tables, Shape, Reads
  <2>c. Knows(pc[a], my[a])'
    BY <1>1, <1>2, <2>5, <2>7, NoNumber DEF Knows, HasSub
  <2> QED BY <1>1, <1>2, <2>4, <2>5, <2>7, <2>9, <2>a, <2>b, <2>c, Reading DEF Moves
<1>4. CASE ~(tenant.open /\ Retryable(Debt))
  <2>1. Done(a) /\ UNCHANGED paid
    BY <1>4 DEF ReadDebt
  <2>2. Tables' /\ Reads
    BY <1>2, <2>1 DEF Tables, Shape, Reads
  <2> QED BY <1>2, <2>1, <2>2, Finishing, NothingFacts, Reading DEF Moves
<1> QED BY <1>3, <1>4

LEMMA ChargeMoves ==
  ASSUME Shape, NEW a \in Actors, Knows(pc[a], my[a]), Charge(a)
  PROVE  /\ Moves(a) /\ UNCHANGED <<tenant, inv, req, event>>
         /\ paid = None => paid' = None
         /\ pc[a] = "charge" /\ pc'[a] \in {"complete", "book", "decline"} /\ KeepsDebt(a)
<1>1. /\ pc[a] = "charge" /\ my[a] \in Regs /\ my[a].sub \in Subs
  BY DEF Charge, At, Shape, Knows, HasSub
<1>2. UNCHANGED <<day, tenant, sub, inv, req, event, my, asked>>
  BY DEF Charge
<1>3. PICK p \in {"complete", "book", "decline"} : Go(a, p) /\ (p = "book" => my[a].debt # None)
  BY DEF Charge
<1>4. p \in Steps
  BY DEF Steps
<1>5. Others(a) /\ pc'[a] = p /\ my'[a] = my[a]
  BY <1>2, <1>3, <1>4, Going
<1>6. faults' = faults \/ (faults < MaxFaults /\ faults' = faults + 1)
  BY DEF Charge
<1>7. faults' \in 0..MaxFaults
  BY <1>6, Bounds DEF Shape
<1>8. Follow([paid EXCEPT !.until = @ + Cycle], FALSE) \/ UNCHANGED paid \/ paid' = None
  BY DEF Charge
<1>9. paid # None => [paid EXCEPT !.until = @ + Cycle] \in [until : Nat, plan : Plans]
  <2> SUFFICES ASSUME paid # None PROVE [paid EXCEPT !.until = @ + Cycle] \in [until : Nat, plan : Plans]
    OBVIOUS
  <2>1. paid \in [until : Nat, plan : Plans] /\ paid.until + Cycle \in Nat
    BY Bounds DEF Shape
  <2> QED BY <2>1
<1>a. /\ paid' = None \/ paid' \in [until : Nat, plan : Plans]
      /\ paid = None => paid' = None
  BY <1>8, <1>9, Following DEF Shape
<1>b. Tables' /\ Reads
  BY <1>2, <1>7, <1>a DEF Tables, Shape, Reads
<1>c. Knows(pc[a], my[a])'
  BY <1>1, <1>2, <1>3, <1>5 DEF Knows, HasSub
<1> QED BY <1>1, <1>2, <1>3, <1>5, <1>a, <1>b, <1>c, Reading DEF Moves, KeepsDebt

LEMMA BookMoves ==
  ASSUME Shape, NEW a \in Actors, Knows(pc[a], my[a]), Book(a)
  PROVE  /\ Moves(a) /\ UNCHANGED <<tenant, req, event>>
         /\ pc[a] = "book" /\ my[a].debt \in DOMAIN inv
         /\ \/ /\ pc'[a] = "extend" /\ KeepsDebt(a) /\ my[a].back = None /\ Rewrites(my[a].debt, "paid")
               /\ UNCHANGED paid
            \/ pc'[a] = "idle" /\ my'[a].back = None /\ UNCHANGED inv /\ paid' = None
<1>1. /\ pc[a] = "book" /\ my[a] \in Regs /\ my[a].sub \in Subs /\ my[a].debt \in DOMAIN inv /\ my[a].back = None
  BY DEF Book, At, Shape, Knows, HasSub
<1>2. UNCHANGED <<day, tenant, sub, req, event, asked, faults>>
  BY DEF Book
<1>3. CASE MayBecome(my[a].debt, "monthly")
  <2>1. PICK d \in DOMAIN inv : d = my[a].debt
    BY <1>1
  <2> DEFINE x == [inv[d] EXCEPT !.status = "paid", !.type = "monthly"]
  <2>2. inv[d] \in Invoices
    BY Rowwise
  <2>3. x \in Invoices /\ x.status = "paid" /\ x.period = inv[d].period
    BY <2>2 DEF Invoices
  <2>4. inv' = [inv EXCEPT ![d] = x]
    BY <1>3, <2>1, <2>2 DEF Book, Invoices, Shape
  <2>5. Go(a, "extend") /\ UNCHANGED <<my, paid>> /\ "extend" \in Steps
    BY <1>3 DEF Book, Steps
  <2> HIDE DEF x
  <2>6. Rewrites(d, "paid") /\ inv' \in Seq(Invoices) /\ Len(inv') <= MaxInvoices
    BY <2>3, <2>4, Rewriting
  <2>7. Others(a) /\ pc'[a] = "extend" /\ my'[a] = my[a]
    BY <2>5, Going
  <2>8. Tables' /\ Grows
    BY <1>2, <2>5, <2>6, Growing DEF Tables, Shape
  <2>9. Knows(pc[a], my[a])'
    BY <1>1, <1>2, <2>6, <2>7, NoNumber DEF Knows, HasSub, Rewrites
  <2> QED BY <1>1, <1>2, <2>1, <2>5, <2>6, <2>7, <2>8, <2>9 DEF Moves, KeepsDebt
<1>4. CASE ~MayBecome(my[a].debt, "monthly")
  <2>1. Done(a) /\ UNCHANGED inv /\ paid' = None
    BY <1>4 DEF Book
  <2>2. Tables' /\ Reads
    BY <1>2, <2>1 DEF Tables, Shape, Reads
  <2> QED BY <1>1, <1>2, <2>1, <2>2, Finishing, NothingFacts, Reading DEF Moves
<1> QED BY <1>3, <1>4

LEMMA CompleteMoves ==
  ASSUME Shape, NEW a \in Actors, Knows(pc[a], my[a]), Complete(a)
  PROVE  /\ Moves(a) /\ UNCHANGED <<tenant, req, event>>
         /\ paid = None => paid' = None
         /\ pc[a] = "complete" /\ my'[a].back = None
         /\ \/ /\ pc'[a] = "book" /\ UNCHANGED <<inv, paid>>
               /\ my'[a].debt \in DOMAIN inv /\ inv[my'[a].debt].status # "paid"
            \/ /\ pc'[a] = "extend" /\ my'[a].debt = my[a].debt
               /\ inv' = inv \/ \E x : Adds(x) /\ x.status = "paid"
<1>1. /\ pc[a] = "complete" /\ my[a] \in Regs /\ my[a].sub \in Subs /\ my[a].back = None /\ my[a].sub.until \in Nat
  BY DEF Complete, At, Shape, Knows, HasSub, Subs
<1>2. UNCHANGED <<day, tenant, sub, req, event, asked, faults>>
  BY DEF Complete
<1>3. CASE OpenRequest # None
  <2>1. OpenRequest \in DOMAIN inv /\ inv[OpenRequest].status = "issued"
    BY <1>3, Queries DEF Shape
  <2>2. PICK d \in DOMAIN inv : d = OpenRequest
    BY <2>1
  <2>3. d \in Nat
    BY Rowwise
  <2> DEFINE m == [my[a] EXCEPT !.debt = d]
  <2>4. /\ m \in Regs /\ m.todo = my[a].todo /\ m.debt = d /\ m.back = my[a].back
        /\ m.restrict = my[a].restrict /\ m.op = my[a].op /\ m.sub = my[a].sub
    BY <1>1, <2>3 DEF Regs
  <2>5. Know(a, m) /\ Go(a, "book") /\ "book" \in Steps /\ UNCHANGED <<inv, paid>>
    BY <1>3, <2>2 DEF Complete, Steps
  <2> HIDE DEF m
  <2>6. Others(a) /\ pc'[a] = "book" /\ my'[a] = m
    BY <2>4, <2>5, Becoming
  <2>7. Tables' /\ Reads
    BY <1>2, <2>5 DEF Tables, Shape, Reads
  <2>8. d # None
    BY <2>3, NoNumber
  <2>9. Knows(pc[a], my[a])'
    BY <1>1, <1>2, <2>4, <2>5, <2>6, <2>8, NoNumber DEF Knows, HasSub
  <2> QED BY <1>1, <1>2, <2>1, <2>2, <2>4, <2>5, <2>6, <2>7, <2>9, Reading DEF Moves
<1>4. CASE OpenRequest = None
  <2>1. FailedUnpaid # None => FailedUnpaid \in DOMAIN inv
    BY Queries DEF Shape
  <2>2. PICK key : key = IF FailedUnpaid # None THEN inv[FailedUnpaid].period ELSE my[a].sub.until
    OBVIOUS
  <2>3. key \in Nat
    BY <1>1, <2>1, <2>2, Rowwise
  <2> DEFINE x == NewInvoice(key, "monthly", "paid", day)
  <2>4. x \in Invoices /\ x.status = "paid"
    BY <2>3, Bounds DEF NewInvoice, Invoices, Shape
  <2>5. /\ inv' = inv \/ (Len(inv) # MaxInvoices /\ inv' = Append(inv, x))
        /\ Go(a, "extend") /\ UNCHANGED my /\ DebtAppeared /\ "extend" \in Steps
    BY <1>4, <2>2 DEF Complete, Steps
  <2> HIDE DEF x
  <2>6. inv' = inv \/ Adds(x)
    BY <2>4, <2>5, Adding
  <2>7. inv' \in Seq(Invoices) /\ Len(inv') <= MaxInvoices
    BY <2>4, <2>5, Adding DEF Shape
  <2>8. Others(a) /\ pc'[a] = "extend" /\ my'[a] = my[a]
    BY <2>5, Going
  <2>9. /\ paid' = None \/ paid' \in [until : Nat, plan : Plans]
        /\ paid = None => paid' = None
    BY <2>5 DEF DebtAppeared, Follow, Shape
  <2>a. Tables' /\ Grows
    BY <1>2, <2>6, <2>7, <2>9, Growing DEF Tables, Shape
  <2>b. DOMAIN inv \subseteq DOMAIN inv'
    BY <2>6 DEF Adds
  <2>c. Knows(pc[a], my[a])'
    BY <1>1, <1>2, <2>8, <2>b, NoNumber DEF Knows, HasSub
  <2> QED BY <1>1, <1>2, <2>4, <2>6, <2>8, <2>9, <2>a, <2>c DEF Moves
<1> QED BY <1>3, <1>4

LEMMA ExtendMoves ==
  ASSUME Shape, NEW a \in Actors, Knows(pc[a], my[a]), Extend(a)
  PROVE  /\ Moves(a) /\ UNCHANGED <<tenant, inv, req, event>>
         /\ paid = None => paid' = None
         /\ pc'[a] = "reopen" /\ my'[a].back = None
<1> DEFINE m == [my[a] EXCEPT !.sub = None]
           s == Extended(my[a].sub)
<1>1. /\ pc[a] = "extend" /\ my[a] \in Regs /\ my[a].sub \in Subs /\ my[a].back = None
  BY DEF Extend, At, Shape, Knows, HasSub
<1>2. my[a].sub.until + Cycle \in Nat
  BY <1>1, Bounds DEF Subs
<1>3. s \in Subs
  BY <1>1, <1>2 DEF Subs, Extended, Statuses
<1>4. /\ m \in Regs /\ m.todo = my[a].todo /\ m.debt = my[a].debt /\ m.back = my[a].back
      /\ m.restrict = my[a].restrict /\ m.op = my[a].op
  BY <1>1 DEF Regs
<1>5. Know(a, m) /\ Go(a, "reopen") /\ "reopen" \in Steps /\ Upsert(a, s, paid)
  BY DEF Extend, Steps
<1> HIDE DEF m, s
<1>6. Others(a) /\ pc'[a] = "reopen" /\ my'[a] = m
  BY <1>4, <1>5, Becoming
<1>7. UNCHANGED <<day, tenant, inv, req, event, asked, faults>>
  BY DEF Extend
<1>8. /\ sub' \in Subs
      /\ paid' = None \/ paid' \in [until : Nat, plan : Plans]
      /\ paid = None => paid' = None
  BY <1>3, <1>5, Upserting DEF Shape
<1>9. Tables' /\ Reads
  BY <1>3, <1>5, <1>7, Upserting DEF Tables, Shape, Reads
<1>a. Knows(pc[a], my[a])'
  BY <1>1, <1>4, <1>6, <1>7, NoNumber DEF Knows, HasSub
<1> QED BY <1>1, <1>4, <1>6, <1>7, <1>8, <1>9, <1>a, Reading DEF Moves

LEMMA ReopenMoves ==
  ASSUME Shape, NEW a \in Actors, Knows(pc[a], my[a]), Reopen(a)
  PROVE  /\ Moves(a) /\ UNCHANGED <<inv, req, event, paid>> /\ tenant'.schema = tenant.schema
         /\ pc'[a] \in {"idle", "sync"} /\ my'[a].back = None
<1>1. /\ pc[a] = "reopen" /\ my[a] \in Regs /\ my[a].back = None /\ sub \in Subs
  BY DEF Reopen, At, Shape, Knows, HasSub
<1>2. UNCHANGED <<day, sub, inv, req, event, asked, faults, paid>>
  BY DEF Reopen
<1>3. tenant' \in [row : BOOLEAN, open : BOOLEAN, schema : BOOLEAN] /\ tenant'.schema = tenant.schema
  BY DEF Reopen, Shape
<1>4. Tables' /\ Reads
  BY <1>2, <1>3 DEF Tables, Shape, Reads
<1>5. CASE my[a].debt = None
  <2>1. Done(a)
    BY <1>5 DEF Reopen
  <2> QED BY <1>2, <1>3, <1>4, <2>1, Finishing, NothingFacts, Reading DEF Moves
<1>6. CASE my[a].debt # None
  <2> DEFINE m == [my[a] EXCEPT !.sub = sub, !.debt = None, !.status = None]
  <2>1. /\ m \in Regs /\ m.todo = my[a].todo /\ m.debt = None /\ m.back = my[a].back
        /\ m.restrict = my[a].restrict /\ m.op = my[a].op /\ m.sub = sub
    BY <1>1 DEF Regs
  <2> HIDE DEF m
  <2>2. Know(a, m) /\ Go(a, "sync") /\ "sync" \in Steps
    BY <1>6 DEF Reopen, Steps, m
  <2>3. Others(a) /\ pc'[a] = "sync" /\ my'[a] = m
    BY <2>1, <2>2, Becoming
  <2>4. Knows(pc[a], my[a])'
    BY <1>1, <1>2, <2>1, <2>3, NoNumber DEF Knows, HasSub
  <2> QED BY <1>1, <1>2, <1>3, <1>4, <2>1, <2>3, <2>4, Reading DEF Moves
<1> QED BY <1>5, <1>6

LEMMA DeclineAdvanceMoves ==
  ASSUME Shape, NEW a \in Actors, Knows(pc[a], my[a]), DeclineAdvance(a)
  PROVE  /\ Moves(a) /\ UNCHANGED <<tenant, req, event>>
         /\ paid = None => paid' = None
         /\ pc[a] = "decline" /\ pc'[a] = "idle" /\ my'[a].back = None
         /\ paid' # None => Debt = None
         /\ inv' = inv \/ \E x : Adds(x) /\ x.status = "payment_failed"
<1>1. /\ pc[a] = "decline" /\ my[a] \in Regs /\ my[a].sub \in Subs /\ my[a].sub.until \in Nat
  BY DEF DeclineAdvance, At, Shape, Knows, HasSub, Subs
<1>2. UNCHANGED <<day, tenant, sub, req, event, asked, faults>> /\ Done(a) /\ DebtAppeared
  BY DEF DeclineAdvance
<1>3. FailedUnpaid # None => FailedUnpaid \in DOMAIN inv
  BY Queries DEF Shape
<1>4. PICK due : due = IF FailedUnpaid # None THEN inv[FailedUnpaid].due ELSE my[a].sub.until
  OBVIOUS
<1>5. due \in Nat
  BY <1>1, <1>3, <1>4, Rowwise
<1> DEFINE x == NewInvoice(my[a].sub.until, "failed", "payment_failed", due)
<1>6. x \in Invoices /\ x.status = "payment_failed"
  BY <1>1, <1>5 DEF NewInvoice, Invoices
<1>7. inv' = inv \/ (Len(inv) # MaxInvoices /\ inv' = Append(inv, x))
  BY <1>4 DEF DeclineAdvance
<1> HIDE DEF x
<1>8. inv' = inv \/ Adds(x)
  BY <1>6, <1>7, Adding
<1>9. inv' \in Seq(Invoices) /\ Len(inv') <= MaxInvoices
  BY <1>6, <1>7, Adding DEF Shape
<1>a. /\ paid' = None \/ paid' \in [until : Nat, plan : Plans]
      /\ paid = None => paid' = None
      /\ paid' # None => Debt = None
  BY <1>2 DEF DebtAppeared, Follow, Shape
<1>b. Tables' /\ Grows
  BY <1>2, <1>8, <1>9, <1>a, Growing DEF Tables, Shape
<1> QED BY <1>1, <1>2, <1>6, <1>8, <1>a, <1>b, Finishing, NothingFacts DEF Moves

LEMMA DeclineSettleMoves ==
  ASSUME Shape, NEW a \in Actors, Knows(pc[a], my[a]), DeclineSettle(a)
  PROVE  /\ Moves(a) /\ UNCHANGED <<tenant, req, event, paid>>
         /\ pc[a] = "decline" /\ my[a].debt # None /\ pc'[a] = "sync" /\ my'[a].back = None
         /\ Rewrites(my[a].debt, "payment_failed")
<1>1. /\ pc[a] = "decline" /\ my[a] \in Regs /\ my[a].sub \in Subs /\ my[a].debt # None /\ my[a].debt \in DOMAIN inv
      /\ my[a].back = None
  BY DEF DeclineSettle, At, Shape, Knows, HasSub
<1>2. UNCHANGED <<day, tenant, sub, req, event, asked, faults, paid>>
  BY DEF DeclineSettle
<1>3. PICK d \in DOMAIN inv : d = my[a].debt
  BY <1>1
<1>4. PICK type \in {"monthly", "failed"} :
        inv' = [inv EXCEPT ![d] = [inv[d] EXCEPT !.status = "payment_failed", !.type = type]]
  <2>1. inv[d] \in Invoices /\ inv[d].type \in {"monthly", "failed"}
    BY Rowwise DEF Invoices
  <2>2. inv' = [inv EXCEPT ![d].status = "payment_failed",
                  ![d].type = IF Exists("failed", inv[d].period) THEN @ ELSE "failed"]
    BY <1>3 DEF DeclineSettle
  <2>3. CASE Exists("failed", inv[d].period)
    <3>1. inv' = [inv EXCEPT ![d] = [inv[d] EXCEPT !.status = "payment_failed", !.type = inv[d].type]]
      BY <2>1, <2>2, <2>3 DEF Invoices, Shape
    <3> QED BY <2>1, <3>1
  <2>4. CASE ~Exists("failed", inv[d].period)
    <3>1. inv' = [inv EXCEPT ![d] = [inv[d] EXCEPT !.status = "payment_failed", !.type = "failed"]]
      BY <2>1, <2>2, <2>4 DEF Invoices, Shape
    <3> QED BY <3>1
  <2> QED BY <2>3, <2>4
<1> DEFINE x == [inv[d] EXCEPT !.status = "payment_failed", !.type = type]
           m == [my[a] EXCEPT !.debt = None, !.status = None]
<1>5. x \in Invoices /\ x.status = "payment_failed" /\ x.period = inv[d].period
  BY Rowwise DEF Invoices
<1>6. /\ m \in Regs /\ m.todo = my[a].todo /\ m.debt = None /\ m.back = my[a].back
      /\ m.restrict = my[a].restrict /\ m.op = my[a].op /\ m.sub = my[a].sub
  BY <1>1 DEF Regs
<1>7. Know(a, m) /\ Go(a, "sync") /\ "sync" \in Steps
  BY DEF DeclineSettle, Steps
<1> HIDE DEF m, x
<1>8. Rewrites(d, "payment_failed") /\ inv' \in Seq(Invoices) /\ Len(inv') <= MaxInvoices
  <2>1. inv' = [inv EXCEPT ![d] = x]
    BY <1>4 DEF x
  <2> QED BY <1>5, <2>1, Rewriting
<1>9. Others(a) /\ pc'[a] = "sync" /\ my'[a] = m
  BY <1>6, <1>7, Becoming
<1>a. Tables' /\ Grows
  BY <1>2, <1>8, Growing DEF Tables, Shape
<1>b. Knows(pc[a], my[a])'
  BY <1>1, <1>2, <1>6, <1>8, <1>9, NoNumber DEF Knows, HasSub, Rewrites
<1> QED BY <1>1, <1>2, <1>3, <1>6, <1>8, <1>9, <1>a, <1>b DEF Moves

LEMMA DeclineRetryMoves ==
  ASSUME Shape, NEW a \in Actors, Knows(pc[a], my[a]), DeclineRetry(a)
  PROVE  /\ Moves(a) /\ UNCHANGED <<tenant, req, event, paid>>
         /\ pc[a] = "decline" /\ my[a].debt # None /\ my[a].debt \in DOMAIN inv
         /\ \/ pc'[a] = "meta" /\ UNCHANGED inv /\ KeepsDebt(a)
            \/ /\ pc'[a] = "sync" /\ my'[a].back = "meta" /\ my'[a].debt = my[a].debt
               /\ Rewrites(my[a].debt, "payment_failed")
            \/ pc'[a] = "idle" /\ my'[a].back = None /\ UNCHANGED inv
<1>1. /\ pc[a] = "decline" /\ my[a] \in Regs /\ my[a].sub \in Subs /\ my[a].debt # None /\ my[a].debt \in DOMAIN inv
      /\ my[a].back = None /\ my[a].op # "delete" /\ ~my[a].restrict
  BY DEF DeclineRetry, At, Shape, Knows, HasSub
<1>2. UNCHANGED <<day, tenant, sub, req, event, asked, faults, paid>>
  BY DEF DeclineRetry
<1>3. PICK d \in DOMAIN inv : d = my[a].debt
  BY <1>1
<1>4. \/ my[a].status = "payment_failed" /\ Go(a, "meta") /\ UNCHANGED <<inv, my>>
      \/ /\ my[a].status = "issued"
         /\ inv' = [inv EXCEPT ![d].status = "payment_failed", ![d].type = "failed"]
         /\ Know(a, [my[a] EXCEPT !.status = "payment_failed", !.back = "meta"])
         /\ Go(a, "sync")
      \/ Done(a) /\ UNCHANGED inv
  <2>1. CASE my[a].status = "payment_failed"
    BY <2>1 DEF DeclineRetry
  <2>2. CASE my[a].status = "issued" /\ MayBecome(my[a].debt, "failed")
    BY <1>3, <2>2 DEF DeclineRetry
  <2>3. CASE my[a].status # "payment_failed" /\ ~(my[a].status = "issued" /\ MayBecome(my[a].debt, "failed"))
    BY <2>3 DEF DeclineRetry
  <2> QED BY <2>1, <2>2, <2>3
<1>5. CASE my[a].status = "payment_failed" /\ Go(a, "meta") /\ UNCHANGED <<inv, my>>
  <2>1. "meta" \in Steps
    BY DEF Steps
  <2>2. Others(a) /\ pc'[a] = "meta" /\ my'[a] = my[a]
    BY <1>5, <2>1, Going
  <2>3. Tables' /\ Reads
    BY <1>2, <1>5 DEF Tables, Shape, Reads
  <2>4. Knows(pc[a], my[a])'
    BY <1>1, <1>2, <1>5, <2>2, NoNumber DEF Knows, HasSub
  <2> QED BY <1>1, <1>2, <1>5, <2>2, <2>3, <2>4, Reading DEF Moves, KeepsDebt
<1>6. CASE /\ my[a].status = "issued"
           /\ inv' = [inv EXCEPT ![d].status = "payment_failed", ![d].type = "failed"]
           /\ Know(a, [my[a] EXCEPT !.status = "payment_failed", !.back = "meta"])
           /\ Go(a, "sync")
  <2> DEFINE x == [inv[d] EXCEPT !.status = "payment_failed", !.type = "failed"]
             m == [my[a] EXCEPT !.status = "payment_failed", !.back = "meta"]
  <2>1. x \in Invoices /\ x.status = "payment_failed" /\ x.period = inv[d].period
    BY Rowwise DEF Invoices
  <2>2. inv' = [inv EXCEPT ![d] = x]
    BY <1>6, Rowwise DEF Invoices, Shape
  <2>3. /\ m \in Regs /\ m.todo = my[a].todo /\ m.debt = my[a].debt /\ m.back = "meta" /\ m.status = "payment_failed"
        /\ m.restrict = my[a].restrict /\ m.op = my[a].op /\ m.sub = my[a].sub
    BY <1>1 DEF Regs
  <2>4. Know(a, m) /\ Go(a, "sync") /\ "sync" \in Steps
    BY <1>6 DEF Steps
  <2> HIDE DEF m, x
  <2>5. Rewrites(d, "payment_failed") /\ inv' \in Seq(Invoices) /\ Len(inv') <= MaxInvoices
    BY <2>1, <2>2, Rewriting
  <2>6. Others(a) /\ pc'[a] = "sync" /\ my'[a] = m
    BY <2>3, <2>4, Becoming
  <2>7. Tables' /\ Grows
    BY <1>2, <2>5, Growing DEF Tables, Shape
  <2>8. Knows(pc[a], my[a])'
    BY <1>1, <1>2, <2>3, <2>5, <2>6, NoNumber DEF Knows, HasSub, Rewrites
  <2> QED BY <1>1, <1>2, <1>3, <2>3, <2>5, <2>6, <2>7, <2>8 DEF Moves
<1>7. CASE Done(a) /\ UNCHANGED inv
  <2>1. Tables' /\ Reads
    BY <1>2, <1>7 DEF Tables, Shape, Reads
  <2> QED BY <1>1, <1>2, <1>7, <2>1, Finishing, NothingFacts, Reading DEF Moves
<1> QED BY <1>4, <1>5, <1>6, <1>7

LEMMA MetaMoves ==
  ASSUME Shape, NEW a \in Actors, Knows(pc[a], my[a]), Meta(a)
  PROVE  /\ Moves(a) /\ UNCHANGED <<tenant, req, event, paid>>
         /\ pc[a] = "meta" /\ my[a].debt # None /\ pc'[a] = "idle" /\ my'[a].back = None
         /\ Rewrites(my[a].debt, "payment_failed")
<1>1. /\ pc[a] = "meta" /\ my[a] \in Regs /\ my[a].debt # None /\ my[a].debt \in DOMAIN inv
      /\ my[a].status = "payment_failed"
  BY DEF Meta, At, Shape, Knows, HasSub
<1>2. UNCHANGED <<day, tenant, sub, req, event, asked, faults, paid>> /\ Done(a)
  BY DEF Meta
<1>3. PICK d \in DOMAIN inv : d = my[a].debt
  BY <1>1
<1> DEFINE x == [inv[d] EXCEPT !.status = "payment_failed", !.retried = day]
<1>4. day \in Days
  BY Bounds DEF Shape, Days
<1>5. x \in Invoices /\ x.status = "payment_failed" /\ x.period = inv[d].period
  BY <1>4, Rowwise DEF Invoices
<1>6. inv' = [inv EXCEPT ![d] = x]
  BY <1>1, <1>3, Rowwise DEF Meta, Invoices, Shape
<1> HIDE DEF x
<1>7. Rewrites(d, "payment_failed") /\ inv' \in Seq(Invoices) /\ Len(inv') <= MaxInvoices
  BY <1>5, <1>6, Rewriting
<1>8. Tables' /\ Grows
  BY <1>2, <1>7, Growing DEF Tables, Shape
<1> QED BY <1>1, <1>2, <1>3, <1>7, <1>8, Finishing, NothingFacts DEF Moves

-----------------------------------------------------------------------------
(* Requests, and what ends an operation early.                               *)

LEMMA AskSettleMoves ==
  ASSUME Shape, NEW a \in Actors, AskSettle(a)
  PROVE  /\ Moves(a) /\ UNCHANGED <<tenant, inv, req, event>>
         /\ paid = None => paid' = None
         /\ pc'[a] = "charge" /\ my'[a].back = None
         /\ my'[a].debt # None => my'[a].debt \in DOMAIN inv /\ inv[my'[a].debt].status # "paid"
         /\ paid' # None => \A b \in Actors \ {a} : ~Busy(b)
<1>1. sub \in Subs
  BY DEF Shape
<1>2. UNCHANGED <<day, tenant, sub, inv, req, event, faults>> /\ asked < MaxRequests /\ asked' = asked + 1
  BY DEF AskSettle, Ask
<1>3. PICK d : d = Debt
  OBVIOUS
<1>4. PICK st : st = IF d = None THEN None ELSE inv[d].status
  OBVIOUS
<1>5. /\ d \in Nat \cup {None} /\ st \in {None, "issued", "payment_failed"}
      /\ d # None => d \in DOMAIN inv /\ inv[d].status # "paid"
  BY <1>3, <1>4, Queries, Rowwise DEF Shape
<1> DEFINE n == [Nothing EXCEPT !.sub = sub, !.debt = d, !.status = st]
           m == [n EXCEPT !.op = "settle", !.open = tenant.open]
<1>6. tenant.open \in BOOLEAN
  BY DEF Shape
<1>7. n \in Regs /\ n.sub = sub /\ n.debt = d /\ n.back = None /\ n.restrict = FALSE /\ n.todo = {}
  BY <1>1, <1>5 DEF Nothing, Regs
<1>8. /\ Know(a, m) /\ Go(a, "charge") /\ "charge" \in Steps
  BY <1>3, <1>4 DEF AskSettle, Ask, Steps
<1> HIDE DEF n
<1>9. /\ m \in Regs /\ m.todo = {} /\ m.debt = d /\ m.back = None /\ m.restrict = FALSE /\ m.op = "settle" /\ m.sub = sub
  BY <1>6, <1>7 DEF Regs
<1> HIDE DEF m
<1>a. Others(a) /\ pc'[a] = "charge" /\ my'[a] = m
  BY <1>8, <1>9, Becoming
<1> DEFINE lost == \E b \in Actors \ {a} : Paying(b) \/ Unbooked(b)
<1>b. Follow(paid, lost)
  BY DEF AskSettle, Overlap
<1>c. /\ paid' = None \/ paid' \in [until : Nat, plan : Plans]
      /\ paid = None => paid' = None
      /\ paid' # None => ~lost
  BY <1>b DEF Follow, Shape
<1>d. paid' # None => \A b \in Actors \ {a} : ~Busy(b)
  BY <1>c DEF Busy
<1> HIDE DEF lost
<1>e. asked' \in 0..MaxRequests
  BY <1>2, Bounds DEF Shape
<1>f. Tables' /\ Reads
  BY <1>2, <1>c, <1>e DEF Tables, Shape, Reads
<1>g. Knows(pc[a], my[a])'
  BY <1>1, <1>2, <1>5, <1>9, <1>a, NoNumber DEF Knows, HasSub
<1> QED BY <1>2, <1>5, <1>9, <1>a, <1>c, <1>d, <1>f, <1>g, Reading DEF Moves

\* What the other requests of the owner begin with.
LEMMA Asking ==
  ASSUME Shape, NEW a \in Actors, NEW op \in {"cancel", "restore", "delete"}, NEW n \in Regs, NEW p \in Steps,
         Ask(a, op, n, p), UNCHANGED <<day, tenant, sub, inv, req, event, faults, paid>>
  PROVE  /\ Tables' /\ Others(a) /\ Grows /\ pc'[a] = p
         /\ my'[a].op = op /\ my'[a].sub = n.sub /\ my'[a].debt = n.debt /\ my'[a].status = n.status
         /\ my'[a].todo = n.todo /\ my'[a].target = n.target /\ my'[a].restrict = n.restrict /\ my'[a].back = n.back
<1> DEFINE m == [n EXCEPT !.op = op, !.open = tenant.open]
<1>1. tenant.open \in BOOLEAN
  BY DEF Shape
<1>2. /\ m \in Regs /\ m.todo = n.todo /\ m.debt = n.debt /\ m.back = n.back /\ m.restrict = n.restrict
      /\ m.op = op /\ m.sub = n.sub /\ m.target = n.target /\ m.status = n.status
  BY <1>1 DEF Regs
<1>3. Know(a, m) /\ Go(a, p) /\ asked < MaxRequests /\ asked' = asked + 1
  BY DEF Ask
<1> HIDE DEF m
<1>4. Others(a) /\ pc'[a] = p /\ my'[a] = m
  BY <1>2, <1>3, Becoming
<1>5. asked' \in 0..MaxRequests
  BY <1>3, Bounds DEF Shape
<1>6. Tables' /\ Reads
  BY <1>5 DEF Tables, Shape, Reads
<1> QED BY <1>2, <1>4, <1>6, Reading

LEMMA AskCancelMoves ==
  ASSUME Shape, NEW a \in Actors, AskCancel(a)
  PROVE  /\ Moves(a) /\ UNCHANGED <<tenant, inv, req, event, paid>>
         /\ Len(req) < MaxCancels /\ \A b \in Actors : pc[b] # "cancel"
         /\ pc'[a] = "cancel" /\ my'[a].back = None
<1> DEFINE n == [Nothing EXCEPT !.sub = sub]
<1>1. n \in Regs /\ n.sub = sub /\ n.sub \in Subs /\ n.debt = None /\ n.back = None /\ n.restrict = FALSE /\ n.todo = {}
  BY DEF Nothing, Regs, Shape
<1>2. /\ Ask(a, "cancel", n, "cancel") /\ "cancel" \in Steps
      /\ UNCHANGED <<day, tenant, sub, inv, req, event, faults, paid>>
  BY DEF AskCancel, Steps
<1>3. Len(req) < MaxCancels /\ \A b \in Actors : pc[b] # "cancel"
  BY DEF AskCancel
<1> HIDE DEF n
<1>4. /\ Tables' /\ Others(a) /\ Grows /\ pc'[a] = "cancel"
      /\ my'[a].op = "cancel" /\ my'[a].sub = n.sub /\ my'[a].debt = n.debt
      /\ my'[a].todo = n.todo /\ my'[a].restrict = n.restrict /\ my'[a].back = n.back
  BY <1>1, <1>2, Asking
<1>5. Knows(pc[a], my[a])'
  BY <1>1, <1>2, <1>4, NoNumber DEF Knows, HasSub
<1> QED BY <1>1, <1>2, <1>3, <1>4, <1>5 DEF Moves

LEMMA AskRestoreMoves ==
  ASSUME Shape, NEW a \in Actors, AskRestore(a)
  PROVE  /\ Moves(a) /\ UNCHANGED <<tenant, inv, req, event, paid>>
         /\ pc'[a] = "restore" /\ my'[a].back = None
<1>1. /\ Ask(a, "restore", Nothing, "restore") /\ "restore" \in Steps
      /\ UNCHANGED <<day, tenant, sub, inv, req, event, faults, paid>>
  BY DEF AskRestore, Steps
<1>2. /\ Tables' /\ Others(a) /\ Grows /\ pc'[a] = "restore"
      /\ my'[a].op = "restore" /\ my'[a].debt = Nothing.debt
      /\ my'[a].todo = Nothing.todo /\ my'[a].restrict = Nothing.restrict /\ my'[a].back = Nothing.back
  BY <1>1, NothingFacts, Asking
<1>3. Knows(pc[a], my[a])'
  BY <1>1, <1>2, NothingFacts, NoNumber DEF Knows, HasSub
<1> QED BY <1>1, <1>2, <1>3, NothingFacts DEF Moves

LEMMA AskDeleteMoves ==
  ASSUME Shape, NEW a \in Actors, AskDelete(a)
  PROVE  /\ Moves(a) /\ UNCHANGED <<tenant, inv, req, event, paid>>
         /\ pc'[a] = "shut" /\ my'[a].back = None
<1>1. LastRequest \in DOMAIN req
  BY RequestQueries DEF AskDelete, Cancelled, Shape
<1>2. PICK l \in DOMAIN req : l = LastRequest
  BY <1>1
<1> DEFINE n == [Nothing EXCEPT !.target = l]
<1>3. l \in Nat
  BY DEF Shape
<1>4. n \in Regs /\ n.target = l /\ n.debt = None /\ n.back = None /\ n.restrict = FALSE /\ n.todo = {}
  BY <1>3 DEF Nothing, Regs
<1>5. /\ Ask(a, "delete", n, "shut") /\ "shut" \in Steps
      /\ UNCHANGED <<day, tenant, sub, inv, req, event, faults, paid>>
  BY <1>2 DEF AskDelete, Steps
<1> HIDE DEF n
<1>6. /\ Tables' /\ Others(a) /\ Grows /\ pc'[a] = "shut"
      /\ my'[a].op = "delete" /\ my'[a].target = n.target /\ my'[a].debt = n.debt
      /\ my'[a].todo = n.todo /\ my'[a].restrict = n.restrict /\ my'[a].back = n.back
  BY <1>4, <1>5, Asking
<1>7. Knows(pc[a], my[a])'
  BY <1>4, <1>5, <1>6, NoNumber DEF Knows, HasSub
<1> QED BY <1>4, <1>5, <1>6, <1>7 DEF Moves

LEMMA CancelMoves ==
  ASSUME Shape, Room, NEW a \in Actors, Knows(pc[a], my[a]), Cancel(a)
  PROVE  /\ Moves(a) /\ UNCHANGED <<tenant, inv, event, paid>>
         /\ pc[a] = "cancel" /\ pc'[a] = "idle" /\ my'[a].back = None
         /\ Len(req') = Len(req) + 1 /\ \A i \in DOMAIN req : req'[i] = req[i]
         /\ req'[Len(req) + 1].deactivated = None
<1> DEFINE q == [status |-> "requested", effective |-> my[a].sub.until + 1, deactivated |-> None, byOwner |-> FALSE]
<1>1. /\ pc[a] = "cancel" /\ my[a].sub \in Subs /\ my[a].sub.until \in Nat /\ Len(req) \in Nat /\ Len(req) < MaxCancels
      /\ req' = Append(req, q)
  BY DEF Cancel, At, Shape, Knows, HasSub, Subs, Room
<1>2. q \in Requests /\ q.deactivated = None
  BY <1>1 DEF Requests
<1> HIDE DEF q
<1>3. /\ req' \in Seq(Requests) /\ Len(req') = Len(req) + 1 /\ req'[Len(req) + 1] = q
      /\ \A i \in DOMAIN req : req'[i] = req[i]
  BY <1>1, <1>2, AppendProperties DEF Shape
<1>4. UNCHANGED <<day, tenant, sub, inv, event, asked, faults, paid>> /\ Done(a)
  BY DEF Cancel
<1>5. Tables' /\ Grows
  BY <1>1, <1>3, <1>4, Bounds DEF Tables, Shape, Grows
<1> QED BY <1>1, <1>2, <1>3, <1>4, <1>5, Finishing, NothingFacts DEF Moves

\* A request is taken back.
LEMMA Restoring ==
  ASSUME Shape, NEW l \in DOMAIN req, NEW st \in {"renewal_restored", "restored"}, req' = [req EXCEPT ![l].status = st]
  PROVE  /\ req' \in Seq(Requests) /\ Len(req') = Len(req) /\ DOMAIN req' = DOMAIN req
         /\ \A i \in DOMAIN req : /\ req'[i].effective = req[i].effective /\ req'[i].deactivated = req[i].deactivated
                                  /\ req'[i].byOwner = req[i].byOwner
<1> DEFINE q == [req[l] EXCEPT !.status = st]
<1>1. req[l] \in Requests
  BY DEF Shape
<1>2. q \in Requests /\ q.effective = req[l].effective /\ q.deactivated = req[l].deactivated /\ q.byOwner = req[l].byOwner
  BY <1>1 DEF Requests
<1>3. req' = [req EXCEPT ![l] = q]
  BY <1>1 DEF Shape
<1> HIDE DEF q
<1>4. /\ req' \in Seq(Requests) /\ Len(req') = Len(req) /\ DOMAIN req' = DOMAIN req
      /\ \A i \in DOMAIN req : req'[i] = IF i = l THEN q ELSE req[i]
  <2>1. req \in Seq(Requests)
    BY DEF Shape
  <2>2. /\ [req EXCEPT ![l] = q] \in Seq(Requests) /\ Len([req EXCEPT ![l] = q]) = Len(req)
        /\ \A i \in 1..Len(req) : [req EXCEPT ![l] = q][i] = IF i = l THEN q ELSE req[i]
    BY <1>2, <2>1, ExceptSeq
  <2> QED BY <1>3, <2>1, <2>2
<1> QED BY <1>2, <1>4

LEMMA RestoreMoves ==
  ASSUME Shape, NEW a \in Actors, Restore(a)
  PROVE  /\ Moves(a) /\ UNCHANGED <<tenant, inv, event, paid>>
         /\ pc'[a] = "idle" /\ my'[a].back = None /\ Len(req') = Len(req)
         /\ \A i \in DOMAIN req : req'[i].effective = req[i].effective /\ req'[i].deactivated = req[i].deactivated
                                  /\ req'[i].byOwner = req[i].byOwner
<1> DEFINE l == Latest({i \in DOMAIN req : req[i].status = "requested"})
<1>1. req' = req \/ (l # None /\ req' = [req EXCEPT ![l].status = "renewal_restored"])
  BY DEF Restore
<1>2. l # None => l \in DOMAIN req
  BY RequestQueries DEF Shape
<1> HIDE DEF l
<1>3. /\ req' \in Seq(Requests) /\ Len(req') = Len(req)
      /\ \A i \in DOMAIN req : req'[i].effective = req[i].effective /\ req'[i].deactivated = req[i].deactivated
                               /\ req'[i].byOwner = req[i].byOwner
  BY <1>1, <1>2, Restoring DEF Shape
<1>4. UNCHANGED <<day, tenant, sub, inv, event, asked, faults, paid>> /\ Done(a)
  BY DEF Restore
<1>5. Tables' /\ Grows
  BY <1>3, <1>4 DEF Tables, Shape, Grows
<1> QED BY <1>3, <1>4, <1>5, Finishing, NothingFacts DEF Moves

LEMMA DeliverMoves ==
  ASSUME Shape, NEW a \in Actors, Deliver(a)
  PROVE  /\ Moves(a) /\ UNCHANGED <<tenant, inv, req>>
         /\ paid = None => paid' = None
         /\ ~event.recorded /\ event'.recorded /\ event'.applied = event.applied
         /\ pc'[a] = "upgrade" /\ my'[a].back = None /\ my'[a].debt = None
         /\ paid' # None => \A b \in Actors \ {a} : ~Busy(b)
<1> DEFINE m == [Nothing EXCEPT !.op = "webhook"]
<1>1. m \in Regs /\ m.op = "webhook" /\ m.debt = None /\ m.back = None /\ m.restrict = FALSE /\ m.todo = {}
  BY DEF Nothing, Regs
<1>2. Know(a, m) /\ Go(a, "upgrade") /\ "upgrade" \in Steps
  BY DEF Deliver, Steps
<1> HIDE DEF m
<1>3. Others(a) /\ pc'[a] = "upgrade" /\ my'[a] = m
  BY <1>1, <1>2, Becoming
<1>4. /\ UNCHANGED <<day, tenant, sub, inv, req, faults>> /\ asked < MaxRequests /\ asked' = asked + 1
      /\ event' = [event EXCEPT !.recorded = TRUE] /\ ~event.recorded
  BY DEF Deliver, Fresh
<1>5. event' \in [recorded : BOOLEAN, applied : 0..1] /\ event'.recorded /\ event'.applied = event.applied
  BY <1>4 DEF Shape
<1> DEFINE lost == \E b \in Actors \ {a} : Paying(b) \/ Unbooked(b)
           p == [paid EXCEPT !.plan = "pro"]
<1>6. Follow(p, lost)
  BY DEF Deliver, Overlap
<1>7. paid # None => p \in [until : Nat, plan : Plans]
  BY DEF Shape, Plans
<1> HIDE DEF p
<1>8. /\ paid' = None \/ paid' \in [until : Nat, plan : Plans]
      /\ paid = None => paid' = None
      /\ paid' # None => ~lost
  BY <1>6, <1>7, Following
<1>9. paid' # None => \A b \in Actors \ {a} : ~Busy(b)
  BY <1>8 DEF Busy
<1> HIDE DEF lost
<1>a. asked' \in 0..MaxRequests
  BY <1>4, Bounds DEF Shape
<1>b. Tables' /\ Reads
  BY <1>4, <1>5, <1>8, <1>a DEF Tables, Shape, Reads
<1>c. Knows(pc[a], my[a])'
  BY <1>1, <1>3, <1>4, NoNumber DEF Knows, HasSub
<1> QED BY <1>1, <1>3, <1>4, <1>5, <1>8, <1>9, <1>b, <1>c, Reading DEF Moves

LEMMA ReadUpgradeMoves ==
  ASSUME Shape, NEW a \in Actors, Knows(pc[a], my[a]), ReadUpgrade(a)
  PROVE  /\ Moves(a) /\ UNCHANGED <<tenant, inv, req, event, paid>>
         /\ pc[a] = "upgrade" /\ pc'[a] = "apply" /\ KeepsDebt(a)
<1> DEFINE m == [my[a] EXCEPT !.sub = sub, !.target = day + Cycle]
<1>1. /\ pc[a] = "upgrade" /\ my[a] \in Regs /\ sub \in Subs
  BY DEF ReadUpgrade, At, Shape, Knows, HasSub
<1>2. day + Cycle \in Nat
  BY Bounds DEF Shape
<1>3. /\ m \in Regs /\ m.todo = my[a].todo /\ m.debt = my[a].debt /\ m.back = my[a].back
      /\ m.restrict = my[a].restrict /\ m.op = my[a].op /\ m.sub = sub /\ m.target \in Nat /\ m.status = my[a].status
  BY <1>1, <1>2 DEF Regs
<1>4. Know(a, m) /\ Go(a, "apply") /\ "apply" \in Steps
  BY DEF ReadUpgrade, Steps
<1> HIDE DEF m
<1>5. Others(a) /\ pc'[a] = "apply" /\ my'[a] = m
  BY <1>3, <1>4, Becoming
<1>6. Tables' /\ Reads /\ UNCHANGED <<tenant, inv, req, event, paid>>
  BY DEF ReadUpgrade, Tables, Shape, Reads
<1>7. Knows(pc[a], my[a])'
  BY <1>1, <1>3, <1>5, <1>6, NoNumber DEF Knows, HasSub, Reads
<1> QED BY <1>1, <1>3, <1>5, <1>6, <1>7, Reading DEF Moves, KeepsDebt

LEMMA ApplyUpgradeMoves ==
  ASSUME Shape, Once, NEW a \in Actors, Knows(pc[a], my[a]), ApplyUpgrade(a)
  PROVE  /\ Moves(a) /\ UNCHANGED <<tenant, inv, req>>
         /\ paid = None => paid' = None
         /\ event'.recorded = event.recorded
         /\ pc[a] = "apply" /\ pc'[a] = "idle" /\ my'[a].back = None
<1> DEFINE s == [my[a].sub EXCEPT !.until = my[a].target, !.status = "active", !.plan = "pro"]
           p == [paid EXCEPT !.until = my[a].target]
<1>1. /\ pc[a] = "apply" /\ my[a] \in Regs /\ my[a].sub \in Subs /\ my[a].target \in Nat /\ event.applied = 0
  BY DEF ApplyUpgrade, At, Shape, Knows, HasSub, Once
<1>2. s \in Subs
  BY <1>1 DEF Subs, Statuses, Plans
<1>3. paid # None => p \in [until : Nat, plan : Plans]
  BY <1>1 DEF Shape
<1>4. Upsert(a, s, p)
  BY DEF ApplyUpgrade
<1> HIDE DEF s, p
<1>5. /\ sub' \in Subs
      /\ paid = None => paid' = None
      /\ paid' = None \/ paid' \in [until : Nat, plan : Plans]
  BY <1>2, <1>3, <1>4, Upserting
<1>6. /\ UNCHANGED <<day, tenant, inv, req, asked, faults>> /\ Done(a)
      /\ event' = [event EXCEPT !.applied = @ + 1]
  BY DEF ApplyUpgrade
<1>7. event' \in [recorded : BOOLEAN, applied : 0..1] /\ event'.recorded = event.recorded
  <2>1. event.applied + 1 = 1 /\ event \in [recorded : BOOLEAN, applied : 0..1]
    BY <1>1 DEF Shape
  <2>2. event' = [event EXCEPT !.applied = 1]
    BY <1>6, <2>1
  <2> QED BY <2>1, <2>2
<1>8. Tables' /\ Reads
  BY <1>5, <1>6, <1>7 DEF Tables, Shape, Reads
<1> QED BY <1>1, <1>5, <1>6, <1>7, <1>8, Finishing, NothingFacts, Reading DEF Moves

LEMMA CrashMoves ==
  ASSUME Shape, NEW a \in Actors, Crash(a)
  PROVE  /\ Moves(a) /\ UNCHANGED <<tenant, inv, req, event>>
         /\ paid = None => paid' = None
         /\ pc'[a] \in {"idle", "retry"} /\ my'[a].back = None
<1>1. /\ UNCHANGED <<day, tenant, sub, inv, req, event, asked>> /\ Follow(paid, Unbooked(a))
      /\ faults < MaxFaults /\ faults' = faults + 1
  BY DEF Crash
<1>2. faults' \in 0..MaxFaults
  BY <1>1, Bounds DEF Shape
<1>3. /\ paid' = None \/ paid' \in [until : Nat, plan : Plans]
      /\ paid = None => paid' = None
  BY <1>1, Following DEF Shape
<1>4. Tables' /\ Reads
  BY <1>1, <1>2, <1>3 DEF Tables, Shape, Reads
<1>5. CASE Done(a)
  BY <1>1, <1>3, <1>4, <1>5, Finishing, NothingFacts, Reading DEF Moves
<1>6. CASE ~Done(a)
  <2> DEFINE m == [Nothing EXCEPT !.op = "cycle"]
  <2>1. m \in Regs /\ m.op = "cycle" /\ m.debt = None /\ m.back = None /\ m.restrict = FALSE /\ m.todo = {}
    BY DEF Nothing, Regs
  <2>2. Know(a, m) /\ Go(a, "retry") /\ "retry" \in Steps
    BY <1>6 DEF Crash, Steps
  <2> HIDE DEF m
  <2>3. Others(a) /\ pc'[a] = "retry" /\ my'[a] = m
    BY <2>1, <2>2, Becoming
  <2>4. Knows(pc[a], my[a])'
    BY <1>1, <2>1, <2>3, NoNumber DEF Knows, HasSub
  <2> QED BY <1>1, <1>3, <1>4, <2>1, <2>3, <2>4, Reading DEF Moves
<1> QED BY <1>5, <1>6

LEMMA VanishedMoves ==
  ASSUME Shape, NEW a \in Actors, Vanished(a)
  PROVE  /\ Moves(a) /\ UNCHANGED <<tenant, inv, req, event, paid>>
         /\ pc'[a] = "idle" /\ my'[a].back = None
<1>1. UNCHANGED <<day, tenant, sub, inv, req, event, asked, faults, paid>> /\ Done(a)
  BY DEF Vanished
<1>2. Tables' /\ Reads
  BY <1>1 DEF Tables, Shape, Reads
<1> QED BY <1>1, <1>2, Finishing, NothingFacts, Reading DEF Moves

-----------------------------------------------------------------------------
(* What every step of an operation has in common.                            *)

Acts(a) == StartCycle(a) \/ Step(a) \/ Request(a) \/ Crash(a)

\* Who writes requests, the event and the schema, and who comes to the steps
\* that are entered once.
LEMMA ActMoves ==
  ASSUME TypeInv, Room, Once, NEW a \in Actors, Acts(a)
  PROVE  /\ Moves(a)
         /\ UNCHANGED req \/ Mark(a) \/ Cancel(a) \/ Restore(a)
         /\ tenant'.schema = tenant.schema \/ DropSchema(a)
         /\ UNCHANGED event \/ Deliver(a) \/ ApplyUpgrade(a)
         /\ pc'[a] = "cancel" => AskCancel(a)
         /\ pc'[a] \in {"upgrade", "apply"} => Deliver(a) \/ ReadUpgrade(a)
<1>1. Shape /\ Knows(pc[a], my[a])
  BY DEF TypeInv
<1>2. CASE StartCycle(a) \/ Lifecycle(a) \/ ReadTenant(a)
  BY <1>1, <1>2, StartCycleMoves, PassRowMoves, CloseLapsedMoves, MarkMoves, DropSchemaMoves, EraseMoves,
     ReadTenantMoves DEF Lifecycle
<1>3. CASE Sync(a) \/ Bill(a) \/ Issue(a)
  BY <1>1, <1>3, SyncCancellationMoves, ShutMoves, JudgeMoves, StatusMoves, BillMoves, IssueMoves DEF Sync
<1>4. CASE Payment(a)
  BY <1>1, <1>4, ReadDebtMoves, ChargeMoves, BookMoves, CompleteMoves, ExtendMoves, ReopenMoves, DeclineAdvanceMoves,
     DeclineSettleMoves, DeclineRetryMoves, MetaMoves DEF Payment
<1>5. CASE Cancel(a) \/ Restore(a) \/ ReadUpgrade(a) \/ ApplyUpgrade(a) \/ Vanished(a) \/ Crash(a)
  BY <1>1, <1>5, CancelMoves, RestoreMoves, ReadUpgradeMoves, ApplyUpgradeMoves, VanishedMoves, CrashMoves
<1>6. CASE Request(a)
  BY <1>1, <1>6, AskSettleMoves, AskCancelMoves, AskRestoreMoves, AskDeleteMoves, DeliverMoves DEF Request
<1> QED BY <1>2, <1>3, <1>4, <1>5, <1>6 DEF Acts, Step

\* Most steps write no invoice, and do not begin a payment.
Quietly(a) ==
  /\ UNCHANGED inv
  /\ paid = None => paid' = None
  /\ Busy(a)' => Busy(a)
  /\ Owing(a)' => Owing(a) /\ my'[a].debt = my[a].debt

\* A payment begins with reading the debt.
Begins(a) ==
  /\ UNCHANGED inv
  /\ paid = None => paid' = None
  /\ paid' # None => \A b \in Actors \ {a} : ~Busy(b)
  /\ Owing(a)' => my'[a].debt \in DOMAIN inv /\ inv[my'[a].debt].status # "paid"

\* The steps that write invoices.
Writes(a) == Issue(a) \/ Book(a) \/ Complete(a) \/ DeclineAdvance(a) \/ DeclineSettle(a) \/ DeclineRetry(a) \/ Meta(a)

LEMMA Kinds ==
  ASSUME TypeInv, Room, Once, NEW a \in Actors, Acts(a)
  PROVE  Quietly(a) \/ Begins(a) \/ Writes(a)
<1>1. Shape /\ Knows(pc[a], my[a]) /\ my[a] \in Regs
  BY DEF TypeInv, Shape
<1>2. CASE StartCycle(a) \/ PassRow(a) \/ CloseLapsed(a) \/ DropSchema(a) \/ Erase(a) \/ ReadTenant(a)
  <2>1. UNCHANGED <<inv, paid>> /\ my'[a].back # "meta" /\ pc'[a] \in {"idle", "lifecycle", "mark", "erase", "sync"}
    BY <1>1, <1>2, StartCycleMoves, PassRowMoves, CloseLapsedMoves, DropSchemaMoves, EraseMoves, ReadTenantMoves, NoNumber
  <2> QED BY <2>1 DEF Quietly, Busy, Paying, Unbooked, Owing
<1>3. CASE Mark(a)
  <2>1. /\ UNCHANGED <<inv, paid>> /\ pc'[a] \in {"idle", "judge", "lifecycle"}
        /\ my'[a].back = "meta" => my[a].back = "meta" /\ my'[a].debt = my[a].debt
    BY <1>1, <1>3, MarkMoves
  <2> QED BY <2>1 DEF Quietly, Busy, Paying, Unbooked, Owing
<1>4. CASE SyncCancellation(a) \/ Shut(a) \/ Judge(a)
  <2>1. UNCHANGED <<inv, paid>> /\ KeepsDebt(a) /\ pc'[a] \in {"shut", "mark", "status"}
    BY <1>1, <1>4, SyncCancellationMoves, ShutMoves, JudgeMoves
  <2> QED BY <2>1 DEF Quietly, Busy, Paying, Unbooked, Owing, KeepsDebt
<1>5. CASE Status(a)
  BY <1>1, <1>5, StatusMoves DEF Quietly, Busy, Paying, Unbooked, Owing, KeepsDebt
<1>6. CASE Bill(a) \/ Extend(a) \/ Reopen(a) \/ Cancel(a) \/ Restore(a) \/ Vanished(a) \/ ApplyUpgrade(a) \/ Crash(a)
  <2>1. /\ UNCHANGED inv /\ my'[a].back # "meta"
        /\ paid = None => paid' = None
        /\ pc'[a] \in {"issue", "reopen", "sync", "idle", "retry"}
    BY <1>1, <1>6, BillMoves, ExtendMoves, ReopenMoves, CancelMoves, RestoreMoves, VanishedMoves, ApplyUpgradeMoves,
       CrashMoves, NoNumber
  <2> QED BY <2>1 DEF Quietly, Busy, Paying, Unbooked, Owing
<1>7. CASE AskCancel(a) \/ AskRestore(a) \/ AskDelete(a)
  <2>1. UNCHANGED <<inv, paid>> /\ my'[a].back # "meta" /\ pc'[a] \in {"cancel", "restore", "shut"}
    BY <1>1, <1>7, AskCancelMoves, AskRestoreMoves, AskDeleteMoves, NoNumber
  <2> QED BY <2>1 DEF Quietly, Busy, Paying, Unbooked, Owing
<1>8. CASE Charge(a) \/ ReadUpgrade(a)
  BY <1>1, <1>8, ChargeMoves, ReadUpgradeMoves DEF Quietly, Busy, Paying, Unbooked, Owing, KeepsDebt
<1>9. CASE ReadDebt(a)
  BY <1>1, <1>9, ReadDebtMoves, NoNumber DEF Quietly, Begins, Busy, Paying, Unbooked, Owing
<1>a. CASE AskSettle(a)
  BY <1>1, <1>a, AskSettleMoves, NoNumber DEF Begins, Owing
<1>b. CASE Deliver(a)
  BY <1>1, <1>b, DeliverMoves, NoNumber DEF Begins, Owing
<1> QED BY <1>2, <1>3, <1>4, <1>5, <1>6, <1>7, <1>8, <1>9, <1>a, <1>b
        DEF Acts, Step, Lifecycle, Sync, Payment, Request, Writes

-----------------------------------------------------------------------------
(* Each part of the invariant is kept.                                       *)

\* Between the operations: a new day, the administrator, or nothing.
LEMMA NextDayMoves ==
  ASSUME TypeInv, NextDay
  PROVE  /\ TypeInv' /\ day' = day + 1 /\ day \in Nat
         /\ UNCHANGED <<tenant, inv, req, event, paid, pc, my>>
<1>1. day < MaxDay /\ day' = day + 1 /\ UNCHANGED <<tenant, sub, inv, req, event, pc, my, asked, faults, paid>>
  BY DEF NextDay
<1>2. day' \in 0..MaxDay /\ day \in Nat
  BY <1>1, Bounds DEF TypeInv, Shape
<1>3. Shape'
  BY <1>1, <1>2 DEF TypeInv, Shape
<1>4. ASSUME NEW a \in Actors
      PROVE  Knows(pc[a], my[a])'
  <2>1. Knows(pc[a], my[a])
    BY DEF TypeInv
  <2>2. pc[a] = "idle"
    BY DEF NextDay, Quiet
  <2> QED BY <1>1, <2>1, <2>2 DEF Knows
<1> QED BY <1>1, <1>2, <1>3, <1>4 DEF TypeInv

LEMMA AdminRestoreMoves ==
  ASSUME TypeInv, AdminRestore
  PROVE  /\ TypeInv' /\ UNCHANGED <<day, inv, event, paid, pc, my>> /\ tenant'.schema = tenant.schema
         /\ Len(req') = Len(req) /\ DOMAIN req' = DOMAIN req
         /\ \A i \in DOMAIN req : /\ req'[i].effective = req[i].effective /\ req'[i].deactivated = req[i].deactivated
                                  /\ req'[i].byOwner = req[i].byOwner
<1>1. /\ UNCHANGED <<day, sub, inv, event, pc, my, faults, paid>> /\ asked < MaxRequests /\ asked' = asked + 1
      /\ tenant' = [tenant EXCEPT !.open = TRUE] /\ req' = [req EXCEPT ![LastRequest].status = "restored"]
      /\ LastRequest # None
  BY DEF AdminRestore, Cancelled
<1>2. Shape /\ LastRequest \in DOMAIN req
  BY <1>1, RequestQueries DEF TypeInv, Shape
<1>3. /\ req' \in Seq(Requests) /\ Len(req') = Len(req) /\ DOMAIN req' = DOMAIN req
      /\ \A i \in DOMAIN req : /\ req'[i].effective = req[i].effective /\ req'[i].deactivated = req[i].deactivated
                               /\ req'[i].byOwner = req[i].byOwner
  BY <1>1, <1>2, Restoring
<1>4. asked' \in 0..MaxRequests
  BY <1>1, <1>2, Bounds DEF Shape
<1>5. tenant' \in [row : BOOLEAN, open : BOOLEAN, schema : BOOLEAN] /\ tenant'.schema = tenant.schema
  BY <1>1, <1>2 DEF Shape
<1>6. Shape'
  BY <1>1, <1>2, <1>3, <1>4, <1>5 DEF Shape
<1>7. Grows
  BY <1>1, <1>2, <1>3 DEF Grows, Shape
<1>8. \A a \in Actors : Knows(pc[a], my[a])'
  BY <1>1, <1>2, <1>6, <1>7, OthersKnow DEF TypeInv
<1> QED BY <1>1, <1>3, <1>5, <1>6, <1>8 DEF TypeInv

\* What the next step is.
LEMMA NextSteps ==
  ASSUME [Next]_vars
  PROVE  (\E a \in Actors : Acts(a)) \/ AdminRestore \/ NextDay \/ UNCHANGED vars
BY DEF Next, Acts

LEMMA ActTypes ==
  ASSUME TypeInv, NEW a \in Actors, Moves(a)
  PROVE  TypeInv'
<1>1. Shape /\ Shape'
  BY DEF TypeInv, Moves, Tables, Others, Shape
<1>2. ASSUME NEW b \in Actors
      PROVE  Knows(pc[b], my[b])'
  <2>1. CASE b = a
    BY <2>1 DEF Moves
  <2>2. CASE b # a
    <3>1. pc'[b] = pc[b] /\ my'[b] = my[b] /\ Grows /\ Knows(pc[b], my[b])
      BY <2>2 DEF Moves, Others, TypeInv
    <3> QED BY <1>1, <3>1, OthersKnow
  <2> QED BY <2>1, <2>2
<1> QED BY <1>1, <1>2 DEF TypeInv

LEMMA TypeStep ==
  ASSUME TypeInv, Room, Once, [Next]_vars
  PROVE  TypeInv'
<1>1. ASSUME NEW a \in Actors, Acts(a)
      PROVE  TypeInv'
  BY <1>1, ActMoves, ActTypes
<1>2. CASE UNCHANGED vars
  BY <1>2 DEF vars, TypeInv, Shape, Knows
<1> QED BY <1>1, <1>2, NextSteps, AdminRestoreMoves, NextDayMoves

\* What a step leaves of a request, and a request is closed in time.
LEMMA WaitsStep ==
  ASSUME TypeInv, Room, Once, Waits, [Next]_vars
  PROVE  Waits'
<1>1. /\ Shape /\ day \in Nat /\ Grace \in Nat
      /\ \A i \in DOMAIN req : /\ req[i].deactivated = None \/ req[i].deactivated \in Nat
                               /\ req[i].effective \in Nat
  <2>1. Shape /\ \A i \in DOMAIN req : req[i] \in Requests
    BY DEF TypeInv, Shape
  <2>2. Days \subseteq Nat
    BY Bounds DEF Days
  <2>3. \A i \in DOMAIN req : req[i].deactivated \in Days \cup {None} /\ req[i].effective \in Nat
    BY <2>1 DEF Requests
  <2>4. day \in Nat /\ Grace \in Nat
    BY <2>1, Bounds DEF Shape
  <2> QED BY <2>1, <2>2, <2>3, <2>4
<1>2. ASSUME NEW a \in Actors, Acts(a)
      PROVE  Waits'
  <2>1. day' = day /\ Knows(pc[a], my[a])
    BY <1>2, ActMoves DEF Moves, Grows, TypeInv
  <2>2. CASE UNCHANGED req
    BY <2>1, <2>2 DEF Waits
  <2>3. CASE Mark(a)
    <3>1. /\ pc[a] = "mark" /\ my[a].target \in DOMAIN req /\ Len(req') = Len(req)
          /\ \A i \in DOMAIN req : req'[i] = req[i] \/
               /\ i = my[a].target /\ req[i].deactivated = None
               /\ req'[i].deactivated = day /\ req'[i].effective = req[i].effective
               /\ req'[i].byOwner = (my[a].op = "delete")
      BY <1>1, <2>1, <2>3, MarkMoves
    <3>2. my[a].op # "delete" => req[my[a].target].effective + Grace <= day
      BY <2>1, <3>1 DEF Knows
    <3>3. DOMAIN req' = DOMAIN req
      <4>1. req \in Seq(Requests) /\ req' \in Seq(Requests)
        BY <1>2, ActMoves DEF Moves, Tables, TypeInv, Shape
      <4> QED BY <3>1, <4>1
    <3>4. ASSUME NEW i \in DOMAIN req, req'[i].deactivated # None
          PROVE  /\ req'[i].deactivated <= day
                 /\ req'[i].byOwner \/ req'[i].effective + Grace <= req'[i].deactivated
      <4>1. CASE req'[i] = req[i]
        BY <3>4, <4>1 DEF Waits
      <4>2. CASE req'[i] # req[i]
        <5>1. /\ i = my[a].target /\ req'[i].deactivated = day /\ req'[i].effective = req[i].effective
              /\ req'[i].byOwner = (my[a].op = "delete")
          BY <3>1, <4>2
        <5>2. req'[i].byOwner \/ req[i].effective + Grace <= day
          BY <3>2, <5>1
        <5> QED BY <1>1, <5>1, <5>2
      <4> QED BY <4>1, <4>2
    <3> QED BY <2>1, <3>3, <3>4 DEF Waits
  <2>4. CASE Cancel(a)
    <3>1. /\ Len(req') = Len(req) + 1 /\ \A i \in DOMAIN req : req'[i] = req[i]
          /\ req'[Len(req) + 1].deactivated = None
      BY <1>1, <2>1, <2>4, CancelMoves
    <3>2. DOMAIN req = 1..Len(req) /\ DOMAIN req' = 1..Len(req') /\ Len(req) \in Nat
      BY <1>2, ActMoves DEF Moves, Tables, TypeInv, Shape
    <3>3. \A i \in DOMAIN req' : i \in DOMAIN req \/ i = Len(req) + 1
      BY <3>1, <3>2
    <3> QED BY <2>1, <3>1, <3>3 DEF Waits
  <2>5. CASE Restore(a)
    <3>1. /\ Len(req') = Len(req)
          /\ \A i \in DOMAIN req : req'[i].effective = req[i].effective /\ req'[i].deactivated = req[i].deactivated
                                   /\ req'[i].byOwner = req[i].byOwner
      BY <1>1, <2>5, RestoreMoves
    <3>2. DOMAIN req = 1..Len(req) /\ DOMAIN req' = 1..Len(req')
      BY <1>2, ActMoves DEF Moves, Tables, TypeInv, Shape
    <3> QED BY <2>1, <3>1, <3>2 DEF Waits
  <2> QED BY <1>2, <2>2, <2>3, <2>4, <2>5, ActMoves
<1>3. CASE AdminRestore
  BY <1>3, AdminRestoreMoves DEF Waits
<1>4. CASE NextDay
  BY <1>1, <1>4, NextDayMoves DEF Waits
<1>5. CASE UNCHANGED vars
  BY <1>5 DEF vars, Waits
<1> QED BY <1>2, <1>3, <1>4, <1>5, NextSteps

LEMMA DropStep ==
  ASSUME TypeInv, Room, Once, Waits, NoEarlyDrop, [Next]_vars
  PROVE  NoEarlyDrop'
<1>1. /\ DOMAIN req = 1..Len(req) /\ Len(req) \in Nat /\ day \in Nat /\ Grace \in Nat
      /\ \A i \in DOMAIN req : req[i].deactivated = None \/ req[i].deactivated \in Nat
  <2>1. req \in Seq(Requests) /\ day \in Nat /\ Days \subseteq Nat
    BY Bounds DEF TypeInv, Shape, Days
  <2>2. \A i \in DOMAIN req : req[i] \in Requests
    BY <2>1
  <2>3. \A i \in DOMAIN req : req[i].deactivated \in Days \cup {None}
    BY <2>2 DEF Requests
  <2>4. DOMAIN req = 1..Len(req) /\ Len(req) \in Nat
    BY <2>1
  <2>5. \A i \in DOMAIN req : req[i].deactivated = None \/ req[i].deactivated \in Nat
    BY <2>1, <2>3
  <2> QED BY <2>1, <2>4, <2>5, Bounds
<1>2. ASSUME NEW a \in Actors, Acts(a)
      PROVE  NoEarlyDrop'
  <2>1. Grows /\ Tables'
    BY <1>2, ActMoves DEF Moves
  <2>2. DOMAIN req \subseteq DOMAIN req'
    <3>1. req' \in Seq(Requests) /\ Len(req) <= Len(req')
      BY <2>1 DEF Tables, Grows
    <3> QED BY <1>1, <3>1
  <2>3. CASE tenant'.schema = tenant.schema
    <3>1. CASE tenant.schema
      BY <2>3, <3>1 DEF NoEarlyDrop
    <3>2. CASE ~tenant.schema
      <4>1. PICK i \in DOMAIN req : /\ req[i].deactivated # None /\ req[i].deactivated + Grace <= day
                                    /\ req[i].byOwner \/ req[i].effective + Grace <= req[i].deactivated
        BY <3>2 DEF NoEarlyDrop
      <4>2. /\ i \in DOMAIN req' /\ day' = day /\ req'[i].deactivated = req[i].deactivated
            /\ req'[i].effective = req[i].effective /\ req'[i].byOwner = req[i].byOwner
        BY <2>1, <2>2, <4>1 DEF Grows
      <4> QED BY <4>1, <4>2 DEF NoEarlyDrop
    <3> QED BY <3>1, <3>2
  <2>4. CASE DropSchema(a)
    <3>1. Shape /\ Knows(pc[a], my[a])
      BY DEF TypeInv
    <3>2. /\ UNCHANGED req /\ day' = day
          /\ \E i \in DOMAIN req : req[i].deactivated # None /\ req[i].deactivated + Grace <= day
      BY <2>1, <2>4, <3>1, DropSchemaMoves DEF Grows
    <3> QED BY <3>2 DEF NoEarlyDrop, Waits
  <2> QED BY <1>2, <2>3, <2>4, ActMoves
<1>3. CASE AdminRestore
  BY <1>3, AdminRestoreMoves DEF NoEarlyDrop
<1>4. CASE NextDay
  <2>1. day' = day + 1 /\ UNCHANGED <<tenant, req>>
    BY <1>4, NextDayMoves
  <2>2. \A i \in DOMAIN req : req[i].deactivated # None /\ req[i].deactivated + Grace <= day
          => req[i].deactivated + Grace <= day'
    BY <1>1, <2>1
  <2> QED BY <2>1, <2>2 DEF NoEarlyDrop
<1>5. CASE UNCHANGED vars
  BY <1>5 DEF vars, NoEarlyDrop
<1> QED BY <1>2, <1>3, <1>4, <1>5, NextSteps

LEMMA RoomStep ==
  ASSUME TypeInv, Room, Once, [Next]_vars
  PROVE  Room'
<1>1. ASSUME NEW a \in Actors, Acts(a)
      PROVE  Room'
  <2>1. Shape /\ Knows(pc[a], my[a]) /\ Others(a)
    BY <1>1, ActMoves DEF Moves, TypeInv
  <2>2. ASSUME NEW b \in Actors, pc'[b] = "cancel"
        PROVE  Len(req') < MaxCancels /\ \A c \in Actors : pc'[c] = "cancel" => c = b
    <3>1. CASE b = a
      <4>1. AskCancel(a)
        BY <1>1, <2>2, <3>1, ActMoves
      <4>2. Len(req) < MaxCancels /\ UNCHANGED req /\ \A c \in Actors : pc[c] # "cancel"
        BY <2>1, <4>1, AskCancelMoves
      <4> QED BY <2>1, <3>1, <4>2 DEF Others
    <3>2. CASE b # a
      <4>1. pc[b] = "cancel" /\ Len(req) < MaxCancels /\ \A c \in Actors : pc[c] = "cancel" => c = b
        BY <2>1, <2>2, <3>2 DEF Others, Room
      <4>2. pc[a] # "cancel"
        BY <3>2, <4>1
      <4>3. ~AskCancel(a)
        BY <2>1, <4>1, AskCancelMoves
      <4>4. pc'[a] # "cancel"
        BY <1>1, <4>3, ActMoves
      <4>5. ~Cancel(a)
        BY <2>1, <4>2 DEF Cancel, At
      <4>6. Len(req') = Len(req)
        BY <1>1, <2>1, <4>5, ActMoves, MarkMoves, RestoreMoves
      <4> QED BY <2>1, <4>1, <4>4, <4>6 DEF Others
    <3> QED BY <3>1, <3>2
  <2> QED BY <2>2 DEF Room
<1>2. CASE AdminRestore
  BY <1>2, AdminRestoreMoves DEF Room
<1>3. CASE NextDay
  BY <1>3, NextDayMoves DEF Room
<1>4. CASE UNCHANGED vars
  BY <1>4 DEF vars, Room
<1> QED BY <1>1, <1>2, <1>3, <1>4, NextSteps

LEMMA OnceStep ==
  ASSUME TypeInv, Room, Once, [Next]_vars
  PROVE  Once'
<1>1. ASSUME NEW a \in Actors, Acts(a)
      PROVE  Once'
  <2>1. Shape /\ Knows(pc[a], my[a]) /\ Others(a)
    BY <1>1, ActMoves DEF Moves, TypeInv
  <2>2. CASE Deliver(a)
    <3>1. ~event.recorded /\ event'.recorded /\ event'.applied = event.applied /\ pc'[a] = "upgrade"
      BY <2>1, <2>2, DeliverMoves
    <3>2. event'.applied = 0 /\ \A b \in Actors : pc[b] \notin {"upgrade", "apply"}
      BY <3>1 DEF Once
    <3>3. \A b \in Actors : pc'[b] \in {"upgrade", "apply"} => b = a
      BY <2>1, <3>2 DEF Others
    <3> QED BY <3>1, <3>2, <3>3 DEF Once
  <2>3. CASE ApplyUpgrade(a)
    <3>1. pc[a] = "apply" /\ pc'[a] = "idle" /\ event'.recorded = event.recorded
      BY <2>1, <2>3, ApplyUpgradeMoves
    <3>2. event.recorded /\ \A b \in Actors : pc[b] \in {"upgrade", "apply"} => b = a
      BY <3>1 DEF Once
    <3>3. \A b \in Actors : pc'[b] \notin {"upgrade", "apply"}
      BY <2>1, <3>1, <3>2 DEF Others
    <3> QED BY <3>1, <3>2, <3>3 DEF Once
  <2>4. CASE ~Deliver(a) /\ ~ApplyUpgrade(a)
    <3>1. UNCHANGED event
      BY <1>1, <2>4, ActMoves
    <3>2. pc'[a] \in {"upgrade", "apply"} => pc[a] \in {"upgrade", "apply"}
      BY <1>1, <2>1, <2>4, ActMoves, ReadUpgradeMoves
    <3>3. \A b \in Actors : pc'[b] \in {"upgrade", "apply"} => pc[b] \in {"upgrade", "apply"}
      BY <2>1, <3>2 DEF Others
    <3> QED BY <3>1, <3>3 DEF Once
  <2> QED BY <2>2, <2>3, <2>4
<1>2. CASE AdminRestore
  BY <1>2, AdminRestoreMoves DEF Once
<1>3. CASE NextDay
  BY <1>3, NextDayMoves DEF Once
<1>4. CASE UNCHANGED vars
  BY <1>4 DEF vars, Once
<1> QED BY <1>1, <1>2, <1>3, <1>4, NextSteps

\* What the writers of invoices leave: an invoice more, a debt that is paid, a
\* debt that has failed, or nothing new.
LEMMA WriterMoves ==
  ASSUME TypeInv, NEW a \in Actors, Writes(a)
  PROVE  /\ paid = None => paid' = None
         /\ Busy(a)' => Busy(a)
         /\ Owing(a)' => inv'[my'[a].debt].status # "paid" \/ (UNCHANGED inv /\ Owing(a) /\ my'[a].debt = my[a].debt)
         /\ \/ UNCHANGED inv
            \/ \E x : /\ Adds(x)
                      /\ x.status = "issued" => x.type = "monthly"
                      /\ \/ x.status = "paid"
                         \/ paid' # None => Debt = None
                         \/ paid' # None => \A i \in DOMAIN inv : inv[i].period # x.period
            \/ Busy(a) /\ Rewrites(my[a].debt, "paid")
            \/ Busy(a) /\ Owing(a) /\ Rewrites(my[a].debt, "payment_failed")
<1>1. Shape /\ Knows(pc[a], my[a])
  BY DEF TypeInv
<1>2. CASE Issue(a)
  <2>1. /\ pc'[a] = "retry" /\ my'[a].back = None
        /\ \/ UNCHANGED <<inv, paid>>
           \/ /\ \E x : Adds(x) /\ x.status = "issued" /\ x.type = "monthly" /\ x.period = my[a].sub.until
              /\ paid = None => paid' = None
              /\ paid' # None => \A i \in DOMAIN inv : inv[i].period # my[a].sub.until
    BY <1>1, <1>2, IssueMoves
  <2>2. ~Busy(a)' /\ ~Owing(a)'
    BY <2>1, NoNumber DEF Busy, Paying, Unbooked, Owing
  <2> QED BY <2>1, <2>2
<1>3. CASE Book(a)
  <2>1. /\ pc[a] = "book" /\ (paid = None => paid' = None)
        /\ \/ pc'[a] = "extend" /\ KeepsDebt(a) /\ my[a].back = None /\ Rewrites(my[a].debt, "paid")
           \/ pc'[a] = "idle" /\ my'[a].back = None /\ UNCHANGED inv
    BY <1>1, <1>3, BookMoves
  <2>2. Busy(a) /\ ~Owing(a)'
    BY <2>1, NoNumber DEF Busy, Unbooked, Owing, KeepsDebt
  <2> QED BY <2>1, <2>2
<1>4. CASE Complete(a)
  <2>1. /\ paid = None => paid' = None
        /\ pc[a] = "complete" /\ my'[a].back = None
        /\ \/ /\ pc'[a] = "book" /\ UNCHANGED <<inv, paid>>
              /\ my'[a].debt \in DOMAIN inv /\ inv[my'[a].debt].status # "paid"
           \/ /\ pc'[a] = "extend" /\ my'[a].debt = my[a].debt
              /\ inv' = inv \/ \E x : Adds(x) /\ x.status = "paid"
    BY <1>1, <1>4, CompleteMoves
  <2>2. Busy(a) /\ (Owing(a)' => pc'[a] = "book")
    BY <2>1, NoNumber DEF Busy, Unbooked, Owing
  <2>3. Owing(a)' => inv'[my'[a].debt].status # "paid"
    BY <2>1, <2>2
  <2> QED BY <2>1, <2>2, <2>3
<1>5. CASE DeclineAdvance(a)
  <2>1. /\ paid = None => paid' = None
        /\ pc[a] = "decline" /\ pc'[a] = "idle" /\ my'[a].back = None
        /\ paid' # None => Debt = None
        /\ inv' = inv \/ \E x : Adds(x) /\ x.status = "payment_failed"
    BY <1>1, <1>5, DeclineAdvanceMoves
  <2>2. Busy(a) /\ ~Owing(a)'
    BY <2>1, NoNumber DEF Busy, Paying, Owing
  <2> QED BY <2>1, <2>2
<1>6. CASE DeclineSettle(a) \/ Meta(a)
  <2>1. /\ UNCHANGED paid /\ pc[a] \in {"decline", "meta"} /\ my[a].debt # None
        /\ pc'[a] \in {"sync", "idle"} /\ my'[a].back = None
        /\ Rewrites(my[a].debt, "payment_failed")
    BY <1>1, <1>6, DeclineSettleMoves, MetaMoves
  <2>2. Busy(a) /\ Owing(a) /\ ~Owing(a)'
    BY <2>1, NoNumber DEF Busy, Paying, Owing
  <2> QED BY <2>1, <2>2
<1>7. CASE DeclineRetry(a)
  <2>1. /\ UNCHANGED paid /\ pc[a] = "decline" /\ my[a].debt # None
        /\ \/ pc'[a] = "meta" /\ UNCHANGED inv /\ KeepsDebt(a)
           \/ /\ pc'[a] = "sync" /\ my'[a].back = "meta" /\ my'[a].debt = my[a].debt
              /\ Rewrites(my[a].debt, "payment_failed")
           \/ pc'[a] = "idle" /\ my'[a].back = None /\ UNCHANGED inv
    BY <1>1, <1>7, DeclineRetryMoves
  <2>2. Busy(a) /\ Owing(a)
    BY <2>1 DEF Busy, Paying, Owing
  <2>3. CASE UNCHANGED inv
    BY <2>1, <2>2, <2>3, NoNumber DEF Owing, KeepsDebt
  <2>4. CASE Rewrites(my[a].debt, "payment_failed") /\ my'[a].debt = my[a].debt
    BY <2>1, <2>2, <2>4 DEF Rewrites
  <2> QED BY <2>1, <2>3, <2>4
<1> QED BY <1>2, <1>3, <1>4, <1>5, <1>6, <1>7 DEF Writes

LEMMA RequestingStep ==
  ASSUME TypeInv, Room, Once, Requesting, [Next]_vars
  PROVE  Requesting'
<1>1. ASSUME NEW a \in Actors, Acts(a)
      PROVE  Requesting'
  <2>1. CASE UNCHANGED inv
    BY <2>1 DEF Requesting
  <2>2. ASSUME NEW x, Adds(x), x.status = "issued" => x.type = "monthly"
        PROVE  Requesting'
    BY <2>2 DEF Adds, Requesting
  <2>3. ASSUME NEW d, NEW st \in {"paid", "payment_failed"}, Rewrites(d, st)
        PROVE  Requesting'
    BY <2>3 DEF Rewrites, Requesting
  <2> QED BY <1>1, <2>1, <2>2, <2>3, Kinds, WriterMoves DEF Quietly, Begins
<1>2. CASE AdminRestore \/ NextDay \/ UNCHANGED vars
  <2>1. UNCHANGED inv
    BY <1>2, AdminRestoreMoves, NextDayMoves DEF vars
  <2> QED BY <2>1 DEF Requesting
<1> QED BY <1>1, <1>2, NextSteps

\* Between the operations no payment begins or goes on.
LEMMA Resting ==
  ASSUME TypeInv, AdminRestore \/ NextDay \/ UNCHANGED vars
  PROVE  UNCHANGED <<inv, paid, pc, my>>
BY AdminRestoreMoves, NextDayMoves DEF vars

LEMMA AloneStep ==
  ASSUME TypeInv, Room, Once, Alone, [Next]_vars
  PROVE  Alone'
<1>1. ASSUME NEW a \in Actors, Acts(a), paid' # None
      PROVE  \A b, c \in Actors : Busy(b)' /\ Busy(c)' => b = c
  <2>1. Others(a)
    BY <1>1, ActMoves DEF Moves
  <2>2. paid # None /\ (Busy(a)' => Busy(a) \/ \A b \in Actors \ {a} : ~Busy(b))
    BY <1>1, Kinds, WriterMoves DEF Quietly, Begins
  <2>3. \A b \in Actors \ {a} : Busy(b)' <=> Busy(b)
    BY <2>1 DEF Others, Busy, Paying, Unbooked
  <2> QED BY <2>2, <2>3 DEF Alone, Disturbed
<1>2. CASE AdminRestore \/ NextDay \/ UNCHANGED vars
  BY <1>2, Resting DEF Alone, Disturbed, Busy, Paying, Unbooked
<1> QED BY <1>1, <1>2, NextSteps DEF Alone, Disturbed

-----------------------------------------------------------------------------
(* What was paid for, and what the subscription says.                        *)

\* The period and the plan of the subscription stay, and so does what was paid.
Settled(a) ==
  /\ sub'.until = sub.until /\ sub'.plan = sub.plan /\ paid' = paid
  /\ Owes(a)' <=> Owes(a)
  /\ Upgrading(a)' <=> Upgrading(a)

\* The five steps that change what was paid, or what is covered.
Charged(a) ==
  /\ sub' = sub /\ paid'.until = paid.until + Cycle /\ paid'.plan = paid.plan
  /\ Busy(a) /\ ~Owes(a) /\ ~Upgrading(a) /\ Owes(a)' /\ ~Upgrading(a)'
Extending(a) ==
  /\ sub'.until = sub.until + Cycle /\ sub'.plan = sub.plan /\ paid' = paid
  /\ Busy(a) /\ Owes(a) /\ ~Upgrading(a) /\ ~Owes(a)' /\ ~Upgrading(a)'
Delivered(a) ==
  /\ sub' = sub /\ paid'.until = paid.until /\ paid'.plan = "pro"
  /\ \A b \in Actors : ~Busy(b)
  /\ ~Owes(a)' /\ Upgrading(a)'
Upgraded(a) ==
  /\ sub'.until = paid'.until /\ sub'.plan = "pro" /\ paid'.plan = paid.plan
  /\ Busy(a) /\ Upgrading(a) /\ ~Owes(a)' /\ ~Upgrading(a)'

LEMMA StatusAccounts ==
  ASSUME Shape, NEW a \in Actors, Knows(pc[a], my[a]), Status(a), paid' # None
  PROVE  Settled(a)
<1>1. pc[a] = "status" /\ pc'[a] \in {"bill", "meta", "idle"} /\ my[a].sub \in Subs /\ sub \in Subs
  BY StatusMoves DEF Knows, HasSub, Shape
<1> DEFINE s == [my[a].sub EXCEPT !.status = my[a].next]
<1>2. s.until = my[a].sub.until /\ s.plan = my[a].sub.plan /\ s \in [until : Nat, status : {my[a].next}, plan : Plans, updated : 0..MaxInvoices]
  BY <1>1 DEF Subs
<1>3. UNCHANGED <<sub, paid>> \/ Upsert(a, s, paid)
  BY DEF Status
<1>4. ASSUME Upsert(a, s, paid)
      PROVE  sub'.until = sub.until /\ sub'.plan = sub.plan /\ paid' = paid
  <2>1. Follow(paid, my[a].sub # sub) /\ sub' = [s EXCEPT !.updated = Len(inv)]
    BY <1>4 DEF Upsert
  <2>2. my[a].sub = sub /\ paid' = paid
    BY <2>1 DEF Follow
  <2> HIDE DEF s
  <2>3. sub'.until = s.until /\ sub'.plan = s.plan
    BY <1>2, <2>1
  <2> QED BY <1>2, <2>2, <2>3
<1>5. sub'.until = sub.until /\ sub'.plan = sub.plan /\ paid' = paid
  BY <1>3, <1>4
<1> QED BY <1>1, <1>5 DEF Settled, Owes, Upgrading

LEMMA ChargeAccounts ==
  ASSUME Shape, NEW a \in Actors, Knows(pc[a], my[a]), Charge(a), paid' # None
  PROVE  Settled(a) \/ Charged(a)
<1>1. pc[a] = "charge" /\ paid # None /\ UNCHANGED sub
  BY ChargeMoves DEF Charge
<1>2. paid \in [until : Nat, plan : Plans]
  BY <1>1 DEF Shape
<1>3. CASE Follow([paid EXCEPT !.until = @ + Cycle], FALSE) /\ pc'[a] \in {"complete", "book"}
  <2>1. paid' = [paid EXCEPT !.until = @ + Cycle]
    BY <1>1, <1>3 DEF Follow
  <2>2. paid'.until = paid.until + Cycle /\ paid'.plan = paid.plan
    BY <1>2, <2>1
  <2> QED BY <1>1, <1>3, <2>2 DEF Charged, Busy, Paying, Owes, Upgrading
<1>4. CASE UNCHANGED paid /\ pc'[a] = "decline"
  BY <1>1, <1>4 DEF Settled, Owes, Upgrading
<1>5. pc \in [Actors -> Steps]
  BY DEF Shape
<1> QED BY <1>3, <1>4, <1>5 DEF Charge, Go

LEMMA ExtendAccounts ==
  ASSUME Shape, NEW a \in Actors, Knows(pc[a], my[a]), Extend(a), paid' # None
  PROVE  Extending(a)
<1>1. pc[a] = "extend" /\ pc'[a] = "reopen" /\ sub \in Subs /\ Upsert(a, Extended(my[a].sub), paid)
  BY ExtendMoves DEF Extend, At, Shape
<1>2. my[a].sub = sub /\ paid' = paid /\ sub' = [Extended(sub) EXCEPT !.updated = Len(inv)]
  BY <1>1 DEF Upsert, Follow
<1>3. sub'.until = sub.until + Cycle /\ sub'.plan = sub.plan
  BY <1>1, <1>2 DEF Subs, Extended
<1> QED BY <1>1, <1>2, <1>3 DEF Extending, Busy, Unbooked, Owes, Upgrading

LEMMA DeliverAccounts ==
  ASSUME Shape, NEW a \in Actors, Knows(pc[a], my[a]), Deliver(a), paid' # None
  PROVE  Delivered(a)
<1>1. /\ pc[a] = "idle" /\ pc'[a] = "upgrade" /\ UNCHANGED sub /\ paid # None
      /\ \A b \in Actors \ {a} : ~Busy(b)
  BY DeliverMoves DEF Deliver, At
<1>2. paid \in [until : Nat, plan : Plans]
  BY <1>1 DEF Shape
<1>3. paid' = [paid EXCEPT !.plan = "pro"]
  BY DEF Deliver, Overlap, Follow
<1>4. paid'.until = paid.until /\ paid'.plan = "pro"
  BY <1>2, <1>3
<1>5. ~Busy(a)
  BY <1>1, NothingFacts, NoNumber DEF Knows, Busy, Paying, Unbooked
<1> QED BY <1>1, <1>4, <1>5 DEF Delivered, Owes, Upgrading

LEMMA ApplyAccounts ==
  ASSUME Shape, NEW a \in Actors, Knows(pc[a], my[a]), ApplyUpgrade(a), paid' # None
  PROVE  Upgraded(a)
<1>1. pc[a] = "apply" /\ my[a].sub \in Subs /\ Done(a)
  BY DEF ApplyUpgrade, At, Knows, HasSub
<1> DEFINE s == [my[a].sub EXCEPT !.until = my[a].target, !.status = "active", !.plan = "pro"]
<1>2. s.until = my[a].target /\ s.plan = "pro" /\ s = [s EXCEPT !.status = "active"]
  BY <1>1 DEF Subs
<1>3. Upsert(a, s, [paid EXCEPT !.until = my[a].target])
  BY DEF ApplyUpgrade
<1>4. sub'.until = my[a].target /\ sub'.plan = "pro"
  BY <1>1, <1>3 DEF Upsert, Subs
<1>5. paid # None /\ paid' = [paid EXCEPT !.until = my[a].target]
  BY <1>3 DEF Upsert, Follow
<1>6. paid \in [until : Nat, plan : Plans]
  BY <1>5 DEF Shape
<1>7. paid'.until = my[a].target /\ paid'.plan = paid.plan
  BY <1>5, <1>6
<1>8. pc'[a] = "idle"
  BY <1>1, Finishing
<1> QED BY <1>1, <1>4, <1>7, <1>8 DEF Upgraded, Busy, Unbooked, Owes, Upgrading

\* The tenant's row does not come back.
LEMMA RowStays ==
  ASSUME Shape, NEW a \in Actors, Acts(a), tenant'.row
  PROVE  tenant.row
<1>1. tenant \in [row : BOOLEAN, open : BOOLEAN, schema : BOOLEAN]
  BY DEF Shape
<1>2. Vanished(a) \/ Crash(a) => UNCHANGED tenant
  BY DEF Vanished, Crash
<1>3. ~Vanished(a) /\ ~Crash(a) => tenant.row
  BY DEF Acts, Step, Request, Lifecycle, Sync, Payment, Ask, At, StartCycle, PassRow, CloseLapsed, Mark, DropSchema,
     Erase, ReadTenant, SyncCancellation, Shut, Judge, Status, Bill, Issue, ReadDebt, Charge, Book, Complete, Extend,
     Reopen, DeclineAdvance, DeclineSettle, DeclineRetry, Meta, Cancel, Restore, ReadUpgrade, ApplyUpgrade,
     AskSettle, AskCancel, AskRestore, AskDelete, Deliver
<1> QED BY <1>1, <1>2, <1>3

\* Every other step leaves the account as it is.
LEMMA Accounts ==
  ASSUME TypeInv, Room, Once, NEW a \in Actors, Acts(a), paid' # None, tenant'.row
  PROVE  Settled(a) \/ Charged(a) \/ Extending(a) \/ Delivered(a) \/ Upgraded(a)
<1>1. Shape /\ Knows(pc[a], my[a])
  BY DEF TypeInv
<1>2. CASE StartCycle(a) \/ Lifecycle(a) \/ ReadTenant(a)
  <2>1. /\ UNCHANGED <<sub, paid>> /\ pc[a] \in {"idle", "lifecycle", "mark", "erase"}
        /\ pc'[a] \in {"idle", "lifecycle", "mark", "judge", "erase", "sync"}
    <3>1. UNCHANGED <<sub, paid>> /\ pc[a] \in {"idle", "lifecycle", "mark", "erase"}
      BY <1>2 DEF Lifecycle, StartCycle, PassRow, CloseLapsed, Mark, DropSchema, Erase, ReadTenant, At
    <3> QED BY <1>1, <1>2, <3>1, StartCycleMoves, PassRowMoves, CloseLapsedMoves, MarkMoves, DropSchemaMoves,
               EraseMoves, ReadTenantMoves DEF Lifecycle
  <2> QED BY <2>1 DEF Settled, Owes, Upgrading
<1>3. CASE SyncCancellation(a) \/ Shut(a) \/ Judge(a) \/ Bill(a)
  <2>1. UNCHANGED <<sub, paid>> /\ pc[a] \in {"sync", "shut", "judge", "bill"}
    BY <1>3 DEF SyncCancellation, Shut, Judge, Bill, At
  <2>2. pc'[a] \in {"shut", "mark", "status", "issue"}
    BY <1>1, <1>3, SyncCancellationMoves, ShutMoves, JudgeMoves, BillMoves
  <2> QED BY <2>1, <2>2 DEF Settled, Owes, Upgrading
<1>4. CASE Issue(a) \/ DeclineAdvance(a) \/ Book(a) \/ Complete(a)
  <2>1. UNCHANGED sub /\ paid' = paid
    BY <1>4 DEF Issue, DeclineAdvance, Book, Complete, DebtAppeared, Follow
  <2>2. \/ pc[a] \in {"issue", "decline"} /\ pc'[a] \in {"retry", "idle"}
        \/ pc[a] \in {"book", "complete"} /\ pc'[a] \in {"book", "extend"}
    BY <1>1, <1>4, IssueMoves, DeclineAdvanceMoves, BookMoves, CompleteMoves
  <2> QED BY <2>1, <2>2 DEF Settled, Owes, Upgrading
<1>5. CASE DeclineSettle(a) \/ DeclineRetry(a) \/ Meta(a) \/ Reopen(a)
  <2>1. UNCHANGED <<sub, paid>> /\ pc[a] \in {"decline", "meta", "reopen"}
    BY <1>5 DEF DeclineSettle, DeclineRetry, Meta, Reopen, At
  <2>2. pc'[a] \in {"sync", "meta", "idle"}
    BY <1>1, <1>5, DeclineSettleMoves, DeclineRetryMoves, MetaMoves, ReopenMoves
  <2> QED BY <2>1, <2>2 DEF Settled, Owes, Upgrading
<1>6. CASE Cancel(a) \/ Restore(a) \/ ReadUpgrade(a)
  <2>1. UNCHANGED <<sub, paid>> /\ pc[a] \in {"cancel", "restore", "upgrade"} /\ (ReadUpgrade(a) <=> pc[a] = "upgrade")
    BY <1>6 DEF Cancel, Restore, ReadUpgrade, At
  <2>2. pc'[a] = IF pc[a] = "upgrade" THEN "apply" ELSE "idle"
    BY <1>1, <1>6, <2>1, CancelMoves, RestoreMoves, ReadUpgradeMoves
  <2> QED BY <2>1, <2>2 DEF Settled, Owes, Upgrading
<1>7. CASE AskCancel(a) \/ AskRestore(a) \/ AskDelete(a)
  <2>1. UNCHANGED <<sub, paid>> /\ pc[a] = "idle"
    BY <1>7 DEF AskCancel, AskRestore, AskDelete, Ask, At
  <2>2. pc'[a] \in {"cancel", "restore", "shut"}
    BY <1>1, <1>7, AskCancelMoves, AskRestoreMoves, AskDeleteMoves
  <2> QED BY <2>1, <2>2 DEF Settled, Owes, Upgrading
<1>8. CASE ReadDebt(a) \/ AskSettle(a)
  <2>1. UNCHANGED sub /\ paid' = paid /\ pc[a] \in {"retry", "bill", "idle"}
    BY <1>8 DEF ReadDebt, AskSettle, Ask, At, Overlap, Follow
  <2>2. pc'[a] \in {"charge", "idle"}
    BY <1>1, <1>8, ReadDebtMoves, AskSettleMoves
  <2> QED BY <2>1, <2>2 DEF Settled, Owes, Upgrading
<1>9. CASE Crash(a)
  <2>1. UNCHANGED sub /\ paid' = paid /\ ~Unbooked(a)
    BY <1>9 DEF Crash, Follow
  <2>2. pc'[a] \in {"idle", "retry"}
    BY <1>1, <1>9, CrashMoves
  <2> QED BY <2>1, <2>2 DEF Settled, Unbooked, Owes, Upgrading
<1>a. ~Vanished(a)
  BY <1>1, RowStays DEF Vanished
<1> QED BY <1>1, <1>2, <1>3, <1>4, <1>5, <1>6, <1>7, <1>8, <1>9, <1>a, StatusAccounts, ChargeAccounts,
           ExtendAccounts, DeliverAccounts, ApplyAccounts
        DEF Acts, Step, Sync, Payment, Request

LEMMA CoveredStep ==
  ASSUME TypeInv, Room, Once, Alone, Covered, [Next]_vars
  PROVE  Covered'
<1>1. ASSUME NEW a \in Actors, Acts(a), paid' # None, tenant'.row
      PROVE  /\ paid'.until = IF \E b \in Actors : Owes(b)' THEN sub'.until + Cycle ELSE sub'.until
             /\ paid'.plan = IF \E b \in Actors : Upgrading(b)' THEN "pro" ELSE sub'.plan
  <2>1. Shape /\ Others(a) /\ paid # None /\ tenant.row
    BY <1>1, ActMoves, RowStays, Kinds, WriterMoves DEF Moves, TypeInv, Quietly, Begins
  <2>2. /\ paid.until = IF \E b \in Actors : Owes(b) THEN sub.until + Cycle ELSE sub.until
        /\ paid.plan = IF \E b \in Actors : Upgrading(b) THEN "pro" ELSE sub.plan
    BY <2>1 DEF Covered, Disturbed
  <2>3. \A b \in Actors \ {a} : (Owes(b)' <=> Owes(b)) /\ (Upgrading(b)' <=> Upgrading(b))
    BY <2>1 DEF Others, Owes, Upgrading
  <2>4. \A b, c \in Actors : Busy(b) /\ Busy(c) => b = c
    BY <2>1 DEF Alone, Disturbed
  <2>5. \A b \in Actors : Owes(b) \/ Upgrading(b) => Busy(b)
    BY DEF Owes, Upgrading, Busy, Unbooked
  <2>6. CASE Settled(a)
    BY <2>2, <2>3, <2>6 DEF Settled
  <2>7. CASE Charged(a)
    BY <2>2, <2>3, <2>4, <2>5, <2>7 DEF Charged
  <2>8. CASE Extending(a)
    BY <2>2, <2>3, <2>4, <2>5, <2>8 DEF Extending
  <2>9. CASE Delivered(a)
    BY <2>2, <2>3, <2>5, <2>9 DEF Delivered
  <2>a. CASE Upgraded(a)
    BY <2>2, <2>3, <2>4, <2>5, <2>a DEF Upgraded
  <2> QED BY <1>1, <2>6, <2>7, <2>8, <2>9, <2>a, Accounts
<1>2. CASE AdminRestore \/ NextDay \/ UNCHANGED vars
  <2>1. UNCHANGED <<sub, paid, pc>> /\ tenant'.row = tenant.row
    BY <1>2 DEF AdminRestore, NextDay, vars, TypeInv, Shape
  <2> QED BY <2>1 DEF Covered, Disturbed, Owes, Upgrading
<1> QED BY <1>1, <1>2, NextSteps DEF Covered, Disturbed

LEMMA OwedStep ==
  ASSUME TypeInv, Room, Once, Alone, Owed, [Next]_vars
  PROVE  Owed'
<1>1. ASSUME NEW a \in Actors, Acts(a), paid' # None, NEW b \in Actors, Owing(b)'
      PROVE  inv'[my'[b].debt].status # "paid"
  <2>1. Others(a) /\ paid # None
    BY <1>1, ActMoves, Kinds, WriterMoves DEF Moves, Quietly, Begins
  <2>2. CASE b = a
    <3>1. \/ inv'[my'[a].debt].status # "paid"
          \/ UNCHANGED inv /\ Owing(a) /\ my'[a].debt = my[a].debt
      BY <1>1, <2>2, Kinds, WriterMoves DEF Quietly, Begins
    <3>2. Owing(a) => inv[my[a].debt].status # "paid"
      BY <2>1 DEF Owed, Disturbed
    <3> QED BY <2>2, <3>1, <3>2
  <2>3. CASE b # a
    <3>1. my'[b] = my[b] /\ Owing(b)
      BY <1>1, <2>1, <2>3 DEF Others, Owing
    <3>2. my[b].debt \in DOMAIN inv /\ inv[my[b].debt].status # "paid"
      BY <2>1, <3>1 DEF Owing, TypeInv, Knows, Owed, Disturbed
    <3>3. Busy(b)
      BY <3>1 DEF Owing, Busy, Paying, Unbooked
    <3>4. ~Busy(a)
      BY <2>1, <2>3, <3>3 DEF Alone, Disturbed
    <3>5. UNCHANGED inv \/ \E x : Adds(x)
      BY <1>1, <3>4, Kinds, WriterMoves DEF Quietly, Begins
    <3>6. inv'[my[b].debt] = inv[my[b].debt]
      BY <3>2, <3>5 DEF Adds
    <3> QED BY <3>1, <3>2, <3>6
  <2> QED BY <2>2, <2>3
<1>2. CASE AdminRestore \/ NextDay \/ UNCHANGED vars
  BY <1>2, Resting DEF Owed, Disturbed, Owing
<1> QED BY <1>1, <1>2, NextSteps DEF Owed, Disturbed

\* What an undisturbed step does to the invoices.
LEMMA Undisturbed ==
  ASSUME TypeInv, Room, Once, Requesting, Owed, [Next]_vars, paid' # None
  PROVE  /\ paid # None
         /\ \/ UNCHANGED inv
            \/ \E x : /\ Adds(x)
                      /\ x.status # "paid" => \A i \in DOMAIN inv : inv[i].period = x.period => inv[i].status = "paid"
            \/ \E d : Rewrites(d, "paid")
            \/ \E d : Rewrites(d, "payment_failed") /\ inv[d].status # "paid"
<1>1. Shape /\ inv \in Seq(Invoices)
  BY DEF TypeInv, Shape
<1>2. Debt = None => \A i \in DOMAIN inv : inv[i].status = "paid"
  <2>1. \A i \in DOMAIN inv : inv[i].status \in {"issued", "payment_failed", "paid"}
    BY <1>1, Rowwise DEF Invoices
  <2> QED BY <1>1, <2>1, Queries DEF Requesting
<1>3. ASSUME NEW a \in Actors, Acts(a)
      PROVE  /\ paid # None
             /\ \/ UNCHANGED inv
                \/ \E x : /\ Adds(x)
                          /\ \/ x.status = "paid"
                             \/ paid' # None => Debt = None
                             \/ paid' # None => \A i \in DOMAIN inv : inv[i].period # x.period
                \/ \E d : Rewrites(d, "paid")
                \/ \E d : Rewrites(d, "payment_failed") /\ inv[d].status # "paid"
  <2>1. paid # None
    BY <1>3, Kinds, WriterMoves DEF Quietly, Begins
  <2>2. Owing(a) => inv[my[a].debt].status # "paid"
    BY <2>1 DEF Owed, Disturbed
  <2> QED BY <1>3, <2>1, <2>2, Kinds, WriterMoves DEF Quietly, Begins
<1>4. CASE AdminRestore \/ NextDay \/ UNCHANGED vars
  BY <1>4, Resting
<1> QED BY <1>2, <1>3, <1>4, NextSteps

LEMMA OneDebtStep ==
  ASSUME TypeInv, Room, Once, Requesting, Owed, OneDebt, [Next]_vars
  PROVE  OneDebt'
<1> SUFFICES ASSUME paid' # None, NEW i \in DOMAIN inv', NEW j \in DOMAIN inv', i # j, inv'[i].period = inv'[j].period
             PROVE  "paid" \in {inv'[i].status, inv'[j].status}
  BY DEF OneDebt, Disturbed
<1>1. \A k, l \in DOMAIN inv : k # l /\ inv[k].period = inv[l].period => "paid" \in {inv[k].status, inv[l].status}
  BY Undisturbed DEF OneDebt, Disturbed
<1>2. CASE UNCHANGED inv
  BY <1>1, <1>2
<1>3. ASSUME NEW x, Adds(x),
             x.status # "paid" => \A k \in DOMAIN inv : inv[k].period = x.period => inv[k].status = "paid"
      PROVE  "paid" \in {inv'[i].status, inv'[j].status}
  BY <1>1, <1>3 DEF Adds
<1>4. ASSUME NEW d, Rewrites(d, "paid")
      PROVE  "paid" \in {inv'[i].status, inv'[j].status}
  BY <1>1, <1>4 DEF Rewrites
<1>5. ASSUME NEW d, Rewrites(d, "payment_failed"), inv[d].status # "paid"
      PROVE  "paid" \in {inv'[i].status, inv'[j].status}
  BY <1>1, <1>5 DEF Rewrites
<1> QED BY <1>2, <1>3, <1>4, <1>5, Undisturbed

-----------------------------------------------------------------------------
(* The theorems.                                                             *)

LEMMA InitInv == Init => Inv
<1> SUFFICES ASSUME Init PROVE Inv
  OBVIOUS
<1>1. Shape
  <2>1. day = 0 /\ asked = 0 /\ faults = 0 /\ inv = <<>> /\ req = <<>>
    BY DEF Init
  <2>2. tenant \in [row : BOOLEAN, open : BOOLEAN, schema : BOOLEAN] /\ event \in [recorded : BOOLEAN, applied : 0..1]
    BY DEF Init
  <2>3. sub \in Subs /\ paid \in [until : Nat, plan : Plans]
    BY Bounds DEF Init, Subs, Statuses, Plans
  <2>4. pc \in [Actors -> Steps] /\ my \in [Actors -> Regs]
    BY NothingFacts DEF Init, Steps
  <2> QED BY <2>1, <2>2, <2>3, <2>4, Bounds DEF Shape
<1>2. \A a \in Actors : pc[a] = "idle" /\ my[a] = Nothing
  BY DEF Init
<1>3. \A a \in Actors : Knows(pc[a], my[a])
  BY <1>2, NothingFacts, NoNumber DEF Knows, HasSub
<1>4. Alone /\ Owed
  BY <1>2, NothingFacts, NoNumber DEF Alone, Owed, Busy, Paying, Unbooked, Owing
<1>5. DOMAIN inv = {} /\ DOMAIN req = {}
  BY DEF Init
<1>6. Waits /\ Requesting /\ OneDebt
  BY <1>5 DEF Waits, Requesting, OneDebt
<1>7. NoEarlyDrop
  BY DEF Init, NoEarlyDrop
<1>8. Room /\ Once
  BY <1>2 DEF Room, Once, Init
<1>9. Covered
  <2>1. paid.until = FirstDue /\ paid.plan = "basic" /\ sub.until = FirstDue /\ sub.plan = "basic"
    BY DEF Init
  <2> QED BY <1>2, <2>1 DEF Covered, Owes, Upgrading
<1> QED BY <1>1, <1>3, <1>4, <1>6, <1>7, <1>8, <1>9 DEF Inv, TypeInv

LEMMA StepInv ==
  ASSUME Inv, [Next]_vars
  PROVE  Inv'
BY TypeStep, WaitsStep, DropStep, RoomStep, OnceStep, RequestingStep, AloneStep, OwedStep, OneDebtStep,
   CoveredStep DEF Inv

LEMMA Invariance == Spec => []Inv
BY InitInv, StepInv, PTL DEF Spec

\* Type correctness: the rows hold what their columns may, no operation writes
\* more invoices or requests than there is room for, and the paid upgrade is
\* applied once at most (billing/service.py, billing/repositories.py).
THEOREM TypeCorrect == Spec => []TypeOK
<1>1. Inv => TypeOK
  <2> SUFFICES ASSUME Inv PROVE TypeOK
    OBVIOUS
  <2>1. Shape
    BY DEF Inv, TypeInv
  <2>2. event.applied \in 0..1
    BY <2>1 DEF Shape
  <2> QED BY <2>1, <2>2 DEF Shape, TypeOK
<1> QED BY <1>1, Invariance, PTL

\* The schema is dropped only for a request whose tenant has been closed for
\* Grace days, and the worker closes none before Grace days past the paid time,
\* whatever runs, restores, settlements and second requests come in between
\* (process_cancellation_lifecycle, mark_cancellation_deactivated).
THEOREM DropsInTime == Spec => []NoEarlyDrop
<1>1. Inv => NoEarlyDrop
  BY DEF Inv
<1> QED BY <1>1, Invariance, PTL

\* As long as no payment overlapped another, no charge was lost and no copy
\* written over a newer row, billing has one open debt for a period at most
\* (issue_subscription_payment_request, retry_failed_payments_daily,
\* settle_subscription, complete_subscription_billing).
THEOREM OneDebtAtMost == Spec => []OneDebtPerPeriod
<1>1. Inv => OneDebtPerPeriod
  BY DEF Inv, OneDebt, OneDebtPerPeriod
<1> QED BY <1>1, Invariance, PTL

\* Under the same conditions an invoice that was paid stays paid, although the
\* daily retry and the settlement write over what they read before the charge
\* (_mark_invoice_retry_meta, retry_failed_payments_daily).
THEOREM PaymentsLast == Spec => PaidStaysPaid
<1>1. ASSUME Inv, [Next]_vars
      PROVE  [\A i \in DOMAIN inv : inv[i].status = "paid" => inv'[i].status = "paid" \/ Disturbed']_vars
  <2>1. ASSUME paid' # None, NEW i \in DOMAIN inv, inv[i].status = "paid"
        PROVE  inv'[i].status = "paid"
    <3>1. \/ UNCHANGED inv
          \/ \E x : Adds(x)
          \/ \E d : Rewrites(d, "paid")
          \/ \E d : Rewrites(d, "payment_failed") /\ inv[d].status # "paid"
      BY <1>1, <2>1, Undisturbed DEF Inv
    <3> QED BY <2>1, <3>1 DEF Adds, Rewrites
  <2> QED BY <2>1 DEF Disturbed
<1>2. PaidStaysPaid <=> [][\A i \in DOMAIN inv : inv[i].status = "paid" => inv'[i].status = "paid" \/ Disturbed']_vars
  BY DEF PaidStaysPaid
<1> QED BY <1>1, <1>2, Invariance, PTL DEF Spec

\* Under the same conditions, whenever no operation is under way, the day until
\* which the subscription runs is the one that was paid for, and its plan the
\* plan that was paid for: no charge extends it twice and none is forgotten
\* (complete_subscription_billing, settle_subscription,
\* retry_failed_payments_daily, process_verified_payment_event).
THEOREM PaymentsCount == Spec => []PaidIsCovered
<1>1. Inv => PaidIsCovered
  <2> SUFFICES ASSUME Inv, Quiet, tenant.row, ~Disturbed PROVE sub.until = paid.until /\ sub.plan = paid.plan
    BY DEF PaidIsCovered
  <2>1. \A a \in Actors : ~Owes(a) /\ ~Upgrading(a)
    BY DEF Quiet, Owes, Upgrading
  <2> QED BY <2>1 DEF Inv, Covered
<1> QED BY <1>1, Invariance, PTL

=============================================================================
