------------------------ MODULE TenantRoutingProofs ------------------------
(* Theorems about TenantRouting, for any number of tenants and requests and *)
(* any times to live and bounds.                                            *)
EXTENDS TenantRouting, TLAPS

-----------------------------------------------------------------------------
(* The inductive invariant.                                                 *)

Entries == [val : Tenants \cup {None} \cup States, left : Nat, off : Nat]
Ops == Keys \cup States \cup {"add", "verify", "delete", None}
Regs == [op : Ops, t : Tenants \cup {None}, key : Keys \cup {None},
         val : Tenants \cup {None} \cup States, off : Nat, age : Nat]

\* What each variable ranges over.
Shape ==
    /\ tenant \in [Tenants -> States]
    /\ link = None \/ link \in [tenant : Tenants, verified : BOOLEAN]
    /\ cache \in [Keys -> {None} \cup Entries]
    /\ pc \in [Actors -> Steps] /\ my \in [Actors -> Regs]
    /\ proved \subseteq Tenants /\ excused \subseteq Keys

\* What is looked up under a key: a tenant or none, or an existing tenant's state.
Answers(k) == IF k = Host THEN Tenants \cup {None} ELSE States \ {"gone"}

\* What a request knows at its step, and that a lookup takes MaxAge at most.
Knows(s, m) ==
    /\ s = "idle" => m = Nothing
    /\ s # "idle" => m.key \in Keys
    /\ s \in {"dns", "write"} => m.key = Host /\ m.t \in Tenants
    /\ s = "put" => m.val \in Answers(m.key) /\ m.off <= m.age
    /\ s \in {"get", "load", "put"} => m.age <= MaxAge

Known(a) == Knows(pc[a], my[a])

\* An entry has been wrong for no longer than its load took and it has lived.
Timed(k) ==
    cache[k] # None =>
        /\ cache[k].val \in Answers(k) /\ cache[k].left <= Ttl(k)
        /\ cache[k].off + cache[k].left <= Ttl(k) + MaxAge

\* The domain's row is that of a tenant there is.
Linked == link # None => tenant[link.tenant] # "gone"

TypeInv ==
    /\ Shape /\ Linked
    /\ \A a \in Actors : Known(a)
    /\ \A k \in Keys : Timed(k)

\* Who is about to write the domain's row.
Works(a) == Managing(a) /\ pc[a] \in {"dns", "write"}

\* As long as nobody contested it, all who are about to write the domain's row
\* do it for one tenant, and the row is that tenant's or nobody's; a
\* verification has its proof before it writes.
OneManager ==
    \A a \in Actors : Works(a) =>
        /\ link = None \/ link.tenant = my[a].t
        /\ my[a].op = "verify" /\ pc[a] = "write" => my[a].t \in proved
        /\ \A b \in Actors : Works(b) => my[b].t = my[a].t

Verified == link # None /\ link.verified => link.tenant \in proved

\* What the cache, and whoever is about to fill it, says of the domain is proved.
CachedByProof ==
    /\ cache[Host] # None => cache[Host].val = None \/ cache[Host].val \in proved
    /\ \A a \in Actors : pc[a] = "put" /\ my[a].key = Host =>
                            my[a].val = None \/ my[a].val \in proved

Routed == \A a \in Actors : my[a].op = Host /\ my[a].key # Host => my[a].key \in proved

Backed == OneManager /\ Verified /\ CachedByProof /\ Routed
ProofInv == ~contested => Backed

-----------------------------------------------------------------------------
(* Records with one field changed.                                          *)

LEMMA ConstantFacts ==
  /\ None \notin Keys /\ Host \notin Tenants /\ Host \in Keys /\ Host \notin States
  /\ MaxAge \in Nat /\ \A k \in Keys : Ttl(k) \in Nat
BY RoutingAssumption DEF RoutingAssumption, Keys, Ttl, States

LEMMA NothingIsRegs == Nothing \in Regs
BY DEF Nothing, Regs, Ops

LEMMA KeyOfRegs ==
  ASSUME NEW m \in Regs, NEW k \in Keys
  PROVE  /\ [m EXCEPT !.key = k] \in Regs
         /\ [m EXCEPT !.key = k].key = k
         /\ [m EXCEPT !.key = k].op = m.op /\ [m EXCEPT !.key = k].t = m.t
         /\ [m EXCEPT !.key = k].val = m.val
         /\ [m EXCEPT !.key = k].off = m.off /\ [m EXCEPT !.key = k].age = m.age
BY DEF Regs

Valued(m, v, n) == [m EXCEPT !.val = v, !.off = n]

LEMMA ValueOfRegs ==
  ASSUME NEW m \in Regs, NEW v \in Tenants \cup {None} \cup States, NEW n \in Nat
  PROVE  /\ Valued(m, v, n) \in Regs
         /\ Valued(m, v, n).val = v /\ Valued(m, v, n).off = n
         /\ Valued(m, v, n).op = m.op /\ Valued(m, v, n).t = m.t
         /\ Valued(m, v, n).key = m.key /\ Valued(m, v, n).age = m.age
<1> DEFINE y == [m EXCEPT !.val = v]
           x == [y EXCEPT !.off = n]
<1>1. y \in Regs /\ y.val = v /\ y.op = m.op /\ y.t = m.t /\ y.key = m.key /\ y.age = m.age
  BY DEF Regs
<1>2. Valued(m, v, n) = x
  BY DEF Valued
<1> HIDE DEF y
<1>3. x \in Regs /\ x.val = y.val /\ x.off = n /\ x.op = y.op /\ x.t = y.t
      /\ x.key = y.key /\ x.age = y.age
  BY <1>1 DEF Regs
<1> HIDE DEF x
<1> QED
  BY <1>1, <1>2, <1>3

LEMMA VisitRegs ==
  ASSUME NEW k \in Keys
  PROVE  LET x == [Nothing EXCEPT !.op = k, !.key = k]
         IN  /\ x \in Regs /\ x.op = k /\ x.key = k /\ x.age = 0
             /\ x.t = None /\ x.val = None /\ x.off = 0
BY DEF Nothing, Regs, Ops

Managed(op, t) == [Nothing EXCEPT !.op = op, !.t = t, !.key = Host]

LEMMA ManageRegs ==
  ASSUME NEW t \in Tenants, NEW op \in {"add", "verify", "delete"}
  PROVE  /\ Managed(op, t) \in Regs
         /\ Managed(op, t).op = op /\ Managed(op, t).t = t /\ Managed(op, t).key = Host
BY ConstantFacts DEF Managed, Nothing, Regs, Ops

LEMMA SetRegs ==
  ASSUME NEW t \in Tenants, NEW s \in States
  PROVE  LET x == [Nothing EXCEPT !.op = s, !.key = t]
         IN  x \in Regs /\ x.op = s /\ x.key = t /\ x.t = None
BY DEF Nothing, Regs, Ops, Keys

-----------------------------------------------------------------------------
(* A request goes on to another step with other registers.                  *)

Moves(a, s, m) == pc' = [pc EXCEPT ![a] = s] /\ my' = [my EXCEPT ![a] = m]

LEMMA Moved ==
  ASSUME Shape, NEW a \in Actors, NEW s \in Steps, NEW m \in Regs, Moves(a, s, m)
  PROVE  /\ pc' \in [Actors -> Steps] /\ my' \in [Actors -> Regs]
         /\ pc'[a] = s /\ my'[a] = m
         /\ \A b \in Actors : b # a => pc'[b] = pc[b] /\ my'[b] = my[b]
BY DEF Shape, Moves

\* Only the one that moves learns anything.
LEMMA MoveIsKnown ==
  ASSUME TypeInv, NEW a \in Actors, NEW s \in Steps, NEW m \in Regs, Moves(a, s, m), Knows(s, m)
  PROVE  \A b \in Actors : Known(b)'
<1> SUFFICES ASSUME NEW b \in Actors
             PROVE  Knows(pc'[b], my'[b])
  BY DEF Known, Knows, Answers, Keys
<1>1. CASE b = a
  BY <1>1, Moved DEF TypeInv
<1>2. CASE b # a
  BY <1>2, Moved DEF TypeInv, Known
<1> QED
  BY <1>1, <1>2

\* An answer sends a request on to the snapshot, or ends it.
LEMMA FoundMoves ==
  ASSUME NEW a \in Actors, NEW regs \in Regs, regs.key \in Keys,
         NEW val \in Answers(regs.key), Found(a, regs, val)
  PROVE  \/ /\ regs.key = Host /\ val \in Tenants /\ val # None
            /\ Moves(a, "get", [regs EXCEPT !.key = val])
         \/ Moves(a, "idle", Nothing)
<1>1. CASE regs.key = Host /\ val # None
  BY <1>1 DEF Found, Answers, Moves, Go, Know
<1>2. CASE ~(regs.key = Host /\ val # None)
  BY <1>2 DEF Found, Done, Moves, Go, Know
<1> QED
  BY <1>1, <1>2

LEMMA LookUpMoves ==
  ASSUME TypeInv, NEW a \in Actors, NEW regs \in Regs, regs.key \in Keys, LookUp(a, regs)
  PROVE  \/ Moves(a, "load", regs)
         \/ /\ regs.key = Host /\ cache[Host] # None
            /\ cache[Host].val \in Tenants /\ cache[Host].val # None
            /\ Moves(a, "get", [regs EXCEPT !.key = cache[Host].val])
         \/ Moves(a, "idle", Nothing)
<1>1. CASE cache[regs.key] = None
  BY <1>1 DEF LookUp, Moves, Go, Know
<1>2. CASE cache[regs.key] # None
  <2>1. Found(a, regs, cache[regs.key].val)
    BY <1>2 DEF LookUp
  <2>2. cache[regs.key].val \in Answers(regs.key)
    BY <1>2 DEF TypeInv, Timed
  <2> QED
    BY <1>2, <2>1, <2>2, FoundMoves
<1> QED
  BY <1>1, <1>2

\* The two ways a lookup begins.
LEMMA VisitMoves ==
  ASSUME TypeInv, NEW a \in Actors, NEW k \in Keys, Visit(a, k)
  PROVE  \E s \in {"load", "get", "idle"}, m \in Regs :
            /\ Moves(a, s, m)
            /\ s = "idle" => m = Nothing
            /\ s # "idle" =>
                 /\ m.age = 0 /\ m.key \in Keys /\ m.op = k
                 /\ m.key = k \/ (k = Host /\ cache[Host] # None
                                  /\ m.key = cache[Host].val /\ m.key # None)
<1> DEFINE x == [Nothing EXCEPT !.op = k, !.key = k]
<1>1. x \in Regs /\ x.op = k /\ x.key = k /\ x.age = 0
  BY VisitRegs
<1>2. LookUp(a, x)
  BY DEF Visit
<1> HIDE DEF x
<1>3. CASE Moves(a, "load", x)
  BY <1>1, <1>3
<1>4. CASE /\ x.key = Host /\ cache[Host] # None
           /\ cache[Host].val \in Tenants /\ cache[Host].val # None
           /\ Moves(a, "get", [x EXCEPT !.key = cache[Host].val])
  <2>1. cache[Host].val \in Keys
    BY <1>4 DEF Keys
  <2>2. LET y == [x EXCEPT !.key = cache[Host].val]
        IN  y \in Regs /\ y.key = cache[Host].val /\ y.op = x.op /\ y.age = x.age
    BY <1>1, <2>1, KeyOfRegs
  <2> QED
    BY <1>1, <1>4, <2>1, <2>2
<1>5. CASE Moves(a, "idle", Nothing)
  BY <1>5, NothingIsRegs
<1> QED
  BY <1>1, <1>2, <1>3, <1>4, <1>5, LookUpMoves

LEMMA GetMoves ==
  ASSUME TypeInv, NEW a \in Actors, Get(a)
  PROVE  \E s \in {"load", "get", "idle"}, m \in Regs :
            /\ Moves(a, s, m)
            /\ s = "idle" => m = Nothing
            /\ s # "idle" =>
                 /\ m.age = my[a].age /\ m.key \in Keys /\ m.op = my[a].op
                 /\ m.key = my[a].key \/ (my[a].key = Host /\ cache[Host] # None
                                          /\ m.key = cache[Host].val /\ m.key # None)
<1> DEFINE x == my[a]
<1>1. x \in Regs /\ x.key \in Keys /\ LookUp(a, x)
  BY DEF Get, TypeInv, Shape, Known, Knows
<1> HIDE DEF x
<1>3. CASE Moves(a, "load", x)
  BY <1>1, <1>3 DEF x
<1>4. CASE /\ x.key = Host /\ cache[Host] # None
           /\ cache[Host].val \in Tenants /\ cache[Host].val # None
           /\ Moves(a, "get", [x EXCEPT !.key = cache[Host].val])
  <2>1. cache[Host].val \in Keys
    BY <1>4 DEF Keys
  <2>2. LET y == [x EXCEPT !.key = cache[Host].val]
        IN  y \in Regs /\ y.key = cache[Host].val /\ y.op = x.op /\ y.age = x.age
    BY <1>1, <2>1, KeyOfRegs
  <2> QED
    BY <1>1, <1>4, <2>1, <2>2 DEF x
<1>5. CASE Moves(a, "idle", Nothing)
  BY <1>5, NothingIsRegs
<1> QED
  BY <1>1, <1>3, <1>4, <1>5, LookUpMoves

\* The load of what the database says.
LEMMA LoadMoves ==
  ASSUME TypeInv, NEW a \in Actors, Load(a)
  PROVE  \E s \in {"put", "idle"}, m \in Regs :
            /\ Moves(a, s, m)
            /\ s = "idle" => m = Nothing
            /\ s = "put" =>
                 /\ m.key = my[a].key /\ m.op = my[a].op /\ m.age = my[a].age
                 /\ m.val = Truth(m.key) /\ m.val \in Answers(m.key) /\ m.off = 0
<1> DEFINE k == my[a].key
           x == Valued(my[a], Truth(k), 0)
<1>1. my[a] \in Regs /\ k \in Keys
  BY DEF Load, TypeInv, Shape, Known, Knows
<1>2. CASE Truth(k) = "gone"
  BY <1>2, NothingIsRegs DEF Load, Done, Go, Know, Moves
<1>3. CASE Truth(k) # "gone"
  <2>1. Truth(k) \in Answers(k)
    BY <1>1, <1>3 DEF Truth, ByDomain, Answers, TypeInv, Shape, Keys
  <2>2. Truth(k) \in Tenants \cup {None} \cup States
    BY <2>1 DEF Answers
  <2>3. /\ x \in Regs /\ x.val = Truth(k) /\ x.off = 0
        /\ x.key = k /\ x.op = my[a].op /\ x.age = my[a].age
    BY <1>1, <2>2, ValueOfRegs
  <2>4. Moves(a, "put", x)
    BY <1>3 DEF Load, Go, Know, Moves, Valued
  <2> HIDE DEF x
  <2> QED
    BY <2>1, <2>3, <2>4
<1> QED
  BY <1>2, <1>3

LEMMA PutMoves ==
  ASSUME TypeInv, NEW a \in Actors, Put(a)
  PROVE  \E s \in {"get", "idle"}, m \in Regs :
            /\ Moves(a, s, m)
            /\ s = "idle" => m = Nothing
            /\ s = "get" => /\ m.age = my[a].age /\ m.op = my[a].op /\ m.key \in Keys
                            /\ my[a].key = Host /\ m.key = my[a].val /\ m.key # None
<1> DEFINE x == Valued(my[a], None, 0)
<1>1. my[a] \in Regs /\ my[a].key \in Keys /\ my[a].val \in Answers(my[a].key)
  BY DEF Put, TypeInv, Shape, Known, Knows
<1>2. x \in Regs /\ x.key = my[a].key /\ x.op = my[a].op /\ x.age = my[a].age
  BY <1>1, ValueOfRegs
<1>3. Found(a, x, my[a].val)
  BY DEF Put, Valued
<1> HIDE DEF x
<1>4. CASE /\ x.key = Host /\ my[a].val \in Tenants /\ my[a].val # None
           /\ Moves(a, "get", [x EXCEPT !.key = my[a].val])
  <2>1. my[a].val \in Keys
    BY <1>4 DEF Keys
  <2>2. LET y == [x EXCEPT !.key = my[a].val]
        IN  y \in Regs /\ y.key = my[a].val /\ y.op = x.op /\ y.age = x.age
    BY <1>2, <2>1, KeyOfRegs
  <2> QED
    BY <1>2, <1>4, <2>1, <2>2
<1>5. CASE Moves(a, "idle", Nothing)
  BY <1>5, NothingIsRegs
<1> QED
  BY <1>1, <1>2, <1>3, <1>4, <1>5, FoundMoves

-----------------------------------------------------------------------------
(* TypeInv is kept.                                                         *)

\* A step that touches nothing but the registers of one request.
LEMMA QuietType ==
  ASSUME TypeInv, NEW a \in Actors, NEW s \in Steps, NEW m \in Regs, Moves(a, s, m), Knows(s, m),
         UNCHANGED <<tenant, link, cache>>,
         proved' \subseteq Tenants, excused' \subseteq Keys
  PROVE  TypeInv'
<1>1. \A b \in Actors : Known(b)'
  BY MoveIsKnown
<1>2. Shape'
  BY Moved DEF TypeInv, Shape
<1>3. Linked' /\ \A k \in Keys : Timed(k)'
  BY DEF TypeInv, Linked, Timed
<1> QED
  BY <1>1, <1>2, <1>3 DEF TypeInv

LEMMA IdleKnows == Knows("idle", Nothing) /\ Nothing \in Regs
BY NothingIsRegs DEF Knows

LEMMA VisitType ==
  ASSUME TypeInv, NEW a \in Actors, NEW k \in Keys, Visit(a, k)
  PROVE  TypeInv'
<1>1. PICK s \in {"load", "get", "idle"}, m \in Regs :
         /\ Moves(a, s, m)
         /\ s = "idle" => m = Nothing
         /\ s # "idle" => m.age = 0 /\ m.key \in Keys
  BY VisitMoves
<1>2. Knows(s, m) /\ s \in Steps
  BY <1>1, ConstantFacts DEF Knows, Steps
<1>3. UNCHANGED <<tenant, link, cache, proved, excused>>
  BY DEF Visit, LookUp
<1> QED
  BY <1>1, <1>2, <1>3, QuietType DEF TypeInv, Shape

LEMMA GetType ==
  ASSUME TypeInv, NEW a \in Actors, Get(a)
  PROVE  TypeInv'
<1>1. PICK s \in {"load", "get", "idle"}, m \in Regs :
         /\ Moves(a, s, m)
         /\ s = "idle" => m = Nothing
         /\ s # "idle" => m.age = my[a].age /\ m.key \in Keys
  BY GetMoves
<1>2. my[a].age <= MaxAge
  BY DEF Get, TypeInv, Known, Knows
<1>3. Knows(s, m) /\ s \in Steps
  BY <1>1, <1>2 DEF Knows, Steps
<1>4. UNCHANGED <<tenant, link, cache, proved, excused>>
  BY DEF Get, LookUp
<1> QED
  BY <1>1, <1>3, <1>4, QuietType DEF TypeInv, Shape

LEMMA LoadType ==
  ASSUME TypeInv, NEW a \in Actors, Load(a)
  PROVE  TypeInv'
<1>1. PICK s \in {"put", "idle"}, m \in Regs :
         /\ Moves(a, s, m)
         /\ s = "idle" => m = Nothing
         /\ s = "put" => /\ m.key = my[a].key /\ m.age = my[a].age
                         /\ m.val \in Answers(m.key) /\ m.off = 0
  BY LoadMoves
<1>2. my[a].age <= MaxAge /\ my[a].key \in Keys /\ my[a].age \in Nat
  BY DEF Load, TypeInv, Known, Knows, Shape, Regs
<1>3. Knows(s, m) /\ s \in Steps
  BY <1>1, <1>2 DEF Knows, Steps
<1>4. UNCHANGED <<tenant, link, cache, proved, excused>>
  BY DEF Load
<1> QED
  BY <1>1, <1>3, <1>4, QuietType DEF TypeInv, Shape

LEMMA PutType ==
  ASSUME TypeInv, NEW a \in Actors, Put(a)
  PROVE  TypeInv'
<1> DEFINE k == my[a].key
           e == [val |-> my[a].val, left |-> Ttl(k), off |-> my[a].off]
<1>1. PICK s \in {"get", "idle"}, m \in Regs :
         /\ Moves(a, s, m)
         /\ s = "idle" => m = Nothing
         /\ s = "get" => m.age = my[a].age /\ m.key \in Keys
  BY PutMoves
<1>2. /\ my[a].age <= MaxAge /\ my[a].off <= my[a].age /\ k \in Keys
      /\ my[a].age \in Nat /\ my[a].off \in Nat /\ my[a].val \in Answers(k)
  BY DEF Put, TypeInv, Known, Knows, Shape, Regs
<1>3. Knows(s, m) /\ s \in Steps
  BY <1>1, <1>2 DEF Knows, Steps
<1>4. \A b \in Actors : Known(b)'
  BY <1>1, <1>3, MoveIsKnown
<1>5. e \in Entries /\ e.val = my[a].val /\ e.left = Ttl(k) /\ e.off = my[a].off
  BY <1>2, ConstantFacts DEF Entries, Answers
<1>6. cache' = [cache EXCEPT ![k] = e] /\ UNCHANGED <<tenant, link, proved>>
  BY DEF Put
<1>7. excused' \subseteq Keys
  BY <1>2 DEF Put, TypeInv, Shape
<1> HIDE DEF e, k
<1>8. Shape'
  BY <1>1, <1>3, <1>5, <1>6, <1>7, Moved DEF TypeInv, Shape
<1>9. Linked'
  BY <1>6 DEF TypeInv, Linked
<1>10. ASSUME NEW j \in Keys PROVE Timed(j)'
  <2>1. CASE j = k
    <3>1. cache'[j] = e
      BY <1>6, <2>1 DEF TypeInv, Shape
    <3>2. e.val \in Answers(j) /\ e.left <= Ttl(j) /\ e.off + e.left <= Ttl(j) + MaxAge
      BY <1>2, <1>5, <2>1, ConstantFacts
    <3> QED
      BY <3>1, <3>2 DEF Timed, Answers, Ttl
  <2>2. CASE j # k
    <3>1. cache'[j] = cache[j]
      BY <1>6, <2>2 DEF TypeInv, Shape
    <3> QED
      BY <3>1 DEF TypeInv, Timed, Answers, Ttl
  <2> QED
    BY <2>1, <2>2
<1> QED
  BY <1>4, <1>8, <1>9, <1>10 DEF TypeInv

LEMMA ManageType ==
  ASSUME TypeInv, NEW a \in Actors, NEW t \in Tenants, NEW op \in {"add", "verify", "delete"},
         Manage(a, t, op)
  PROVE  TypeInv'
<1> DEFINE x == Managed(op, t)
           s == IF op = "verify" THEN "dns" ELSE "write"
<1>1. x \in Regs /\ x.t = t /\ x.key = Host
  BY ManageRegs
<1>2. Moves(a, s, x) /\ UNCHANGED <<tenant, link, cache, proved, excused>>
  BY DEF Manage, Managed, Moves, Go, Know
<1> HIDE DEF x
<1>3. Knows(s, x) /\ s \in Steps
  BY <1>1, ConstantFacts DEF Knows, Steps
<1> HIDE DEF s
<1> QED
  BY <1>1, <1>2, <1>3, QuietType DEF TypeInv, Shape

LEMMA DnsMoves ==
  ASSUME TypeInv, NEW a \in Actors, Dns(a)
  PROVE  \/ /\ Moves(a, "write", my[a]) /\ my[a] \in Regs
            /\ my[a].key = Host /\ my[a].t \in Tenants
            /\ proved' = proved \cup {my[a].t}
         \/ Moves(a, "idle", Nothing) /\ proved' = proved
<1>1. my[a] \in Regs /\ my[a].key = Host /\ my[a].t \in Tenants
  BY DEF Dns, TypeInv, Shape, Known, Knows
<1>2. CASE proved' = proved \cup {my[a].t} /\ Go(a, "write") /\ UNCHANGED my
  <2>1. my' = [my EXCEPT ![a] = my[a]]
    BY <1>2 DEF TypeInv, Shape
  <2> QED
    BY <1>1, <1>2, <2>1 DEF Moves, Go
<1>3. CASE Done(a) /\ UNCHANGED proved
  BY <1>3 DEF Done, Moves, Go, Know
<1> QED
  BY <1>2, <1>3 DEF Dns

LEMMA DnsType ==
  ASSUME TypeInv, NEW a \in Actors, Dns(a)
  PROVE  TypeInv'
<1>1. UNCHANGED <<tenant, link, cache, excused>> /\ proved' \subseteq Tenants
  BY DnsMoves DEF Dns, TypeInv, Shape
<1>2. CASE /\ Moves(a, "write", my[a]) /\ my[a] \in Regs
           /\ my[a].key = Host /\ my[a].t \in Tenants
  <2>1. Knows("write", my[a])
    BY <1>2, ConstantFacts DEF Knows
  <2> QED
    BY <1>1, <1>2, <2>1, QuietType DEF TypeInv, Shape, Steps
<1>3. CASE Moves(a, "idle", Nothing)
  BY <1>1, <1>3, IdleKnows, QuietType DEF TypeInv, Shape, Steps
<1> QED
  BY <1>2, <1>3, DnsMoves

\* What a write leaves of the domain's row is a row of a tenant there is.
LEMMA WriteMoves ==
  ASSUME TypeInv, NEW a \in Actors, Write(a)
  PROVE  \/ Moves(a, "idle", Nothing) /\ link' = link
         \/ /\ Moves(a, "drop", my[a]) /\ my[a] \in Regs /\ my[a].key = Host
            /\ ~Refused(a) /\ link' = NewLink(a)
<1>1. my[a] \in Regs /\ my[a].key = Host
  BY DEF Write, TypeInv, Shape, Known, Knows
<1>2. CASE Refused(a)
  BY <1>2 DEF Write, Done, Moves, Go, Know
<1>3. CASE ~Refused(a)
  <2>1. Go(a, "drop") /\ my' = my /\ link' = NewLink(a)
    BY <1>3 DEF Write
  <2>2. my' = [my EXCEPT ![a] = my[a]]
    BY <2>1 DEF TypeInv, Shape
  <2> QED
    BY <1>1, <1>3, <2>1, <2>2 DEF Moves, Go
<1> QED
  BY <1>2, <1>3

LEMMA NewLinkType ==
  ASSUME TypeInv, NEW a \in Actors, pc[a] = "write", Managing(a), ~Refused(a)
  PROVE  NewLink(a) # None =>
           /\ NewLink(a) \in [tenant : Tenants, verified : BOOLEAN]
           /\ tenant[NewLink(a).tenant] # "gone"
<1>1. my[a].t \in Tenants
  BY DEF TypeInv, Known, Knows
<1>2. link = None \/ link \in [tenant : Tenants, verified : BOOLEAN]
  BY DEF TypeInv, Shape
<1>3. CASE my[a].op = "add"
  <2>1. tenant[my[a].t] # "gone"
    BY <1>3 DEF Refused
  <2>2. CASE link = None
    <3>1. NewLink(a) = [tenant |-> my[a].t, verified |-> FALSE]
      BY <1>3, <2>2 DEF NewLink
    <3> QED
      BY <1>1, <2>1, <3>1
  <2>3. CASE link # None
    <3>1. NewLink(a) = [link EXCEPT !.tenant = my[a].t]
      BY <1>3, <2>3 DEF NewLink
    <3> QED
      BY <1>1, <1>2, <2>1, <2>3, <3>1
  <2> QED
    BY <2>2, <2>3
<1>4. CASE my[a].op = "verify"
  <2>1. link # None
    BY <1>4 DEF Refused
  <2>2. NewLink(a) = [link EXCEPT !.verified = TRUE]
    BY <1>4, <2>1 DEF NewLink
  <2> QED
    BY <1>2, <2>1, <2>2 DEF TypeInv, Linked
<1>5. CASE my[a].op = "delete"
  BY <1>5 DEF Refused, NewLink
<1> QED
  BY <1>3, <1>4, <1>5 DEF Managing

LEMMA WriteType ==
  ASSUME TypeInv, NEW a \in Actors, Write(a)
  PROVE  TypeInv'
<1>1. /\ UNCHANGED <<tenant, cache, proved, excused>>
      /\ pc[a] = "write" /\ Managing(a)
  BY DEF Write
<1>2. CASE Moves(a, "idle", Nothing) /\ link' = link
  BY <1>1, <1>2, IdleKnows, QuietType DEF TypeInv, Shape, Steps
<1>3. CASE /\ Moves(a, "drop", my[a]) /\ my[a] \in Regs /\ my[a].key = Host
           /\ ~Refused(a) /\ link' = NewLink(a)
  <2>1. Knows("drop", my[a]) /\ "drop" \in Steps
    BY <1>3, ConstantFacts DEF Knows, Steps
  <2>2. \A b \in Actors : Known(b)'
    BY <1>3, <2>1, MoveIsKnown
  <2>3. link' # None => /\ link' \in [tenant : Tenants, verified : BOOLEAN]
                        /\ tenant[link'.tenant] # "gone"
    BY <1>1, <1>3, NewLinkType
  <2>4. pc' \in [Actors -> Steps] /\ my' \in [Actors -> Regs]
    BY <1>3, <2>1, Moved DEF TypeInv
  <2>5. Shape'
    BY <1>1, <2>3, <2>4 DEF TypeInv, Shape
  <2>6. Linked' /\ \A k \in Keys : Timed(k)'
    BY <1>1, <2>3 DEF TypeInv, Linked, Timed
  <2> QED
    BY <2>2, <2>5, <2>6 DEF TypeInv
<1> QED
  BY <1>2, <1>3, WriteMoves

LEMMA DropType ==
  ASSUME TypeInv, NEW a \in Actors, Drop(a)
  PROVE  TypeInv'
<1>1. /\ UNCHANGED <<tenant, link, proved>> /\ my[a].key \in Keys
      /\ cache' = [cache EXCEPT ![my[a].key] = None] /\ excused' \subseteq Keys
      /\ Moves(a, "idle", Nothing)
  BY DEF Drop, Done, Go, Know, Moves, TypeInv, Known, Knows, Shape
<1>2. \A b \in Actors : Known(b)'
  BY <1>1, IdleKnows, MoveIsKnown DEF Steps
<1>3. Shape'
  BY <1>1, IdleKnows, Moved DEF TypeInv, Shape, Steps
<1>4. Linked'
  BY <1>1 DEF TypeInv, Linked
<1>5. \A k \in Keys : Timed(k)'
  BY <1>1 DEF TypeInv, Timed, Shape, Answers, Ttl
<1> QED
  BY <1>2, <1>3, <1>4, <1>5 DEF TypeInv

LEMMA CrashType ==
  ASSUME TypeInv, NEW a \in Actors, Crash(a)
  PROVE  TypeInv'
<1>1. /\ UNCHANGED <<tenant, link, cache, proved>> /\ excused' \subseteq Keys
      /\ Moves(a, "idle", Nothing)
  BY DEF Crash, Done, Go, Know, Moves, TypeInv, Known, Knows, Shape
<1> QED
  BY <1>1, IdleKnows, QuietType DEF TypeInv, Shape, Steps

LEMMA SetTenantType ==
  ASSUME TypeInv, NEW a \in Actors, NEW t \in Tenants, NEW state \in States,
         SetTenant(a, t, state)
  PROVE  TypeInv'
<1> DEFINE x == [Nothing EXCEPT !.op = state, !.key = t]
<1>1. x \in Regs /\ x.key = t /\ t \in Keys
  BY SetRegs DEF Keys
<1>2. Moves(a, "drop", x) /\ tenant' = [tenant EXCEPT ![t] = state] /\ UNCHANGED <<cache, proved>>
  BY DEF SetTenant, Moves, Go, Know
<1> HIDE DEF x
<1>3. Knows("drop", x) /\ "drop" \in Steps
  BY <1>1 DEF Knows, Steps
<1>4. \A b \in Actors : Known(b)'
  BY <1>1, <1>2, <1>3, MoveIsKnown
<1>5. link' \in {link, None} /\ excused' \subseteq Keys
  BY ConstantFacts DEF SetTenant, TypeInv, Shape
<1>6. Shape'
  BY <1>1, <1>2, <1>3, <1>5, Moved DEF TypeInv, Shape
<1>7. Linked'
  BY <1>2, <1>5 DEF SetTenant, Owned, TypeInv, Shape, Linked
<1>8. \A k \in Keys : Timed(k)'
  BY <1>2 DEF TypeInv, Timed
<1> QED
  BY <1>4, <1>6, <1>7, <1>8 DEF TypeInv

LEMMA ExpireType ==
  ASSUME TypeInv, NEW t \in Tenants, ExpireDemo(t)
  PROVE  TypeInv'
<1>1. /\ tenant' = [tenant EXCEPT ![t] = "closed"] /\ excused' \subseteq Keys
      /\ UNCHANGED <<link, cache, pc, my, proved>>
  BY DEF ExpireDemo, TypeInv, Shape, Keys
<1>2. Shape'
  BY <1>1 DEF TypeInv, Shape, States
<1>3. Linked'
  BY <1>1 DEF TypeInv, Shape, Linked
<1>4. (\A a \in Actors : Known(a)') /\ \A k \in Keys : Timed(k)'
  BY <1>1 DEF TypeInv, Known, Timed
<1> QED
  BY <1>2, <1>3, <1>4 DEF TypeInv

-----------------------------------------------------------------------------
(* The clock.                                                               *)

LEMMA OffGrows ==
  ASSUME NEW val, NEW k, NEW n \in Nat
  PROVE  Off(val, k, n) \in 0..(n + 1)
BY DEF Off

Aged(e, n) == [e EXCEPT !.left = @ - 1, !.off = n]

LEMMA AgedEntry ==
  ASSUME NEW e \in Entries, e.left # 0, NEW n \in Nat
  PROVE  /\ Aged(e, n) \in Entries
         /\ Aged(e, n).val = e.val /\ Aged(e, n).left = e.left - 1 /\ Aged(e, n).off = n
<1> DEFINE y == [e EXCEPT !.left = @ - 1]
           x == [y EXCEPT !.off = n]
<1>1. y \in Entries /\ y.val = e.val /\ y.left = e.left - 1
  BY DEF Entries
<1>2. Aged(e, n) = x
  BY DEF Aged
<1> HIDE DEF y
<1>3. x \in Entries /\ x.val = y.val /\ x.left = y.left /\ x.off = n
  BY <1>1 DEF Entries
<1> HIDE DEF x
<1> QED
  BY <1>1, <1>2, <1>3

\* A tick takes one from the time left and adds at most one to the time off.
LEMMA OlderEntry ==
  ASSUME TypeInv, NEW k \in Keys, Older(k) # None
  PROVE  /\ cache[k] # None /\ cache[k] \in Entries /\ Older(k) \in Entries
         /\ Older(k).val = cache[k].val
         /\ Older(k).left = cache[k].left - 1 /\ Older(k).off <= cache[k].off + 1
<1> DEFINE e == cache[k]
           n == Off(e.val, k, e.off)
<1>1. e # None /\ e.left # 0
  BY DEF Older
<1>2. e \in Entries /\ e.off \in Nat
  BY <1>1 DEF TypeInv, Shape, Entries
<1>3. Older(k) = Aged(e, n)
  BY <1>1 DEF Older, Aged
<1>4. n \in Nat /\ n <= e.off + 1
  BY <1>2, OffGrows
<1> HIDE DEF e, n
<1>5. Aged(e, n).val = e.val /\ Aged(e, n).left = e.left - 1 /\ Aged(e, n).off = n
      /\ Aged(e, n) \in Entries
  BY <1>1, <1>2, <1>4, AgedEntry
<1> QED
  BY <1>1, <1>2, <1>3, <1>4, <1>5 DEF e

Waited(m, n) == [m EXCEPT !.age = @ + 1, !.off = n]

LEMMA WaitedRegs ==
  ASSUME NEW m \in Regs, NEW n \in Nat
  PROVE  /\ Waited(m, n) \in Regs
         /\ Waited(m, n).age = m.age + 1 /\ Waited(m, n).off = n
         /\ Waited(m, n).op = m.op /\ Waited(m, n).t = m.t
         /\ Waited(m, n).key = m.key /\ Waited(m, n).val = m.val
<1> DEFINE y == [m EXCEPT !.age = @ + 1]
           x == [y EXCEPT !.off = n]
<1>1. y \in Regs /\ y.age = m.age + 1 /\ y.op = m.op /\ y.t = m.t /\ y.key = m.key /\ y.val = m.val
  BY DEF Regs
<1>2. Waited(m, n) = x
  BY DEF Waited
<1> HIDE DEF y
<1>3. x \in Regs /\ x.age = y.age /\ x.off = n /\ x.op = y.op /\ x.t = y.t
      /\ x.key = y.key /\ x.val = y.val
  BY <1>1 DEF Regs
<1> HIDE DEF x
<1> QED
  BY <1>1, <1>2, <1>3

\* To the registers too, and to nothing else of them.
LEMMA TickRegs ==
  ASSUME TypeInv, Tick, NEW a \in Actors
  PROVE  /\ my'[a] \in Regs
         /\ my'[a].op = my[a].op /\ my'[a].t = my[a].t
         /\ my'[a].key = my[a].key /\ my'[a].val = my[a].val
         /\ ~Reading(a) => my'[a] = my[a]
         /\ Reading(a) => my'[a].age = my[a].age + 1 /\ my'[a].age <= MaxAge
         /\ pc[a] = "put" => my'[a].off <= my[a].off + 1
<1> DEFINE m == my[a]
           n == IF pc[a] = "put" THEN Off(m.val, m.key, m.off) ELSE 0
<1>1. m \in Regs /\ m.off \in Nat /\ m.age \in Nat
  BY DEF TypeInv, Shape, Regs
<1>2. n \in Nat /\ (pc[a] = "put" => n <= m.off + 1)
  BY <1>1, OffGrows
<1>3. CASE Reading(a)
  <2>1. my'[a] = Waited(m, n)
    BY <1>3 DEF Tick, Waited
  <2>2. m.age < MaxAge
    BY <1>3 DEF Tick
  <2> HIDE DEF m, n
  <2>3. Waited(m, n) \in Regs /\ Waited(m, n).age = m.age + 1 /\ Waited(m, n).off = n
        /\ Waited(m, n).op = m.op /\ Waited(m, n).t = m.t
        /\ Waited(m, n).key = m.key /\ Waited(m, n).val = m.val
    BY <1>1, <1>2, WaitedRegs
  <2> QED
    BY <1>1, <1>2, <1>3, <2>1, <2>2, <2>3, ConstantFacts DEF m
<1>4. CASE ~Reading(a)
  <2>1. my'[a] = m
    BY <1>4 DEF Tick
  <2>2. pc[a] # "put"
    BY <1>4 DEF Reading
  <2> QED
    BY <1>1, <1>4, <2>1, <2>2
<1> QED
  BY <1>3, <1>4

LEMMA TickType ==
  ASSUME TypeInv, Tick
  PROVE  TypeInv'
<1>1. /\ cache' = [k \in Keys |-> Older(k)] /\ UNCHANGED <<tenant, link, pc, proved>>
      /\ excused' \subseteq Keys
  BY DEF Tick, TypeInv, Shape
<1>2. \A k \in Keys : Older(k) \in {None} \cup Entries
  BY OlderEntry
<1>3. my' \in [Actors -> Regs]
  <2>1. DOMAIN my' = Actors /\ my' = [b \in Actors |-> my'[b]]
    BY DEF Tick
  <2> QED
    BY <2>1, TickRegs
<1>4. Shape'
  BY <1>1, <1>2, <1>3 DEF TypeInv, Shape
<1>5. Linked'
  BY <1>1 DEF TypeInv, Linked
<1>6. ASSUME NEW a \in Actors PROVE Known(a)'
  <2>1. Knows(pc[a], my[a]) /\ my[a] \in Regs /\ pc'[a] = pc[a]
    BY <1>1 DEF TypeInv, Known, Shape
  <2>2. CASE Reading(a)
    <3>1. my'[a].age <= MaxAge /\ my'[a].key = my[a].key /\ my'[a].val = my[a].val
          /\ (pc[a] = "put" => my'[a].off <= my'[a].age)
      <4>1. pc[a] = "put" => my[a].off <= my[a].age
        BY <2>1 DEF Knows
      <4> QED
        BY <2>1, <2>2, <4>1, TickRegs DEF Regs
    <3>2. Knows(pc[a], my'[a])
      BY <2>1, <2>2, <3>1 DEF Knows, Reading
    <3> QED
      BY <2>1, <3>2 DEF Known, Knows, Answers
  <2>3. CASE ~Reading(a)
    BY <2>1, <2>3, TickRegs DEF Known, Knows, Answers
  <2> QED
    BY <2>2, <2>3
<1>7. ASSUME NEW k \in Keys PROVE Timed(k)'
  <2>1. CASE Older(k) = None
    BY <1>1, <2>1 DEF Timed
  <2>2. CASE Older(k) # None
    <3>1. /\ cache[k].val \in Answers(k) /\ cache[k].left <= Ttl(k)
          /\ cache[k].off + cache[k].left <= Ttl(k) + MaxAge
      BY <2>2, OlderEntry DEF TypeInv, Timed
    <3>2. /\ Older(k).val \in Answers(k) /\ Older(k).left <= Ttl(k)
          /\ Older(k).off + Older(k).left <= Ttl(k) + MaxAge
      BY <2>2, <3>1, OlderEntry, ConstantFacts DEF Entries
    <3>3. cache'[k] = Older(k)
      BY <1>1
    <3> QED
      BY <3>2, <3>3 DEF Timed, Answers, Ttl
  <2> QED
    BY <2>1, <2>2
<1> QED
  BY <1>4, <1>5, <1>6, <1>7 DEF TypeInv

-----------------------------------------------------------------------------
(* Types and times.                                                         *)

LEMMA InitType ==
  ASSUME Init
  PROVE  TypeInv
<1>1. Shape
  BY NothingIsRegs DEF Init, Shape, Steps, States
<1>2. \A a \in Actors : Known(a)
  BY DEF Init, Known, Knows
<1>3. Linked /\ \A k \in Keys : Timed(k)
  BY DEF Init, Linked, Timed
<1> QED
  BY <1>1, <1>2, <1>3 DEF TypeInv

LEMMA StepsOf ==
  ASSUME NEW a \in Actors, Request(a) \/ Lookup(a) \/ Change(a) \/ Crash(a)
  PROVE  \/ \E k \in Keys : Visit(a, k)
         \/ \E t \in Tenants, op \in {"add", "verify", "delete"} : Manage(a, t, op)
         \/ \E t \in Tenants, state \in States : SetTenant(a, t, state)
         \/ Get(a) \/ Load(a) \/ Put(a) \/ Dns(a) \/ Write(a) \/ Drop(a) \/ Crash(a)
BY DEF Request, Lookup, Change, States

LEMMA TypeNext ==
  ASSUME TypeInv, [Next]_vars
  PROVE  TypeInv'
<1>1. ASSUME NEW a \in Actors, Request(a) \/ Lookup(a) \/ Change(a) \/ Crash(a)
      PROVE  TypeInv'
  BY <1>1, StepsOf, VisitType, ManageType, SetTenantType, GetType, LoadType, PutType,
     DnsType, WriteType, DropType, CrashType
<1>2. ASSUME NEW t \in Tenants, ExpireDemo(t)
      PROVE  TypeInv'
  BY <1>2, ExpireType
<1>3. CASE Tick
  BY <1>3, TickType
<1>4. CASE UNCHANGED vars
  BY <1>4 DEF vars, TypeInv, Shape, Linked, Known, Knows, Timed, Answers, Ttl
<1> QED
  BY <1>1, <1>2, <1>3, <1>4 DEF Next

LEMMA TypesHold == Spec => []TypeInv
BY InitType, TypeNext, PTL DEF Spec

\* Every variable keeps its type, the domain's row is always that of a tenant
\* that exists (the row goes with the tenant's), and a request of the middleware
\* or of DomainService that is through holds nothing.
THEOREM TypeCorrect == Spec => []TypeOK
<1>1. TypeInv => TypeOK
  <2> SUFFICES ASSUME TypeInv
               PROVE  TypeOK
    OBVIOUS
  <2>1. ASSUME NEW k \in Keys, cache[k] # None
        PROVE  /\ cache[k].left \in 0..Ttl(k) /\ cache[k].off \in Nat
               /\ cache[k].val \in IF k = Host THEN Tenants \cup {None} ELSE States \ {"gone"}
    <3>1. cache[k] \in Entries
      BY <2>1 DEF TypeInv, Shape
    <3>2. cache[k].val \in Answers(k) /\ cache[k].left <= Ttl(k)
      BY <2>1 DEF TypeInv, Timed
    <3> QED
      BY <3>1, <3>2, ConstantFacts DEF Entries, Answers
  <2>2. ASSUME NEW a \in Actors
        PROVE  pc[a] \in Steps /\ (pc[a] = "idle" <=> my[a] = Nothing)
    <3>1. pc[a] \in Steps /\ Knows(pc[a], my[a])
      BY DEF TypeInv, Shape, Known
    <3>2. Nothing.key \notin Keys
      BY ConstantFacts DEF Nothing
    <3> QED
      BY <3>1, <3>2 DEF Knows
  <2> QED
    BY <2>1, <2>2 DEF TypeInv, Shape, Linked, TypeOK
<1> QED
  BY <1>1, TypesHold, PTL

\* An entry of the routing caches that the database does not bear out any more is
\* served no longer than its time to live and the time a lookup takes, although a
\* lookup puts what it read after the writer has invalidated.
THEOREM StaleIsBounded == Spec => []StaleNoLonger
<1>1. TypeInv => StaleNoLonger
  <2> SUFFICES ASSUME TypeInv, NEW k \in Keys, cache[k] # None
               PROVE  cache[k].off <= Ttl(k) + MaxAge
    BY DEF StaleNoLonger
  <2>1. cache[k] \in Entries /\ cache[k].off + cache[k].left <= Ttl(k) + MaxAge
    BY DEF TypeInv, Shape, Timed
  <2> QED
    BY <2>1, ConstantFacts DEF Entries
<1> QED
  BY <1>1, TypesHold, PTL

-----------------------------------------------------------------------------
(* The cache says what the database says.                                   *)

\* What the invariant says of one key.
Current(k) ==
    \/ k \in excused \/ cache[k] = None \/ cache[k].val = Truth(k)
    \/ \E a \in Actors : pc[a] = "drop" /\ my[a].key = k

\* A step of a request that is not invalidating anything, and leaves cache and
\* database alone.
LEMMA QuietCurrent ==
  ASSUME TypeInv, NEW a \in Actors, NEW s \in Steps, NEW m \in Regs, Moves(a, s, m),
         pc[a] # "drop", UNCHANGED <<tenant, link, cache, excused>>,
         NEW k \in Keys, Current(k)
  PROVE  Current(k)'
<1>1. CASE \E b \in Actors : pc[b] = "drop" /\ my[b].key = k
  <2>1. PICK b \in Actors : pc[b] = "drop" /\ my[b].key = k
    BY <1>1
  <2>2. pc'[b] = "drop" /\ my'[b].key = k
    BY <2>1, Moved DEF TypeInv
  <2> QED
    BY <2>2 DEF Current
<1>2. CASE k \in excused \/ cache[k] = None \/ cache[k].val = Truth(k)
  BY <1>2 DEF Current, Truth, ByDomain
<1> QED
  BY <1>1, <1>2 DEF Current

\* A load that was not overtaken puts what is true; the other entries and those
\* who are about to invalidate them stay.
LEMMA PutCurrent ==
  ASSUME TypeInv, NEW a \in Actors, Put(a), NEW k \in Keys, Current(k)
  PROVE  Current(k)'
<1> DEFINE e == [val |-> my[a].val, left |-> Ttl(my[a].key), off |-> my[a].off]
<1>1. /\ cache' = [cache EXCEPT ![my[a].key] = e] /\ UNCHANGED <<tenant, link>>
      /\ excused' = (excused \ {my[a].key})
                      \cup (IF my[a].val = Truth(my[a].key) THEN {} ELSE {my[a].key})
  BY DEF Put
<1>2. PICK s \in {"get", "idle"}, m \in Regs : Moves(a, s, m)
  BY PutMoves
<1>3. CASE k = my[a].key
  <2>1. cache'[k].val = my[a].val
    BY <1>1, <1>3 DEF TypeInv, Shape
  <2>2. k \in excused' \/ my[a].val = Truth(k)
    BY <1>1, <1>3
  <2> QED
    BY <1>1, <2>1, <2>2 DEF Current, Truth, ByDomain
<1>4. CASE k # my[a].key
  <2>1. cache'[k] = cache[k] /\ (k \in excused' <=> k \in excused)
    BY <1>1, <1>4 DEF TypeInv, Shape
  <2>2. ASSUME NEW b \in Actors, pc[b] = "drop", my[b].key = k
        PROVE  pc'[b] = "drop" /\ my'[b].key = k
    <3>1. b # a
      BY <2>2 DEF Put
    <3> QED
      BY <1>2, <2>2, <3>1, Moved DEF TypeInv, Steps
  <2> QED
    BY <1>1, <2>1, <2>2 DEF Current, Truth, ByDomain
<1> QED
  BY <1>3, <1>4

\* Who has written the domain's row is about to invalidate its entry.
LEMMA WriteCurrent ==
  ASSUME TypeInv, NEW a \in Actors, Write(a), NEW k \in Keys, Current(k)
  PROVE  Current(k)'
<1>1. UNCHANGED <<tenant, cache, excused>> /\ pc[a] = "write"
  BY DEF Write
<1>2. CASE Moves(a, "idle", Nothing) /\ link' = link
  BY <1>1, <1>2, IdleKnows, QuietCurrent DEF Steps
<1>3. CASE Moves(a, "drop", my[a]) /\ my[a] \in Regs /\ my[a].key = Host
  <2>1. pc'[a] = "drop" /\ my'[a].key = Host
        /\ \A b \in Actors : b # a => pc'[b] = pc[b] /\ my'[b] = my[b]
    BY <1>3, Moved DEF TypeInv, Steps
  <2>2. CASE k = Host
    BY <2>1, <2>2 DEF Current
  <2>3. CASE k # Host
    BY <1>1, <2>1, <2>3 DEF Current, Truth
  <2> QED
    BY <2>2, <2>3
<1> QED
  BY <1>2, <1>3, WriteMoves

LEMMA DropCurrent ==
  ASSUME TypeInv, NEW a \in Actors, Drop(a), NEW k \in Keys, Current(k)
  PROVE  Current(k)'
<1>1. /\ UNCHANGED <<tenant, link>> /\ my[a].key \in Keys
      /\ cache' = [cache EXCEPT ![my[a].key] = None] /\ excused' = excused \ {my[a].key}
      /\ Moves(a, "idle", Nothing)
  BY DEF Drop, Done, Go, Know, Moves, TypeInv, Known, Knows
<1>2. CASE k = my[a].key
  BY <1>1, <1>2 DEF TypeInv, Shape, Current
<1>3. CASE k # my[a].key
  <2>1. cache'[k] = cache[k] /\ (k \in excused' <=> k \in excused)
    BY <1>1, <1>3 DEF TypeInv, Shape
  <2>2. ASSUME NEW b \in Actors, pc[b] = "drop", my[b].key = k
        PROVE  pc'[b] = "drop" /\ my'[b].key = k
    BY <1>1, <1>3, <2>2, IdleKnows, Moved DEF TypeInv, Steps
  <2> QED
    BY <1>1, <2>1, <2>2 DEF Current, Truth, ByDomain
<1> QED
  BY <1>2, <1>3

LEMMA CrashCurrent ==
  ASSUME TypeInv, NEW a \in Actors, Crash(a), NEW k \in Keys, Current(k)
  PROVE  Current(k)'
<1>1. /\ UNCHANGED <<tenant, link, cache>> /\ excused' = excused \cup {my[a].key}
      /\ Moves(a, "idle", Nothing)
  BY DEF Crash, Done, Go, Know, Moves
<1>2. CASE k = my[a].key
  BY <1>1, <1>2 DEF Current
<1>3. CASE k # my[a].key
  <2>1. ASSUME NEW b \in Actors, pc[b] = "drop", my[b].key = k
        PROVE  pc'[b] = "drop" /\ my'[b].key = k
    BY <1>1, <1>3, <2>1, IdleKnows, Moved DEF TypeInv, Steps
  <2> QED
    BY <1>1, <2>1 DEF Current, Truth, ByDomain
<1> QED
  BY <1>2, <1>3

LEMMA SetTenantCurrent ==
  ASSUME TypeInv, NEW a \in Actors, NEW t \in Tenants, NEW state \in States,
         SetTenant(a, t, state), NEW k \in Keys, Current(k)
  PROVE  Current(k)'
<1> DEFINE x == [Nothing EXCEPT !.op = state, !.key = t]
<1>1. x \in Regs /\ x.key = t
  BY SetRegs
<1>2. /\ Moves(a, "drop", x) /\ pc[a] = "idle"
      /\ tenant' = [tenant EXCEPT ![t] = state] /\ cache' = cache
      /\ (link' = None /\ excused' = excused \cup {Host}) \/ (link' = link /\ excused' = excused)
  BY DEF SetTenant, Moves, Go, Know
<1> HIDE DEF x
<1>3. /\ pc'[a] = "drop" /\ my'[a].key = t
      /\ \A b \in Actors : b # a => pc'[b] = pc[b] /\ my'[b] = my[b]
  BY <1>1, <1>2, Moved DEF TypeInv, Steps
<1>4. CASE k = t
  BY <1>3, <1>4 DEF Current
<1>5. CASE k # t
  <2>1. k \in excused' \/ Truth(k)' = Truth(k)
    <3>1. CASE k = Host
      BY <1>2, <3>1 DEF Truth, ByDomain
    <3>2. CASE k # Host
      BY <1>2, <1>5, <3>2 DEF Truth, TypeInv, Shape, Keys
    <3> QED
      BY <3>1, <3>2
  <2>2. ASSUME NEW b \in Actors, pc[b] = "drop", my[b].key = k
        PROVE  pc'[b] = "drop" /\ my'[b].key = k
    BY <1>2, <1>3, <2>2
  <2> QED
    BY <1>2, <2>1, <2>2 DEF Current
<1> QED
  BY <1>4, <1>5

LEMMA ExpireCurrent ==
  ASSUME TypeInv, NEW t \in Tenants, ExpireDemo(t), NEW k \in Keys, Current(k)
  PROVE  Current(k)'
<1>1. /\ tenant' = [tenant EXCEPT ![t] = "closed"] /\ excused' = excused \cup {t}
      /\ UNCHANGED <<link, cache, pc, my>>
  BY DEF ExpireDemo
<1>2. k = t \/ Truth(k)' = Truth(k)
  <2>1. CASE k = Host
    BY <1>1, <2>1 DEF Truth, ByDomain
  <2>2. CASE k # Host
    BY <1>1, <2>2 DEF Truth, TypeInv, Shape, Keys
  <2> QED
    BY <2>1, <2>2
<1> QED
  BY <1>1, <1>2 DEF Current

\* An excuse lasts as long as the entry does.
LEMMA TickCurrent ==
  ASSUME TypeInv, Tick, NEW k \in Keys, Current(k)
  PROVE  Current(k)'
<1>1. /\ cache'[k] = Older(k) /\ UNCHANGED <<tenant, link, pc>>
      /\ (k \in excused' <=> k \in excused /\ Older(k) # None)
  BY DEF Tick
<1>2. CASE Older(k) = None
  BY <1>1, <1>2 DEF Current
<1>3. CASE Older(k) # None
  <2>1. cache[k] # None /\ Older(k).val = cache[k].val
    BY <1>3, OlderEntry
  <2>2. \A b \in Actors : my'[b].key = my[b].key
    BY TickRegs
  <2> QED
    BY <1>1, <1>3, <2>1, <2>2 DEF Current, Truth, ByDomain
<1> QED
  BY <1>2, <1>3

LEMMA CurrentNext ==
  ASSUME TypeInv, [Next]_vars, NEW k \in Keys, Current(k)
  PROVE  Current(k)'
<1>1. ASSUME NEW a \in Actors, NEW j \in Keys, Visit(a, j)
      PROVE  Current(k)'
  <2>1. PICK s \in {"load", "get", "idle"}, m \in Regs : Moves(a, s, m)
    BY <1>1, VisitMoves
  <2> QED
    BY <1>1, <2>1, QuietCurrent DEF Visit, LookUp, Steps
<1>2. ASSUME NEW a \in Actors, Get(a)
      PROVE  Current(k)'
  <2>1. PICK s \in {"load", "get", "idle"}, m \in Regs : Moves(a, s, m)
    BY <1>2, GetMoves
  <2> QED
    BY <1>2, <2>1, QuietCurrent DEF Get, LookUp, Steps
<1>3. ASSUME NEW a \in Actors, Load(a)
      PROVE  Current(k)'
  <2>1. PICK s \in {"put", "idle"}, m \in Regs : Moves(a, s, m)
    BY <1>3, LoadMoves
  <2> QED
    BY <1>3, <2>1, QuietCurrent DEF Load, Steps
<1>4. ASSUME NEW a \in Actors, NEW t \in Tenants, NEW op \in {"add", "verify", "delete"},
             Manage(a, t, op)
      PROVE  Current(k)'
  <2> DEFINE s == IF op = "verify" THEN "dns" ELSE "write"
  <2>1. Moves(a, s, Managed(op, t)) /\ pc[a] = "idle" /\ UNCHANGED <<tenant, link, cache, excused>>
    BY <1>4 DEF Manage, Managed, Moves, Go, Know
  <2>2. Managed(op, t) \in Regs /\ s \in Steps
    BY ManageRegs DEF Steps
  <2> HIDE DEF s
  <2> QED
    BY <2>1, <2>2, QuietCurrent
<1>5. ASSUME NEW a \in Actors, Dns(a)
      PROVE  Current(k)'
  <2>1. pc[a] = "dns" /\ UNCHANGED <<tenant, link, cache, excused>>
    BY <1>5 DEF Dns
  <2>2. CASE Moves(a, "write", my[a]) /\ my[a] \in Regs
    BY <2>1, <2>2, QuietCurrent DEF Steps
  <2>3. CASE Moves(a, "idle", Nothing)
    BY <2>1, <2>3, IdleKnows, QuietCurrent DEF Steps
  <2> QED
    BY <1>5, <2>2, <2>3, DnsMoves
<1>6. ASSUME NEW a \in Actors, Request(a) \/ Lookup(a) \/ Change(a) \/ Crash(a)
      PROVE  Current(k)'
  BY <1>1, <1>2, <1>3, <1>4, <1>5, <1>6, StepsOf, PutCurrent, WriteCurrent, DropCurrent,
     CrashCurrent, SetTenantCurrent
<1>7. ASSUME NEW t \in Tenants, ExpireDemo(t)
      PROVE  Current(k)'
  BY <1>7, ExpireCurrent
<1>8. CASE Tick
  BY <1>8, TickCurrent
<1>9. CASE UNCHANGED vars
  BY <1>9 DEF vars, Current, Truth, ByDomain
<1> QED
  BY <1>6, <1>7, <1>8, <1>9 DEF Next

\* No writer of DomainService or of the tenant's status forgets a key: once it has
\* invalidated, the cache says what the database says, but for the entries that an
\* overtaken load, a crash before the invalidation, the expiry of a demo or the
\* deletion of a tenant leaves behind.
THEOREM WritersInvalidate == Spec => []CacheIsCurrent
<1> DEFINE Inv == \A k \in Keys : Current(k)
<1>1. Init => Inv
  BY DEF Init, Current
<1>2. TypeInv /\ Inv /\ [Next]_vars => Inv'
  BY CurrentNext
<1>3. Inv => CacheIsCurrent
  BY DEF Current, CacheIsCurrent
<1> HIDE DEF Inv
<1> QED
  BY <1>1, <1>2, <1>3, TypesHold, PTL DEF Spec

-----------------------------------------------------------------------------
(* Verified domains are proved, and routing rests on them.                  *)

\* A request that does not go on to write the domain's row: the others are who
\* they were, and the row is as it was or gone.
LEMMA OthersManage ==
  ASSUME TypeInv, OneManager, Verified, NEW a \in Actors, NEW s \in Steps, NEW m \in Regs,
         Moves(a, s, m), s \notin {"dns", "write"}, link' = link \/ link' = None, proved \subseteq proved'
  PROVE  OneManager' /\ Verified'
<1>1. \A b \in Actors : Works(b)' =>
         b # a /\ Works(b) /\ my'[b] = my[b] /\ pc'[b] = pc[b]
  BY Moved DEF TypeInv, Works, Managing
<1>2. OneManager'
  BY <1>1 DEF OneManager
<1>3. Verified'
  BY DEF Verified
<1> QED
  BY <1>2, <1>3

\* One that learns no answer to be put, while the cache is as it was.
LEMMA OthersCache ==
  ASSUME TypeInv, CachedByProof, Routed, NEW a \in Actors, NEW s \in Steps, NEW m \in Regs,
         Moves(a, s, m), s # "put", cache'[Host] = cache[Host] \/ cache'[Host] = None,
         proved \subseteq proved', m.op = Host /\ m.key # Host => m.key \in proved'
  PROVE  CachedByProof' /\ Routed'
<1>1. /\ pc'[a] = s /\ my'[a] = m
      /\ \A b \in Actors : b # a => my'[b] = my[b] /\ pc'[b] = pc[b]
  BY Moved DEF TypeInv
<1>2. CachedByProof'
  BY <1>1 DEF CachedByProof
<1>3. Routed'
  BY <1>1 DEF Routed
<1> QED
  BY <1>2, <1>3

\* A step of a request towards anything but the domain's row and the cache.
LEMMA QuietProof ==
  ASSUME TypeInv, Backed, NEW a \in Actors, NEW s \in Steps, NEW m \in Regs, Moves(a, s, m),
         s \notin {"dns", "write", "put"}, link' = link \/ link' = None,
         cache'[Host] = cache[Host] \/ cache'[Host] = None, proved' = proved,
         m.op = Host /\ m.key # Host => m.key \in proved
  PROVE  Backed'
<1>1. OneManager' /\ Verified'
  BY OthersManage DEF Backed
<1>2. CachedByProof' /\ Routed'
  BY OthersCache DEF Backed
<1> QED
  BY <1>1, <1>2 DEF Backed

LEMMA NothingIsNotRouted == Nothing.op # Host
BY RoutingAssumption DEF RoutingAssumption, Nothing

LEMMA VisitProof ==
  ASSUME TypeInv, Backed, NEW a \in Actors, NEW k \in Keys, Visit(a, k)
  PROVE  Backed'
<1>1. PICK s \in {"load", "get", "idle"}, m \in Regs :
         /\ Moves(a, s, m)
         /\ s = "idle" => m = Nothing
         /\ s # "idle" => /\ m.op = k
                          /\ m.key = k \/ (k = Host /\ cache[Host] # None
                                           /\ m.key = cache[Host].val /\ m.key # None)
  BY VisitMoves
<1>2. m.op = Host /\ m.key # Host => m.key \in proved
  BY <1>1, NothingIsNotRouted DEF Backed, CachedByProof
<1>3. UNCHANGED <<link, cache, proved>>
  BY DEF Visit, LookUp
<1> QED
  BY <1>1, <1>2, <1>3, QuietProof DEF Steps

LEMMA GetProof ==
  ASSUME TypeInv, Backed, NEW a \in Actors, Get(a)
  PROVE  Backed'
<1>1. PICK s \in {"load", "get", "idle"}, m \in Regs :
         /\ Moves(a, s, m)
         /\ s = "idle" => m = Nothing
         /\ s # "idle" => /\ m.op = my[a].op
                          /\ m.key = my[a].key \/ (my[a].key = Host /\ cache[Host] # None
                                                   /\ m.key = cache[Host].val /\ m.key # None)
  BY GetMoves
<1>2. m.op = Host /\ m.key # Host => m.key \in proved
  BY <1>1, NothingIsNotRouted DEF Backed, CachedByProof, Routed
<1>3. UNCHANGED <<link, cache, proved>>
  BY DEF Get, LookUp
<1> QED
  BY <1>1, <1>2, <1>3, QuietProof DEF Steps

\* A verified domain answers with a tenant that has proved it.
LEMMA LoadProof ==
  ASSUME TypeInv, Backed, NEW a \in Actors, Load(a)
  PROVE  Backed'
<1>1. PICK s \in {"put", "idle"}, m \in Regs :
         /\ Moves(a, s, m)
         /\ s = "idle" => m = Nothing
         /\ s = "put" => m.key = my[a].key /\ m.op = my[a].op /\ m.val = Truth(m.key)
  BY LoadMoves
<1>2. UNCHANGED <<link, cache, proved>>
  BY DEF Load
<1>3. CASE s = "idle"
  BY <1>1, <1>2, <1>3, NothingIsNotRouted, QuietProof DEF Steps
<1>4. CASE s = "put"
  <2>1. OneManager' /\ Verified'
    BY <1>1, <1>2, <1>4, OthersManage DEF Backed, Steps
  <2>2. Truth(Host) = None \/ Truth(Host) \in proved
    BY DEF Truth, ByDomain, Backed, Verified
  <2>3. /\ pc'[a] = s /\ my'[a] = m
        /\ \A b \in Actors : b # a => my'[b] = my[b] /\ pc'[b] = pc[b]
    BY <1>1, <1>4, Moved DEF TypeInv, Steps
  <2>4. CachedByProof'
    BY <1>1, <1>2, <1>4, <2>2, <2>3 DEF Backed, CachedByProof
  <2>5. Routed'
    BY <1>1, <1>2, <1>4, <2>3 DEF Backed, Routed
  <2> QED
    BY <2>1, <2>4, <2>5 DEF Backed
<1> QED
  BY <1>3, <1>4

LEMMA PutProof ==
  ASSUME TypeInv, Backed, NEW a \in Actors, Put(a)
  PROVE  Backed'
<1> DEFINE e == [val |-> my[a].val, left |-> Ttl(my[a].key), off |-> my[a].off]
<1>1. PICK s \in {"get", "idle"}, m \in Regs :
         /\ Moves(a, s, m)
         /\ s = "idle" => m = Nothing
         /\ s = "get" => my[a].key = Host /\ m.key = my[a].val /\ m.key # None
  BY PutMoves
<1>2. /\ cache' = [cache EXCEPT ![my[a].key] = e] /\ pc[a] = "put"
      /\ link' = link /\ proved' = proved
  BY DEF Put
<1>3. m.op = Host /\ m.key # Host => m.key \in proved
  BY <1>1, <1>2, NothingIsNotRouted DEF Backed, CachedByProof
<1>4. OneManager' /\ Verified'
  BY <1>1, <1>2, OthersManage DEF Backed, Steps
<1>5. CASE my[a].key # Host
  <2>1. cache'[Host] = cache[Host]
    BY <1>2, <1>5, ConstantFacts DEF TypeInv, Shape
  <2> QED
    BY <1>1, <1>2, <1>3, <2>1, QuietProof DEF Steps
<1>6. CASE my[a].key = Host
  <2>1. cache'[Host].val = my[a].val
    BY <1>2, <1>6, ConstantFacts DEF TypeInv, Shape
  <2>2. my[a].val = None \/ my[a].val \in proved
    BY <1>2, <1>6 DEF Backed, CachedByProof
  <2>3. /\ pc'[a] = s /\ my'[a] = m /\ s # "put"
        /\ \A b \in Actors : b # a => my'[b] = my[b] /\ pc'[b] = pc[b]
    BY <1>1, Moved DEF TypeInv, Steps
  <2>4. CachedByProof'
    BY <1>2, <2>1, <2>2, <2>3 DEF Backed, CachedByProof
  <2>5. Routed'
    BY <1>2, <1>3, <2>3 DEF Backed, Routed
  <2> QED
    BY <1>4, <2>4, <2>5 DEF Backed
<1> QED
  BY <1>5, <1>6

\* Who begins to manage the domain owns it, or finds it free; and no other
\* tenant is at it, or it is contested.
LEMMA ManageProof ==
  ASSUME TypeInv, Backed, NEW a \in Actors, NEW t \in Tenants,
         NEW op \in {"add", "verify", "delete"}, Manage(a, t, op),
         ~\E b \in Actors : Managing(b) /\ my[b].t # t
  PROVE  Backed'
<1> DEFINE x == Managed(op, t)
           s == IF op = "verify" THEN "dns" ELSE "write"
<1>1. x \in Regs /\ x.t = t /\ x.op = op /\ x.key = Host
  BY ManageRegs
<1>2. Moves(a, s, x) /\ UNCHANGED <<link, cache, proved>>
  BY DEF Manage, Managed, Moves, Go, Know
<1>3. link = None \/ link.tenant = t
  BY DEF Manage, May, Owned
<1>4. s \in Steps /\ s # "put" /\ (op = "verify" => s # "write")
  BY DEF Steps
<1> HIDE DEF x, s
<1>5. /\ pc'[a] = s /\ my'[a] = x
      /\ \A b \in Actors : b # a => my'[b] = my[b] /\ pc'[b] = pc[b]
  BY <1>1, <1>2, <1>4, Moved DEF TypeInv
<1>6. \A b \in Actors : Works(b)' => my'[b].t = t
  <2> SUFFICES ASSUME NEW b \in Actors, Works(b)', b # a
               PROVE  my'[b].t = t
    BY <1>1, <1>5
  <2>1. Managing(b)
    BY <1>5 DEF Works, Managing
  <2> QED
    BY <1>5, <2>1
<1>7. ASSUME NEW b \in Actors, Works(b)', my'[b].op = "verify", pc'[b] = "write"
      PROVE  my'[b].t \in proved'
  <2>1. b # a
    BY <1>1, <1>4, <1>5, <1>7
  <2> QED
    BY <1>2, <1>5, <1>7, <2>1 DEF Backed, OneManager, Works, Managing
<1>8. OneManager'
  BY <1>2, <1>3, <1>6, <1>7 DEF OneManager
<1>9. Verified'
  BY <1>2 DEF Backed, Verified
<1>10. CachedByProof' /\ Routed'
  BY <1>1, <1>2, <1>4, OthersCache DEF Backed
<1> QED
  BY <1>8, <1>9, <1>10 DEF Backed

LEMMA DnsProof ==
  ASSUME TypeInv, Backed, NEW a \in Actors, Dns(a)
  PROVE  Backed'
<1>1. UNCHANGED <<link, cache>> /\ pc[a] = "dns"
  BY DEF Dns
<1>2. CASE Moves(a, "idle", Nothing) /\ proved' = proved
  BY <1>1, <1>2, IdleKnows, NothingIsNotRouted, QuietProof DEF Steps
<1>3. CASE /\ Moves(a, "write", my[a]) /\ my[a] \in Regs /\ my[a].key = Host
           /\ proved' = proved \cup {my[a].t}
  <2>1. /\ pc'[a] = "write" /\ my'[a] = my[a]
        /\ \A b \in Actors : b # a => my'[b] = my[b] /\ pc'[b] = pc[b]
    BY <1>3, Moved DEF TypeInv, Steps
  <2>2. \A b \in Actors : (Works(b)' <=> Works(b)) /\ my'[b] = my[b]
    BY <1>1, <2>1 DEF Works, Managing
  <2>3. ASSUME NEW b \in Actors, Works(b), my'[b].op = "verify", pc'[b] = "write"
        PROVE  my'[b].t \in proved'
    BY <1>3, <2>1, <2>3 DEF Backed, OneManager
  <2>4. OneManager'
    BY <1>1, <2>2, <2>3 DEF Backed, OneManager
  <2>5. Verified'
    BY <1>1, <1>3 DEF Backed, Verified
  <2>6. CachedByProof' /\ Routed'
    BY <1>1, <1>3, OthersCache DEF Backed, Steps
  <2> QED
    BY <2>4, <2>5, <2>6 DEF Backed
<1> QED
  BY <1>2, <1>3, DnsMoves

\* What is written is the row of the one tenant at work, and verified only if
\* that has proved it.
LEMMA NewLinkProof ==
  ASSUME TypeInv, Backed, NEW a \in Actors, pc[a] = "write", Managing(a), ~Refused(a)
  PROVE  NewLink(a) # None =>
           /\ NewLink(a).tenant = my[a].t
           /\ NewLink(a).verified => my[a].t \in proved
<1>1. /\ link = None \/ link.tenant = my[a].t
      /\ my[a].op = "verify" => my[a].t \in proved
  BY DEF Backed, OneManager, Works
<1>2. link = None \/ link \in [tenant : Tenants, verified : BOOLEAN]
  BY DEF TypeInv, Shape
<1>3. CASE my[a].op = "add"
  <2>1. CASE link = None
    <3>1. NewLink(a) = [tenant |-> my[a].t, verified |-> FALSE]
      BY <1>3, <2>1 DEF NewLink
    <3> QED
      BY <3>1
  <2>2. CASE link # None
    <3>1. NewLink(a) = [link EXCEPT !.tenant = my[a].t]
      BY <1>3, <2>2 DEF NewLink
    <3>2. NewLink(a).tenant = my[a].t /\ NewLink(a).verified = link.verified
      BY <1>2, <2>2, <3>1
    <3> QED
      BY <1>1, <2>2, <3>2 DEF Backed, Verified
  <2> QED
    BY <2>1, <2>2
<1>4. CASE my[a].op = "verify"
  <2>1. link # None
    BY <1>4 DEF Refused
  <2>2. NewLink(a) = [link EXCEPT !.verified = TRUE]
    BY <1>4, <2>1 DEF NewLink
  <2>3. NewLink(a).tenant = link.tenant
    BY <1>2, <2>1, <2>2
  <2> QED
    BY <1>1, <1>4, <2>1, <2>3
<1>5. CASE my[a].op = "delete"
  BY <1>5 DEF Refused, NewLink
<1> QED
  BY <1>3, <1>4, <1>5 DEF Managing

LEMMA WriteProof ==
  ASSUME TypeInv, Backed, NEW a \in Actors, Write(a)
  PROVE  Backed'
<1>1. UNCHANGED <<cache, proved>> /\ pc[a] = "write" /\ Managing(a)
  BY DEF Write
<1>2. CASE Moves(a, "idle", Nothing) /\ link' = link
  BY <1>1, <1>2, IdleKnows, NothingIsNotRouted, QuietProof DEF Steps
<1>3. CASE /\ Moves(a, "drop", my[a]) /\ my[a] \in Regs /\ my[a].key = Host
           /\ ~Refused(a) /\ link' = NewLink(a)
  <2>1. \A b \in Actors : Works(b)' =>
           Works(b) /\ my'[b] = my[b] /\ pc'[b] = pc[b]
    BY <1>3, Moved DEF TypeInv, Works, Managing, Steps
  <2>2. link' # None => /\ link'.tenant = my[a].t
                        /\ link'.verified => my[a].t \in proved
    BY <1>1, <1>3, NewLinkProof
  <2>3. \A b \in Actors : Works(b) => my[b].t = my[a].t
    BY <1>1 DEF Backed, OneManager, Works
  <2>4. OneManager'
    BY <1>1, <2>1, <2>2, <2>3 DEF Backed, OneManager
  <2>5. Verified'
    BY <1>1, <2>2 DEF Verified
  <2>6. CachedByProof' /\ Routed'
    BY <1>1, <1>3, OthersCache DEF Backed, Steps
  <2> QED
    BY <2>4, <2>5, <2>6 DEF Backed
<1> QED
  BY <1>2, <1>3, WriteMoves

LEMMA SetTenantProof ==
  ASSUME TypeInv, Backed, NEW a \in Actors, NEW t \in Tenants, NEW state \in States,
         SetTenant(a, t, state)
  PROVE  Backed'
<1> DEFINE x == [Nothing EXCEPT !.op = state, !.key = t]
<1>1. x \in Regs /\ x.op = state
  BY SetRegs
<1>2. Moves(a, "drop", x) /\ UNCHANGED <<cache, proved>> /\ (link' = link \/ link' = None)
  BY DEF SetTenant, Moves, Go, Know
<1> HIDE DEF x
<1>3. x.op # Host
  BY <1>1, ConstantFacts
<1> QED
  BY <1>1, <1>2, <1>3, QuietProof DEF Steps

LEMMA DropProof ==
  ASSUME TypeInv, Backed, NEW a \in Actors, Drop(a)
  PROVE  Backed'
<1>1. /\ Moves(a, "idle", Nothing) /\ UNCHANGED <<link, proved>>
      /\ cache'[Host] = cache[Host] \/ cache'[Host] = None
  BY ConstantFacts DEF Drop, Done, Go, Know, Moves, TypeInv, Shape
<1> QED
  BY <1>1, IdleKnows, NothingIsNotRouted, QuietProof DEF Steps

LEMMA CrashProof ==
  ASSUME TypeInv, Backed, NEW a \in Actors, Crash(a)
  PROVE  Backed'
<1>1. Moves(a, "idle", Nothing) /\ UNCHANGED <<link, proved, cache>>
  BY DEF Crash, Done, Go, Know, Moves
<1> QED
  BY <1>1, IdleKnows, NothingIsNotRouted, QuietProof DEF Steps

LEMMA TickProof ==
  ASSUME TypeInv, Backed, Tick
  PROVE  Backed'
<1>1. UNCHANGED <<link, pc, proved>> /\ cache'[Host] = Older(Host)
  BY ConstantFacts DEF Tick
<1>2. \A b \in Actors : /\ my'[b].op = my[b].op /\ my'[b].t = my[b].t
                         /\ my'[b].key = my[b].key /\ my'[b].val = my[b].val
  BY TickRegs
<1>3. \A b \in Actors : Works(b)' <=> Works(b)
  BY <1>1, <1>2 DEF Works, Managing
<1>4. OneManager' /\ Verified'
  BY <1>1, <1>2, <1>3 DEF Backed, OneManager, Verified
<1>5. cache'[Host] # None => cache[Host] # None /\ cache'[Host].val = cache[Host].val
  BY <1>1, OlderEntry, ConstantFacts
<1>6. CachedByProof' /\ Routed'
  BY <1>1, <1>2, <1>5 DEF Backed, CachedByProof, Routed
<1> QED
  BY <1>4, <1>6 DEF Backed

LEMMA ProofNext ==
  ASSUME TypeInv, ProofInv, [Next]_vars
  PROVE  ProofInv'
<1> SUFFICES ASSUME ~contested'
             PROVE  Backed'
  BY DEF ProofInv
<1>1. ASSUME NEW a \in Actors, NEW t \in Tenants, NEW op \in {"add", "verify", "delete"},
             Manage(a, t, op)
      PROVE  Backed'
  <2>1. ~contested /\ ~\E b \in Actors : Managing(b) /\ my[b].t # t
    BY <1>1 DEF Manage
  <2>2. Backed
    BY <2>1 DEF ProofInv
  <2> QED
    BY <1>1, <2>1, <2>2, ManageProof
<1>2. CASE contested' = contested
  <2>1. Backed
    BY <1>2 DEF ProofInv
  <2>2. ASSUME NEW a \in Actors, Request(a) \/ Lookup(a) \/ Change(a) \/ Crash(a)
        PROVE  Backed'
    BY <1>1, <2>1, <2>2, StepsOf, VisitProof, GetProof, LoadProof, PutProof, DnsProof, WriteProof,
       DropProof, CrashProof, SetTenantProof
  <2>3. ASSUME NEW t \in Tenants, ExpireDemo(t)
        PROVE  Backed'
    BY <2>1, <2>3 DEF ExpireDemo, Backed, OneManager, Works, Managing, Verified, CachedByProof, Routed
  <2>4. CASE Tick
    BY <2>1, <2>4, TickProof
  <2>5. CASE UNCHANGED vars
    BY <2>1, <2>5 DEF vars, Backed, OneManager, Works, Managing, Verified, CachedByProof, Routed
  <2> QED
    BY <2>2, <2>3, <2>4, <2>5 DEF Next
<1>3. CASE contested' # contested
  <2>1. PICK a \in Actors : Request(a)
    BY <1>3 DEF Next, Lookup, Change, Get, LookUp, Load, Put, Dns, Write, Drop, Crash, ExpireDemo,
                Tick, vars
  <2>2. \E t \in Tenants, op \in {"add", "verify", "delete"} : Manage(a, t, op)
    BY <1>3, <2>1 DEF Request, Visit, LookUp, SetTenant
  <2> QED
    BY <1>1, <2>2
<1> QED
  BY <1>2, <1>3

LEMMA ProofHolds == Spec => []ProofInv
<1>1. Init => ProofInv
  BY NothingIsNotRouted, ConstantFacts DEF Init, ProofInv, Backed, OneManager, Works, Verified, CachedByProof, Routed
<1> QED
  BY <1>1, ProofNext, TypesHold, PTL DEF Spec

\* verify_domain marks a domain verified only for a tenant that has shown its TXT
\* record, as long as no two tenants managed it at once.
THEOREM VerifiedIsProved == Spec => []VerifiedWasProved
<1>1. ProofInv => VerifiedWasProved
  BY DEF ProofInv, Backed, Verified, VerifiedWasProved
<1> QED
  BY <1>1, ProofHolds, PTL

\* And a request that the resolution routes by its custom domain is served as a
\* tenant that has shown the record.
THEOREM RoutingIsProved == Spec => []RoutedByProof
<1>1. ProofInv => RoutedByProof
  BY DEF ProofInv, Backed, Routed, RoutedByProof
<1> QED
  BY <1>1, ProofHolds, PTL

====
