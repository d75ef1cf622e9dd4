---- MODULE TenantRouting ----
(* Custom domains and the routing of requests to tenants: DomainService, the *)
(* repositories' commit and invalidation, and TenantResolutionService with   *)
(* its two caches, host -> slug and slug -> snapshot.  One custom domain that *)
(* several tenants may want; of a snapshot only whether the tenant is active. *)
(* A step is one call of the database, of the cache or of DNS.  Left out:    *)
(* the configuration in the snapshot, single-tenant mode, hosts that need no *)
(* tenant, and slugs taken again after a deletion (see TenantProvisioning).  *)
EXTENDS Naturals, FiniteSets

CONSTANTS
    Actors,                     \* request threads
    Tenants, None, Host,        \* Host: the key of the domain in the cache
    HostTtl, TenantTtl,         \* DOMAIN2TENANT_TTL_SEC and TENANT_TTL_SEC, in ticks
    MaxAge,                     \* bound: ticks a lookup may take
    MaxChanges, MaxCrashes      \* bounds

ASSUME RoutingAssumption ==
    /\ None \notin Tenants \cup {Host} /\ Host \notin Tenants \cup {"active", "closed", "gone"}
    /\ {HostTtl, TenantTtl, MaxAge, MaxChanges, MaxCrashes} \subseteq Nat

VARIABLES
    tenant,         \* rows of public.tenants: "active", "closed" or "gone"
    link,           \* the domain's row of public.tenant_domains, or None
    cache,          \* per key a value, the ticks it has left and the ticks it has been off
    pc, my,         \* per actor: the next step, and what the request knows
    changes, crashes,
    proved,         \* history: tenants whose TXT record was found in the domain
    contested,      \* history: two tenants have managed the domain at once
    excused         \* history: keys whose entry is known to be behind the database

vars == <<tenant, link, cache, pc, my, changes, crashes, proved, contested, excused>>

Keys == Tenants \cup {Host}
Nothing == [op |-> None, t |-> None, key |-> None, val |-> None, off |-> 0, age |-> 0]

Init ==
    /\ tenant \in [Tenants -> {"active", "closed"}]
    /\ link = None /\ cache = [k \in Keys |-> None]
    /\ pc = [a \in Actors |-> "idle"] /\ my = [a \in Actors |-> Nothing]
    /\ changes = 0 /\ crashes = 0
    /\ proved = {} /\ contested = FALSE /\ excused = {}

----------------------------------------------------------------------------

Go(a, step) == pc' = [pc EXCEPT ![a] = step]
Know(a, regs) == my' = [my EXCEPT ![a] = regs]
Done(a) == Go(a, "idle") /\ Know(a, Nothing)

AnyByDomain == IF link # None THEN link.tenant ELSE None     \* verified or not

\* get_by_domain: of a verified domain only
ByDomain == IF link # None /\ link.verified THEN link.tenant ELSE None
Truth(k) == IF k = Host THEN ByDomain ELSE tenant[k]
Ttl(k) == IF k = Host THEN HostTtl ELSE TenantTtl

Reading(a) == pc[a] \in {"get", "load", "put"}
Managing(a) == my[a].op \in {"add", "verify", "delete"}

\* The process dies, or the cache does not answer, between commit and
\* invalidation.  (A request that dies before leaves no trace.)
Crash(a) ==
    /\ pc[a] = "drop" /\ crashes < MaxCrashes
    /\ crashes' = crashes + 1
    /\ excused' = excused \cup {my[a].key}
    /\ Done(a)
    /\ UNCHANGED <<tenant, link, cache, changes, proved, contested>>

Off(val, k, off) == IF val = Truth(k) THEN 0 ELSE off + 1

\* An entry may be used up to its last tick.
Older(k) ==
    IF cache[k] = None \/ cache[k].left = 0 THEN None
    ELSE [cache[k] EXCEPT !.left = @ - 1, !.off = Off(cache[k].val, k, @)]

Tick ==
    /\ \A a \in Actors : Reading(a) => my[a].age < MaxAge
    /\ cache' = [k \in Keys |-> Older(k)]
    /\ excused' = {k \in excused : Older(k) # None}
    /\ my' = [a \in Actors |->
                IF Reading(a)
                THEN [my[a] EXCEPT !.age = @ + 1,
                        !.off = IF pc[a] = "put" THEN Off(my[a].val, my[a].key, @) ELSE 0]
                ELSE my[a]]
    /\ UNCHANGED <<tenant, link, pc, changes, crashes, proved, contested>>

----------------------------------------------------------------------------
(* Routing: resolve_request, by the domain or by the tenant's own host       *)

\* A slug leads on to its snapshot.  No slug is an error; a snapshot is judged
\* by assert_routable, or let in to pay its debts, which writes nothing here.
Found(a, regs, val) ==
    IF regs.key = Host /\ val # None
    THEN Know(a, [regs EXCEPT !.key = val]) /\ Go(a, "get")
    ELSE Done(a)

\* A hit that starts the entry's time anew
LookUpAndRenew(a, regs) ==
    LET k == regs.key
    IN  /\ IF cache[k] = None THEN Know(a, regs) /\ Go(a, "load") /\ UNCHANGED cache
           ELSE Found(a, regs, cache[k].val) /\ cache' = [cache EXCEPT ![k].left = Ttl(k)]
        /\ UNCHANGED <<tenant, link, changes, crashes, proved, contested, excused>>

LookUp(a, regs) ==
    LET e == cache[regs.key]
    IN  /\ IF e = None THEN Know(a, regs) /\ Go(a, "load") ELSE Found(a, regs, e.val)
        /\ UNCHANGED <<tenant, link, cache, changes, crashes, proved, contested, excused>>

Visit(a, k) == pc[a] = "idle" /\ LookUp(a, [Nothing EXCEPT !.op = k, !.key = k])
Get(a) == pc[a] = "get" /\ LookUp(a, my[a])

\* "No tenant" is cached for a domain, but not for a slug.
Load(a) ==
    LET k == my[a].key
    IN  /\ pc[a] = "load"
        /\ IF Truth(k) = "gone" THEN Done(a)
           ELSE Know(a, [my[a] EXCEPT !.val = Truth(k), !.off = 0]) /\ Go(a, "put")
        /\ UNCHANGED <<tenant, link, cache, changes, crashes, proved, contested, excused>>

\* A load that a commit overtook puts what was true before it.
Put(a) ==
    LET k == my[a].key
    IN  /\ pc[a] = "put"
        /\ cache' = [cache EXCEPT ![k] = [val |-> my[a].val, left |-> Ttl(k), off |-> my[a].off]]
        /\ excused' = (excused \ {k}) \cup (IF my[a].val = Truth(k) THEN {} ELSE {k})
        /\ Found(a, [my[a] EXCEPT !.val = None, !.off = 0], my[a].val)
        /\ UNCHANGED <<tenant, link, changes, crashes, proved, contested>>

----------------------------------------------------------------------------
(* DomainService: who may, then the row, then the cache                      *)

Owned(t) == link # None /\ link.tenant = t

AnyoneMay(t, op) == TRUE    \* no look at whose domain it is
May(t, op) == IF op = "add" THEN link = None \/ Owned(t) ELSE Owned(t)

\* (Who may not gets an error, and nothing changes.)
Manage(a, t, op) ==
    /\ pc[a] = "idle" /\ tenant[t] # "gone" /\ May(t, op) /\ changes < MaxChanges
    /\ changes' = changes + 1
    /\ Know(a, [Nothing EXCEPT !.op = op, !.t = t, !.key = Host])
    /\ Go(a, IF op = "verify" THEN "dns" ELSE "write")
    /\ contested' = (contested \/ \E b \in Actors : Managing(b) /\ my[b].t # t)
    /\ UNCHANGED <<tenant, link, cache, crashes, proved, excused>>

\* The TXT record of this tenant is there and the domain points here, or not.
Dns(a) ==
    /\ pc[a] = "dns"
    /\ \/ proved' = proved \cup {my[a].t} /\ Go(a, "write") /\ UNCHANGED my
       \/ Done(a) /\ UNCHANGED proved
    /\ UNCHANGED <<tenant, link, cache, changes, crashes, contested, excused>>

\* create_domain takes the row there is, with its verified_at; verify_domain
\* asks for the domain only, delete_domain for the domain of the tenant.
NewLink(a) ==
    LET t == my[a].t
    IN  CASE my[a].op = "add" /\ link = None    -> [tenant |-> t, verified |-> FALSE]
          [] my[a].op = "add" /\ link # None    -> [link EXCEPT !.tenant = t]
          [] my[a].op = "verify" /\ link # None -> [link EXCEPT !.verified = TRUE]
          [] my[a].op = "delete" /\ Owned(t)    -> None
          [] OTHER                              -> link

OnlyWithoutRow(a) ==        \* no foreign key
    CASE my[a].op = "add"    -> FALSE
      [] my[a].op = "verify" -> link = None
      [] OTHER               -> ~Owned(my[a].t)

\* The foreign key refuses the row of a tenant that was deleted meanwhile.
Refused(a) ==
    CASE my[a].op = "add"    -> tenant[my[a].t] = "gone"
      [] my[a].op = "verify" -> link = None
      [] OTHER               -> ~Owned(my[a].t)

Write(a) ==
    /\ pc[a] = "write" /\ Managing(a)
    /\ IF Refused(a) THEN Done(a) /\ UNCHANGED link
       ELSE link' = NewLink(a) /\ Go(a, "drop") /\ UNCHANGED my
    /\ UNCHANGED <<tenant, cache, changes, crashes, proved, contested, excused>>

\* The invalidation after the commit
DropNot(a) ==               \* forgotten
    /\ pc[a] = "drop" /\ Done(a)
    /\ UNCHANGED <<tenant, link, cache, changes, crashes, proved, contested, excused>>

Drop(a) ==
    /\ pc[a] = "drop"
    /\ cache' = [cache EXCEPT ![my[a].key] = None]
    /\ excused' = excused \ {my[a].key}
    /\ Done(a)
    /\ UNCHANGED <<tenant, link, changes, crashes, proved, contested>>

----------------------------------------------------------------------------
(* Tenants: activate, deactivate, delete, and the expiry of demos            *)

\* A commit; the invalidation follows.  Deleting takes the domain along, whose
\* mapping nobody invalidates.
SetTenant(a, t, state) ==
    /\ pc[a] = "idle" /\ tenant[t] \notin {state, "gone"} /\ changes < MaxChanges
    /\ (state = "gone") => tenant[t] = "closed"
    /\ changes' = changes + 1
    /\ tenant' = [tenant EXCEPT ![t] = state]
    /\ Know(a, [Nothing EXCEPT !.op = state, !.key = t]) /\ Go(a, "drop")
    /\ IF state = "gone" /\ Owned(t)
       THEN link' = None /\ excused' = excused \cup {Host}
       ELSE UNCHANGED <<link, excused>>
    /\ UNCHANGED <<cache, crashes, proved, contested>>

\* cleanup_expired_demo_tenants: an UPDATE without an invalidation
ExpireDemo(t) ==
    /\ tenant[t] = "active" /\ changes < MaxChanges
    /\ changes' = changes + 1
    /\ tenant' = [tenant EXCEPT ![t] = "closed"]
    /\ excused' = excused \cup {t}
    /\ UNCHANGED <<link, cache, pc, my, crashes, proved, contested>>

----------------------------------------------------------------------------

Lookup(a) == Get(a) \/ Load(a) \/ Put(a)
Change(a) == Dns(a) \/ Write(a) \/ Drop(a)
Request(a) ==
    \/ \E k \in Keys : Visit(a, k)
    \/ \E t \in Tenants, op \in {"add", "verify", "delete"} : Manage(a, t, op)
    \/ \E t \in Tenants, state \in {"active", "closed", "gone"} : SetTenant(a, t, state)

Next ==
    \/ \E a \in Actors : Request(a) \/ Lookup(a) \/ Change(a) \/ Crash(a)
    \/ \E t \in Tenants : ExpireDemo(t)
    \/ Tick

Spec == Init /\ [][Next]_vars

----------------------------------------------------------------------------
(* Properties                                                                *)

States == {"active", "closed", "gone"}
Steps == {"idle", "get", "load", "put", "dns", "write", "drop"}

TypeOK ==
    /\ tenant \in [Tenants -> States]
    /\ link = None \/ link \in [tenant : Tenants, verified : BOOLEAN]
    /\ link # None => tenant[link.tenant] # "gone"
    /\ \A k \in Keys : cache[k] # None =>
          /\ cache[k].left \in 0..Ttl(k) /\ cache[k].off \in Nat
          /\ cache[k].val \in IF k = Host THEN Tenants \cup {None} ELSE States \ {"gone"}
    /\ \A a \in Actors : pc[a] \in Steps /\ (pc[a] = "idle" <=> my[a] = Nothing)
    /\ proved \subseteq Tenants /\ excused \subseteq Keys

\* A verified domain belongs to a tenant that has shown its TXT record, through
\* adding, deleting and adding it again by any of them.  (Unless two tenants
\* managed it at once: create_domain keeps verified_at when it takes a row over,
\* verify_domain does not ask whose the row is.)
VerifiedWasProved ==
    ~contested /\ link # None /\ link.verified => link.tenant \in proved

\* What comes in by the domain is served as a tenant that has shown its TXT
\* record, whatever loads, invalidations and expiries were in between.
RoutedByProof ==
    ~contested => \A a \in Actors : my[a].op = Host /\ my[a].key # Host => my[a].key \in proved

\* Once a writer has invalidated, the cache says what the database says: no
\* writer forgets a key.  (But for the entries that a crash between commit and
\* invalidation, an overtaken load, the expiry of a demo or a deletion leaves.)
CacheIsCurrent ==
    \A k \in Keys \ excused :
        cache[k] = None \/ cache[k].val = Truth(k)
            \/ \E a \in Actors : pc[a] = "drop" /\ my[a].key = k

\* And those are served no longer than the time to live and the time of a load.
StaleNoLonger ==
    \A k \in Keys : cache[k] # None => cache[k].off <= Ttl(k) + MaxAge

====
