-------------------------- MODULE LoginStepsProofs --------------------------
(* Theorems about LoginSteps, for any number of requests, tokens and        *)
(* addresses, any limit of attempts and any number of wrong codes.          *)
EXTENDS LoginSteps, FiniteSetTheorems, TLAPS

-----------------------------------------------------------------------------
(* The inductive invariant.                                                 *)

Steps == {"idle", "mail", "check", "judge", "load", "write", "failed", "reset", "done"}
Note  == [n : 1..(MaxWrong + 1), renew : BOOLEAN]
Notes == UNION {[D -> Note] : D \in SUBSET Scopes}
Regs  == [pc : Steps, token : Tokens \cup {None}, ip : Ips \cup {None}, code : Tokens \cup {None}, at : 1..3,
          loaded : {None} \cup Counter, mine : Notes, gone : SUBSET Scopes, kill : SUBSET Tokens,
          tooMany : BOOLEAN, quiet : BOOLEAN]

\* What each variable ranges over.
Shape ==
  /\ factor \in Factors /\ issued \in [Tokens -> {"no", "alone", "crowded"}]
  /\ pending \subseteq Tokens \ Unused /\ codes \in [Tokens -> {"none", "valid", "used"}]
  /\ count \in [Scopes -> {None} \cup Counter] /\ lock \in [Scopes -> {None} \cup Requests]
  /\ wrong \in [Scopes -> Nat] /\ calm \in [Scopes -> Nat] /\ opened \subseteq Tokens /\ entered \subseteq Tokens
  /\ reqs \in [Requests -> Regs]

\* A second step is under way.
Second(r) == reqs[r].pc \notin {"idle", "mail"}

\* The counters a request is through with, in the round it makes.
Past(r) ==
  IF reqs[r].pc \in {"check", "load", "write", "reset"}
  THEN {ScopesOf(r)[i] : i \in 1..(reqs[r].at - 1)}
  ELSE Mine(r)

\* What a request has in hand.
Local(r) ==
  /\ Second(r) => /\ reqs[r].token \in Tokens \ Unused
                  /\ reqs[r].at \in 1..Len(ScopesOf(r))
                  /\ reqs[r].pc \in {"judge", "failed", "done"} => reqs[r].at = 1
  /\ reqs[r].pc \in {"reset", "done"} /\ factor = "email" => reqs[r].code \in Tokens
  /\ DOMAIN reqs[r].mine = IF Failing(r) THEN Past(r) ELSE {}

\* The locks are those of what it has written, or of the rows it deletes.
HeldBy(r) ==
  /\ \A s \in Scopes : lock[s] = r => (reqs[r].pc \in {"reset", "done"} \/ Failing(r)) /\ s \in Past(r)
  /\ \A s \in DOMAIN reqs[r].mine : lock[s] = r /\ (~reqs[r].mine[s].renew => count[s] # None)

TypeInv == Shape /\ \A r \in Requests : Local(r) /\ HeldBy(r)

\* Nothing has overlapped a quiet request.
QuietAlone == \A r, q \in Requests : reqs[r].quiet /\ reqs[r].pc # "idle" /\ q # r => reqs[q].pc = "idle"

\* A good code of a first step that ran alone.
Good(t) == codes[t] = "valid" /\ issued[t] = "alone"

\* Codes are mailed for the e-mail factor, and the one that is mailed next
\* leaves no other.
Mailed ==
  /\ factor # "email" => \A t \in Tokens : codes[t] # "valid"
  /\ \A r \in Requests : reqs[r].pc = "mail" /\ reqs[r].quiet => \A t \in Tokens : codes[t] = "valid" => t \in reqs[r].kill
  /\ \A t, u \in Tokens : Good(t) /\ Good(u) => t = u

\* What has completed a login is not pending, nor in the hands of a quiet request.
Spent ==
  /\ \A t \in opened : issued[t] # "no" /\ t \notin pending
  /\ \A r \in Requests : Second(r) /\ reqs[r].quiet => reqs[r].token \notin opened

\* A code that completed a login is not good, nor shown by a quiet request that
\* has been let in.
Accepted(r) == factor = "email" /\ reqs[r].pc \in {"reset", "done"}
Redeemed ==
  /\ \A c \in Tokens : codes[c] = "valid" => issued[c] # "no" /\ c \notin entered
  /\ \A c \in entered : issued[c] # "no"
  /\ \A r \in Requests : Accepted(r) =>
       issued[reqs[r].code] # "no" /\ (reqs[r].quiet => reqs[r].code \notin entered)

\* There is room for the wrong codes that may still come.
Judged == {r \in Requests : reqs[r].pc \in {"check", "judge"}}
Tried  == \A s \in Scopes : wrong[s] + Cardinality(Judged) <= MaxWrong

\* Every number counted, or about to be, leaves room for the failures under way.
EarnedBy(r) ==
  /\ reqs[r].pc = "write" /\ reqs[r].loaded # None /\ Here(r) \notin reqs[r].gone =>
       LET s == Here(r) IN
       /\ reqs[r].loaded.fresh => reqs[r].loaded.n + Failers(s) <= wrong[s]
       /\ ~reqs[r].loaded.fresh /\ reqs[r].loaded.n = 1 /\ count[s] # None
            => count[s].n + Failers(s) <= wrong[s] + 1
  /\ \A s \in DOMAIN reqs[r].mine : reqs[r].mine[s].n + Failers(s) <= wrong[s] + 1
EarnedAt(s) ==
  /\ calm[s] + Failers(s) <= wrong[s]
  /\ count[s] # None /\ count[s].fresh => count[s].n + Failers(s) <= wrong[s]
Earned == (\A s \in Scopes : EarnedAt(s)) /\ \A r \in Requests : EarnedBy(r)

\* The quiet failures are counted, and a quiet request found none too many.
Counts(row, k) == IF row # None /\ row.fresh THEN k <= row.n ELSE k = 0
LimitedBy(r) ==
  /\ reqs[r].pc = "write" => Counts(reqs[r].loaded, calm[Here(r)])
  /\ reqs[r].pc = "write" /\ reqs[r].quiet => reqs[r].loaded = count[Here(r)]
  /\ \A s \in DOMAIN reqs[r].mine : calm[s] < reqs[r].mine[s].n
  /\ \A s \in DOMAIN reqs[r].mine : reqs[r].quiet /\ ~reqs[r].mine[s].renew => count[s].fresh
  /\ reqs[r].quiet /\ (reqs[r].pc \in {"check", "judge"} \/ Failing(r)) =>
       \A s \in (IF reqs[r].pc = "check" THEN Past(r) ELSE Mine(r)) : calm[s] < MaxAttempts
Limited ==
  factor = "email" => (\A s \in Scopes : Counts(count[s], calm[s])) /\ \A r \in Requests : LimitedBy(r)

Inv == TypeInv /\ QuietAlone /\ Mailed /\ Spent /\ Redeemed /\ Tried /\ Earned /\ Limited /\ LimitHolds

-----------------------------------------------------------------------------
(* The counters of a request.                                               *)

LEMMA Constants ==
  /\ IsFiniteSet(Requests) /\ IsFiniteSet(Tokens) /\ MaxAttempts \in Nat \ {0} /\ MaxWrong \in Nat
  /\ None \notin Counter /\ None \notin Requests /\ None \notin Tokens /\ None # User /\ User \notin Tokens /\ User \notin Ips /\ Tokens \cap Ips = {}
<1>1. Counter \subseteq [n : Nat, fresh : BOOLEAN]
  BY LoginAssumption DEF LoginAssumption, Counter
<1> QED BY <1>1, LoginAssumption DEF LoginAssumption

\* First the token, then the user, then the address if it is known.
LEMMA ScopesAre ==
  ASSUME NEW r
  PROVE  LET S == ScopesOf(r) IN
         /\ DOMAIN S = 1..Len(S)
         /\ S[1] = reqs[r].token /\ S[2] = User
         /\ reqs[r].ip = None => Len(S) = 2
         /\ reqs[r].ip # None => Len(S) = 3 /\ S[3] = reqs[r].ip
<1>1. CASE reqs[r].ip = None
  BY <1>1 DEF ScopesOf
<1>2. CASE reqs[r].ip # None
  BY <1>2 DEF ScopesOf
<1> QED BY <1>1, <1>2

\* What a request has before it in its round.
Before(r) == {ScopesOf(r)[i] : i \in 1..(reqs[r].at - 1)}

LEMMA Positions ==
  ASSUME NEW r \in Requests, reqs[r] \in Regs, reqs[r].token \in Tokens, reqs[r].at \in 1..Len(ScopesOf(r))
  PROVE  /\ Mine(r) = {reqs[r].token, User, reqs[r].ip} \ {None} /\ Mine(r) \subseteq Scopes
         /\ Len(ScopesOf(r)) \in {2, 3} /\ reqs[r].at \in {1, 2, 3}
         /\ Here(r) \in Mine(r) /\ Here(r) \notin Before(r) /\ Before(r) \subseteq Mine(r)
         /\ reqs[r].at = 1 => Here(r) = reqs[r].token /\ Before(r) = {}
         /\ reqs[r].at = 2 => Here(r) = User /\ Before(r) = {reqs[r].token}
         /\ reqs[r].at = 3 => Here(r) = reqs[r].ip /\ reqs[r].ip # None /\ Before(r) = {reqs[r].token, User}
         /\ reqs[r].at = Len(ScopesOf(r)) => Mine(r) = Before(r) \cup {Here(r)}
<1> DEFINE S == ScopesOf(r)  t == reqs[r].token  p == reqs[r].ip  i == reqs[r].at
<1>1. /\ DOMAIN S = 1..Len(S) /\ S[1] = t /\ S[2] = User
      /\ p = None => Len(S) = 2
      /\ p # None => Len(S) = 3 /\ S[3] = p
  BY ScopesAre
<1>2. t \in Tokens /\ t # None /\ t # User /\ User # None /\ p \in Ips \cup {None} /\ p # t /\ p # User /\ i \in 1..Len(S)
  BY Constants DEF Regs
<1>3. Mine(r) = {S[k] : k \in DOMAIN S} /\ Before(r) = {S[k] : k \in 1..(i - 1)} /\ Here(r) = S[i]
  BY DEF Mine, Before, Here
<1> HIDE DEF S, t, p, i
<1>4. Len(S) \in {2, 3} /\ i \in {1, 2, 3}
  BY <1>1, <1>2
<1>5. Mine(r) = {t, User, p} \ {None}
  <2>1. CASE p = None
    <3>1. DOMAIN S = {1, 2}
      BY <1>1, <2>1
    <3> QED BY <1>1, <1>2, <1>3, <2>1, <3>1
  <2>2. CASE p # None
    <3>1. DOMAIN S = {1, 2, 3}
      BY <1>1, <2>2
    <3> QED BY <1>1, <1>2, <1>3, <2>2, <3>1
  <2> QED BY <2>1, <2>2
<1>6. CASE i = 1
  <2>1. 1..(i - 1) = {}
    BY <1>6
  <2> QED BY <1>1, <1>2, <1>3, <1>4, <1>5, <1>6, <2>1 DEF Scopes, t, p, i, S
<1>7. CASE i = 2
  <2>1. 1..(i - 1) = {1}
    BY <1>7
  <2>2. Before(r) = {t} /\ Here(r) = User
    BY <1>1, <1>3, <1>7, <2>1
  <2>3. ASSUME i = Len(S), p # None
        PROVE  FALSE
    <3>1. Len(S) = 3
      BY <1>1, <2>3
    <3> QED BY <1>7, <2>3, <3>1
  <2> QED BY <1>1, <1>2, <1>4, <1>5, <1>7, <2>2, <2>3 DEF Scopes, t, p, i, S
<1>8. CASE i = 3
  <2>1. 1..(i - 1) = {1, 2}
    BY <1>8
  <2>2. p # None /\ Before(r) = {t, User} /\ Here(r) = p
    BY <1>1, <1>2, <1>3, <1>8, <2>1
  <2> QED BY <1>1, <1>2, <1>4, <1>5, <1>8, <2>2 DEF Scopes, t, p, i, S
<1> QED BY <1>4, <1>6, <1>7, <1>8

-----------------------------------------------------------------------------
(* What the steps have in common.                                           *)

\* What no other request changes of q; only that it is overlapped, and that
\* the row it has read is gone.
Same(q) ==
  /\ reqs'[q].pc = reqs[q].pc /\ reqs'[q].token = reqs[q].token /\ reqs'[q].ip = reqs[q].ip
  /\ reqs'[q].code = reqs[q].code /\ reqs'[q].at = reqs[q].at /\ reqs'[q].loaded = reqs[q].loaded
  /\ reqs'[q].mine = reqs[q].mine /\ reqs'[q].kill = reqs[q].kill
  /\ reqs'[q].quiet => reqs[q].quiet
  /\ reqs'[q].gone = reqs[q].gone \/ Here(q) \in reqs'[q].gone

Others(r) == reqs' \in [Requests -> Regs] /\ \A q \in Requests \ {r} : Same(q)

LEMMA SameScopes ==
  ASSUME NEW q, Same(q)
  PROVE  /\ ScopesOf(q)' = ScopesOf(q) /\ Mine(q)' = Mine(q) /\ Here(q)' = Here(q)
         /\ Past(q)' = Past(q) /\ (Failing(q)' <=> Failing(q)) /\ (Second(q)' <=> Second(q))
<1>1. ScopesOf(q)' = ScopesOf(q)
  BY DEF Same, ScopesOf
<1> QED BY <1>1 DEF Same, Mine, Here, Past, Failing, Second

\* The registers of a request that is not there.
LEMMA IdleFacts ==
  /\ Idle \in Regs /\ Idle.pc = "idle" /\ Idle.token = None /\ Idle.ip = None /\ Idle.code = None /\ Idle.at = 1
  /\ Idle.loaded = None /\ DOMAIN Idle.mine = {} /\ Idle.gone = {} /\ Idle.kill = {} /\ Idle.quiet
<1>1. <<>> \in [{} -> Note]
  OBVIOUS
<1>2. <<>> \in Notes
  BY <1>1 DEF Notes
<1>3. {} \in SUBSET Scopes /\ {} \in SUBSET Tokens /\ "idle" \in Steps /\ 1 \in 1..3
  BY DEF Steps
<1> QED BY <1>2, <1>3 DEF Idle, Regs

\* One record of the table is replaced.
LEMMA Putting ==
  ASSUME reqs \in [Requests -> Regs], NEW r \in Requests, NEW m \in Regs, reqs' = [reqs EXCEPT ![r] = m]
  PROVE  Others(r) /\ reqs'[r] = m /\ \A q \in Requests \ {r} : reqs'[q] = reqs[q]
BY DEF Others, Same

\* A request comes in and disturbs the others.
LEMMA Disturbing ==
  ASSUME reqs \in [Requests -> Regs]
  PROVE  /\ Disturbed \in [Requests -> Regs]
         /\ \A q \in Requests :
              /\ Disturbed[q].pc = reqs[q].pc /\ Disturbed[q].token = reqs[q].token /\ Disturbed[q].ip = reqs[q].ip
              /\ Disturbed[q].code = reqs[q].code /\ Disturbed[q].at = reqs[q].at /\ Disturbed[q].loaded = reqs[q].loaded
              /\ Disturbed[q].mine = reqs[q].mine /\ Disturbed[q].kill = reqs[q].kill /\ Disturbed[q].gone = reqs[q].gone
              /\ Disturbed[q].quiet => reqs[q].quiet /\ reqs[q].pc = "idle"
<1>1. ASSUME NEW m \in Regs
      PROVE  LET d == [m EXCEPT !.quiet = m.quiet /\ m.pc = "idle"] IN
             /\ d \in Regs
             /\ d.pc = m.pc /\ d.token = m.token /\ d.ip = m.ip /\ d.code = m.code /\ d.at = m.at /\ d.loaded = m.loaded
             /\ d.mine = m.mine /\ d.kill = m.kill /\ d.gone = m.gone
             /\ d.quiet = (m.quiet /\ m.pc = "idle")
  <2>1. (m.quiet /\ m.pc = "idle") \in BOOLEAN
    OBVIOUS
  <2> QED BY <2>1 DEF Regs
<1>2. \A q \in Requests : Disturbed[q] = [reqs[q] EXCEPT !.quiet = reqs[q].quiet /\ reqs[q].pc = "idle"]
  BY DEF Disturbed
<1>3. ASSUME NEW q \in Requests
      PROVE  /\ Disturbed[q] \in Regs
             /\ Disturbed[q].pc = reqs[q].pc /\ Disturbed[q].token = reqs[q].token /\ Disturbed[q].ip = reqs[q].ip
             /\ Disturbed[q].code = reqs[q].code /\ Disturbed[q].at = reqs[q].at /\ Disturbed[q].loaded = reqs[q].loaded
             /\ Disturbed[q].mine = reqs[q].mine /\ Disturbed[q].kill = reqs[q].kill /\ Disturbed[q].gone = reqs[q].gone
             /\ Disturbed[q].quiet = (reqs[q].quiet /\ reqs[q].pc = "idle")
  <2>1. reqs[q] \in Regs /\ Disturbed[q] = [reqs[q] EXCEPT !.quiet = reqs[q].quiet /\ reqs[q].pc = "idle"]
    BY <1>2
  <2> QED BY <1>1, <2>1
<1>4. Disturbed \in [Requests -> Regs]
  BY <1>3 DEF Disturbed
<1> QED BY <1>3, <1>4

\* From one counter to the next.
LEMMA Advancing ==
  ASSUME reqs \in [Requests -> Regs], NEW r \in Requests, reqs[r].token \in Tokens, reqs[r].at \in 1..Len(ScopesOf(r)),
         NEW p \in Steps, NEW n \in Steps
  PROVE  LET m == Advance(r, p, n) IN
         /\ m \in Regs /\ m.token = reqs[r].token /\ m.ip = reqs[r].ip /\ m.code = reqs[r].code
         /\ m.loaded = reqs[r].loaded /\ m.mine = reqs[r].mine /\ m.gone = reqs[r].gone /\ m.quiet = reqs[r].quiet
         /\ \/ m.pc = p /\ m.at = reqs[r].at + 1 /\ m.at \in 1..Len(ScopesOf(r))
            \/ m.pc = n /\ m.at = 1 /\ 1 \in 1..Len(ScopesOf(r)) /\ reqs[r].at = Len(ScopesOf(r))
<1> DEFINE i == reqs[r].at  l == Len(ScopesOf(r))
<1>1. reqs[r] \in Regs /\ l \in {2, 3} /\ i \in {1, 2, 3} /\ i \in 1..l
  BY Positions
<1>2. PICK j \in 1..3, q \in Steps : j = (i % l) + 1 /\ q = IF i < l THEN p ELSE n
  <2>1. (i % l) + 1 \in 1..3
    <3> HIDE DEF i, l
    <3>1. CASE l = 2
      BY <1>1, <3>1
    <3>2. CASE l = 3
      BY <1>1, <3>2
    <3> QED BY <1>1, <3>1, <3>2
  <2> QED BY <2>1
<1>3. Advance(r, p, n) = [reqs[r] EXCEPT !.at = j, !.pc = q]
  BY <1>2 DEF Advance
<1>4. \/ q = p /\ j = i + 1 /\ j \in 1..l
      \/ q = n /\ j = 1 /\ 1 \in 1..l /\ i = l
  <2> HIDE DEF i, l
  <2>1. CASE i < l
    <3>1. i % l = i
      BY <1>1, <2>1
    <3> QED BY <1>1, <1>2, <2>1, <3>1
  <2>2. CASE ~(i < l)
    <3>1. i = l /\ i % l = 0
      BY <1>1, <2>2
    <3> QED BY <1>1, <1>2, <2>2, <3>1
  <2> QED BY <2>1, <2>2
<1> HIDE DEF i, l
<1>5. LET m == [reqs[r] EXCEPT !.at = j, !.pc = q] IN
      /\ m \in Regs /\ m.token = reqs[r].token /\ m.ip = reqs[r].ip /\ m.code = reqs[r].code
      /\ m.loaded = reqs[r].loaded /\ m.mine = reqs[r].mine /\ m.gone = reqs[r].gone /\ m.quiet = reqs[r].quiet
      /\ m.at = j /\ m.pc = q
  BY <1>1 DEF Regs
<1> QED BY <1>3, <1>4, <1>5 DEF i, l

\* The rows of the database and the histories have their types.
Tables ==
  /\ factor \in Factors /\ issued \in [Tokens -> {"no", "alone", "crowded"}]
  /\ pending \subseteq Tokens \ Unused /\ codes \in [Tokens -> {"none", "valid", "used"}]
  /\ count \in [Scopes -> {None} \cup Counter] /\ lock \in [Scopes -> {None} \cup Requests]
  /\ wrong \in [Scopes -> Nat] /\ calm \in [Scopes -> Nat] /\ opened \subseteq Tokens
  /\ entered \subseteq Tokens

\* A request takes and gives up only its own locks, and writes what it has locked.
Locks(r)  == \A s \in Scopes : \A q \in Requests \ {r} : lock'[s] = q <=> lock[s] = q
Writes(r) == \A s \in Scopes : lock[s] = r \/ count'[s] = count[s]

\* What a step of r leaves, for itself and for the others.
Moves(r) ==
  /\ Tables' /\ Others(r) /\ factor' = factor /\ Unused' \subseteq Unused
  /\ Locks(r) /\ Writes(r) /\ Local(r)' /\ HeldBy(r)'

LEMMA Typed ==
  ASSUME TypeInv, NEW r \in Requests, Moves(r)
  PROVE  TypeInv'
<1>1. Shape'
  BY DEF Moves, Tables, Others, Shape
<1>2. ASSUME NEW q \in Requests, q # r
      PROVE  Local(q)' /\ HeldBy(q)'
  <2>1. /\ Same(q) /\ Local(q) /\ HeldBy(q) /\ factor' = factor /\ Unused' \subseteq Unused
        /\ \A s \in Scopes : (lock'[s] = q <=> lock[s] = q) /\ (lock[s] = q => count'[s] = count[s])
    BY <1>2 DEF TypeInv, Moves, Others, Locks, Writes
  <2>2. /\ ScopesOf(q)' = ScopesOf(q) /\ Past(q)' = Past(q) /\ (Failing(q)' <=> Failing(q)) /\ (Second(q)' <=> Second(q))
    BY <2>1, SameScopes
  <2>3. Local(q)'
    BY <2>1, <2>2 DEF Local, Same
  <2>4. DOMAIN reqs[q].mine \subseteq Scopes
    <3>1. reqs[q] \in Regs
      BY DEF TypeInv, Shape
    <3> QED BY <3>1 DEF Regs, Notes
  <2>5. HeldBy(q)'
    BY <2>1, <2>2, <2>4 DEF HeldBy, Same
  <2> QED BY <2>3, <2>5
<1> QED BY <1>1, <1>2 DEF TypeInv, Moves

\* A transaction ends.
LEMMA Closing ==
  ASSUME Shape, NEW r \in Requests, Closes(r)
  PROVE  /\ Others(r) /\ reqs'[r] = Idle /\ \A q \in Requests \ {r} : reqs'[q] = reqs[q]
         /\ lock' \in [Scopes -> {None} \cup Requests] /\ Locks(r) /\ \A s \in Scopes : lock'[s] # r
         /\ Local(r)'
<1>1. Idle \in Regs /\ reqs' = [reqs EXCEPT ![r] = Idle] /\ reqs \in [Requests -> Regs]
  BY IdleFacts DEF Closes, Shape
<1>2. Others(r) /\ reqs'[r] = Idle /\ \A q \in Requests \ {r} : reqs'[q] = reqs[q]
  BY <1>1, Putting
<1>3. Local(r)'
  BY <1>2, IdleFacts DEF Local, Second, Failing
<1>4. lock' = [s \in Scopes |-> IF lock[s] = r THEN None ELSE lock[s]]
  BY DEF Closes, Released
<1>5. \A s \in Scopes : lock'[s] = IF lock[s] = r THEN None ELSE lock[s]
  BY <1>4
<1> QED BY <1>2, <1>3, <1>4, <1>5, Constants DEF Shape, Locks

-----------------------------------------------------------------------------
(* What each step does.                                                     *)

\* The tables as they were.
LEMMA TablesOf == Shape <=> Tables /\ reqs \in [Requests -> Regs]
BY DEF Shape, Tables

\* A transaction is given up.
Aborted(r) == UNCHANGED shared /\ reqs'[r] = Idle /\ \A q \in Requests \ {r} : reqs'[q] = reqs[q]

LEMMA Aborting ==
  ASSUME Shape, NEW r \in Requests, Aborts(r), factor' = factor
  PROVE  Moves(r) /\ Aborted(r)
<1>1. Closes(r) /\ UNCHANGED shared
  BY DEF Aborts
<1>2. /\ issued' = issued /\ pending' = pending /\ codes' = codes /\ count' = count /\ wrong' = wrong /\ calm' = calm
      /\ opened' = opened /\ entered' = entered
  BY <1>1 DEF shared
<1>3. /\ Others(r) /\ reqs'[r] = Idle /\ \A q \in Requests \ {r} : reqs'[q] = reqs[q]
      /\ lock' \in [Scopes -> {None} \cup Requests] /\ Locks(r) /\ \A s \in Scopes : lock'[s] # r
      /\ Local(r)'
  BY <1>1, Closing
<1>4. HeldBy(r)'
  BY <1>3, IdleFacts DEF HeldBy
<1>5. Unused' = Unused
  BY <1>2 DEF Unused
<1>6. Tables'
  BY <1>2, <1>3, <1>5 DEF Tables, Shape
<1> QED BY <1>1, <1>2, <1>3, <1>4, <1>5, <1>6 DEF Moves, Aborted, Writes

\* A request comes in and disturbs the others.
Enters(r) ==
  /\ UNCHANGED shared /\ reqs[r].pc = "idle" /\ ~Failing(r)' /\ DOMAIN reqs'[r].mine = {}
  /\ reqs'[r].quiet => Quiet
  /\ \A q \in Requests \ {r} : reqs'[q].quiet => reqs[q].pc = "idle"

LEMMA Entering ==
  ASSUME Shape, NEW r \in Requests, Local(r), HeldBy(r), NEW m \in Regs, factor' = factor, UNCHANGED <<shared, lock>>,
         reqs[r].pc = "idle", reqs' = [Disturbed EXCEPT ![r] = m], DOMAIN m.mine = {}, m.quiet => Quiet,
         m.pc \in {"mail", "check"}, m.pc = "check" => m.token \in Tokens \ Unused /\ m.at = 1
  PROVE  Moves(r) /\ Enters(r) /\ reqs'[r] = m
<1>1. /\ issued' = issued /\ pending' = pending /\ codes' = codes /\ count' = count /\ wrong' = wrong /\ calm' = calm
      /\ opened' = opened /\ entered' = entered /\ lock' = lock
  BY DEF shared
<1>2. reqs' \in [Requests -> Regs] /\ reqs'[r] = m /\ \A q \in Requests \ {r} : reqs'[q] = Disturbed[q]
  BY Disturbing DEF Shape
<1>3. Others(r)
  BY <1>2, Disturbing DEF Others, Same, Shape
<1>4. Unused' = Unused
  BY <1>1 DEF Unused
<1>5. Tables'
  BY <1>1, <1>4 DEF Tables, Shape
<1>6. \A s \in Scopes : lock[s] # r
  BY DEF HeldBy, Failing
<1>7. HeldBy(r)'
  BY <1>1, <1>2, <1>6 DEF HeldBy
<1>8. Local(r)'
  <2>1. 1 \in 1..Len(ScopesOf(r)')
    BY <1>2, ScopesAre DEF ScopesOf
  <2> QED BY <1>2, <1>4, <2>1 DEF Local, Second, Failing
<1>9. ~Failing(r)' /\ \A q \in Requests \ {r} : reqs'[q].quiet => reqs[q].pc = "idle"
  BY <1>2, Disturbing DEF Failing, Shape
<1> QED BY <1>1, <1>2, <1>3, <1>4, <1>5, <1>7, <1>8, <1>9 DEF Moves, Enters, Locks, Writes

LEMMA FirstStepMoves ==
  ASSUME Shape, NEW r \in Requests, Local(r), HeldBy(r), FirstStep(r), factor' = factor
  PROVE  /\ Moves(r) /\ Enters(r)
         /\ reqs'[r].pc = "mail" /\ \A t \in Tokens : codes[t] = "valid" => t \in reqs'[r].kill
<1> DEFINE m == [Idle EXCEPT !.pc = "mail", !.kill = KillCodes, !.quiet = Quiet]
<1>1. KillCodes \subseteq Tokens /\ Quiet \in BOOLEAN /\ "mail" \in Steps
  BY DEF KillCodes, Quiet, Steps
<1>2. m \in Regs /\ m.pc = "mail" /\ m.kill = KillCodes /\ (m.quiet <=> Quiet) /\ DOMAIN m.mine = {}
  BY <1>1, IdleFacts DEF Regs
<1>3. reqs[r].pc = "idle" /\ reqs' = [Disturbed EXCEPT ![r] = m] /\ UNCHANGED <<shared, lock>>
  BY DEF FirstStep
<1> HIDE DEF m
<1>4. Moves(r) /\ Enters(r) /\ reqs'[r] = m
  BY <1>2, <1>3, Entering
<1> QED BY <1>2, <1>4 DEF KillCodes

LEMMA SecondStepMoves ==
  ASSUME Shape, NEW r \in Requests, Local(r), HeldBy(r), SecondStep(r), factor' = factor
  PROVE  /\ Moves(r) /\ Enters(r)
         /\ reqs'[r].pc = "check" /\ reqs'[r].at = 1 /\ reqs'[r].token \in pending
         /\ \A s \in Scopes : wrong[s] + Cardinality(Judged) < MaxWrong
<1>1. PICK t \in pending, ip \in Ips, c \in Tokens \cup {None} :
        reqs' = [Disturbed EXCEPT ![r] =
                   [Idle EXCEPT !.pc = "check", !.token = t, !.ip = ip, !.code = c, !.quiet = Quiet]]
  BY DEF SecondStep
<1> DEFINE m == [Idle EXCEPT !.pc = "check", !.token = t, !.ip = ip, !.code = c, !.quiet = Quiet]
<1>2. Quiet \in BOOLEAN /\ "check" \in Steps /\ t \in Tokens \ Unused
  BY DEF Quiet, Steps, Shape
<1>3. m \in Regs /\ m.pc = "check" /\ m.token = t /\ m.at = 1 /\ (m.quiet <=> Quiet) /\ DOMAIN m.mine = {}
  BY <1>2, IdleFacts DEF Regs
<1>4. reqs[r].pc = "idle" /\ reqs' = [Disturbed EXCEPT ![r] = m] /\ UNCHANGED <<shared, lock>>
  BY <1>1 DEF SecondStep
<1> HIDE DEF m
<1>5. Moves(r) /\ Enters(r) /\ reqs'[r] = m
  BY <1>2, <1>3, <1>4, Entering
<1>6. \A s \in Scopes : wrong[s] + Cardinality(Judged) < MaxWrong
  BY DEF SecondStep, Judged
<1> QED BY <1>3, <1>5, <1>6

\* A code is mailed with a token that is new.
LEMMA FirstStepCommitMoves ==
  ASSUME Shape, NEW r \in Requests, Local(r), HeldBy(r), FirstStepCommit(r), factor' = factor
  PROVE  /\ Moves(r) /\ UNCHANGED <<count, wrong, calm, opened, entered>>
         /\ reqs[r].pc = "mail" /\ reqs'[r] = Idle /\ \A q \in Requests \ {r} : reqs'[q] = reqs[q]
         /\ \E t \in Unused :
              /\ issued'[t] = (IF reqs[r].quiet THEN "alone" ELSE "crowded")
              /\ \A u \in Tokens \ {t} : issued'[u] = issued[u]
              /\ pending' = pending \cup {t}
              /\ \A u \in Tokens \ {t} : codes'[u] = "valid" => codes[u] = "valid" /\ (factor = "email" => u \notin reqs[r].kill)
              /\ factor # "email" => codes' = codes
<1>1. /\ reqs[r].pc = "mail" /\ Closes(r) /\ count' = count /\ wrong' = wrong /\ calm' = calm /\ opened' = opened /\ entered' = entered
  BY DEF FirstStepCommit
<1>2. PICK t \in Unused :
       /\ issued' = [issued EXCEPT ![t] = IF reqs[r].quiet THEN "alone" ELSE "crowded"]
       /\ pending' = pending \cup {t}
       /\ codes' = IF factor = "email"
                   THEN [x \in Tokens |-> IF x = t THEN "valid" ELSE IF x \in reqs[r].kill THEN "used" ELSE codes[x]]
                   ELSE codes
  BY DEF FirstStepCommit
<1>3. PICK h \in {"alone", "crowded"} : h = IF reqs[r].quiet THEN "alone" ELSE "crowded"
  OBVIOUS
<1>4. /\ t \in Tokens /\ issued[t] = "no" /\ issued' = [issued EXCEPT ![t] = h]
  BY <1>2, <1>3 DEF Unused
<1>5. /\ issued' \in [Tokens -> {"no", "alone", "crowded"}] /\ issued'[t] = h
      /\ \A u \in Tokens \ {t} : issued'[u] = issued[u]
  BY <1>4 DEF Shape
<1>6. Unused' \subseteq Unused /\ t \notin Unused'
  BY <1>4, <1>5 DEF Unused
<1>7. pending' \subseteq Tokens \ Unused'
  BY <1>2, <1>4, <1>6 DEF Shape
<1>8. /\ codes' \in [Tokens -> {"none", "valid", "used"}]
      /\ \A u \in Tokens \ {t} : codes'[u] = "valid" => codes[u] = "valid" /\ (factor = "email" => u \notin reqs[r].kill)
      /\ factor # "email" => codes' = codes
  <2>1. CASE factor = "email"
    <3>1. codes' = [x \in Tokens |-> IF x = t THEN "valid" ELSE IF x \in reqs[r].kill THEN "used" ELSE codes[x]]
      BY <1>2, <2>1
    <3> QED BY <2>1, <3>1 DEF Shape
  <2>2. CASE factor # "email"
    BY <1>2, <2>2 DEF Shape
  <2> QED BY <2>1, <2>2
<1>9. /\ Others(r) /\ reqs'[r] = Idle /\ \A q \in Requests \ {r} : reqs'[q] = reqs[q]
      /\ lock' \in [Scopes -> {None} \cup Requests] /\ Locks(r) /\ \A s \in Scopes : lock'[s] # r
      /\ Local(r)'
  BY <1>1, Closing
<1>a. HeldBy(r)'
  BY <1>9, IdleFacts DEF HeldBy
<1>b. Tables'
  BY <1>1, <1>5, <1>7, <1>8, <1>9 DEF Tables, Shape
<1>c. Moves(r)
  BY <1>1, <1>6, <1>9, <1>a, <1>b DEF Moves, Writes
<1> QED BY <1>1, <1>2, <1>3, <1>4, <1>5, <1>8, <1>9, <1>c

LEMMA FirstStepFailsMoves ==
  ASSUME Shape, NEW r \in Requests, FirstStepFails(r), factor' = factor
  PROVE  Moves(r) /\ Aborted(r) /\ reqs[r].pc = "mail"
BY Aborting DEF FirstStepFails

\* A request goes on by itself, and writes nothing.
GoesOn(r) ==
  /\ UNCHANGED shared /\ \A q \in Requests \ {r} : reqs'[q] = reqs[q]
  /\ reqs'[r].token = reqs[r].token /\ reqs'[r].ip = reqs[r].ip /\ reqs'[r].quiet = reqs[r].quiet

\* Where it is after a step from one counter to the next.
LEMMA Passing ==
  ASSUME NEW r \in Requests, reqs[r] \in Regs, reqs[r].token \in Tokens, reqs[r].at \in 1..Len(ScopesOf(r)),
         reqs[r].pc \in {"check", "load", "write", "reset"},
         reqs'[r].token = reqs[r].token, reqs'[r].ip = reqs[r].ip,
         \/ reqs'[r].pc \in {"check", "load", "reset"} /\ reqs'[r].at = reqs[r].at + 1
         \/ reqs'[r].pc \in {"judge", "failed", "done"} /\ reqs[r].at = Len(ScopesOf(r))
  PROVE  /\ ScopesOf(r)' = ScopesOf(r) /\ Mine(r)' = Mine(r)
         /\ Past(r)' = Past(r) \cup {Here(r)}
<1>1. ScopesOf(r)' = ScopesOf(r)
  BY DEF ScopesOf
<1>2. Mine(r)' = Mine(r)
  BY <1>1 DEF Mine
<1>3. /\ Past(r) = Before(r) /\ Len(ScopesOf(r)) \in {2, 3} /\ reqs[r].at \in {1, 2, 3}
      /\ reqs[r].at = Len(ScopesOf(r)) => Mine(r) = Before(r) \cup {Here(r)}
  BY Positions DEF Past, Before
<1>4. CASE reqs'[r].pc \in {"check", "load", "reset"} /\ reqs'[r].at = reqs[r].at + 1
  <2>1. Past(r)' = {ScopesOf(r)[i] : i \in 1..reqs[r].at}
    BY <1>1, <1>3, <1>4 DEF Past
  <2>2. 1..reqs[r].at = 1..(reqs[r].at - 1) \cup {reqs[r].at}
    BY <1>3
  <2> QED BY <1>1, <1>2, <1>3, <2>1, <2>2 DEF Before, Here
<1>5. CASE reqs'[r].pc \in {"judge", "failed", "done"} /\ reqs[r].at = Len(ScopesOf(r))
  <2>1. Past(r)' = Mine(r)'
    BY <1>5 DEF Past
  <2> QED BY <1>1, <1>2, <1>3, <1>5, <2>1
<1> QED BY <1>1, <1>2, <1>4, <1>5

LEMMA CheckMoves ==
  ASSUME Shape, NEW r \in Requests, Local(r), HeldBy(r), Check(r), factor' = factor
  PROVE  /\ Moves(r) /\ reqs[r].pc = "check"
         /\ \/ Aborted(r)
            \/ /\ GoesOn(r) /\ reqs'[r].pc \in {"check", "judge"} /\ ~BlockedHere(r) /\ DOMAIN reqs'[r].mine = {}
               /\ Mine(r)' = Mine(r) /\ Past(r)' = Past(r) \cup {Here(r)}
               /\ reqs'[r].pc = "judge" => Mine(r) = Past(r) \cup {Here(r)}
<1>1. reqs[r].pc = "check" /\ reqs[r] \in Regs /\ reqs \in [Requests -> Regs]
  BY DEF Check, Shape
<1>2. /\ reqs[r].token \in Tokens \ Unused /\ reqs[r].at \in 1..Len(ScopesOf(r))
      /\ DOMAIN reqs[r].mine = {}
  BY <1>1 DEF Local, Second, Failing
<1>3. CASE BlockedHere(r)
  BY <1>1, <1>3, Aborting DEF Check
<1>4. CASE ~BlockedHere(r)
  <2> DEFINE m == Advance(r, "check", "judge")
  <2>1. reqs' = [reqs EXCEPT ![r] = m] /\ UNCHANGED <<shared, lock>>
    BY <1>4 DEF Check
  <2>2. /\ issued' = issued /\ pending' = pending /\ codes' = codes /\ count' = count /\ wrong' = wrong /\ calm' = calm
        /\ opened' = opened /\ entered' = entered /\ lock' = lock /\ UNCHANGED shared
    BY <2>1 DEF shared
  <2>3. "check" \in Steps /\ "judge" \in Steps
    BY DEF Steps
  <2>4. /\ m \in Regs /\ m.token = reqs[r].token /\ m.ip = reqs[r].ip /\ m.mine = reqs[r].mine /\ m.quiet = reqs[r].quiet
        /\ \/ m.pc = "check" /\ m.at = reqs[r].at + 1 /\ m.at \in 1..Len(ScopesOf(r))
           \/ m.pc = "judge" /\ m.at = 1 /\ 1 \in 1..Len(ScopesOf(r)) /\ reqs[r].at = Len(ScopesOf(r))
    BY <1>1, <1>2, <2>3, Advancing
  <2> HIDE DEF m
  <2>5. Others(r) /\ reqs'[r] = m /\ \A q \in Requests \ {r} : reqs'[q] = reqs[q]
    BY <1>1, <2>1, <2>4, Putting
  <2>6. /\ ScopesOf(r)' = ScopesOf(r) /\ Mine(r)' = Mine(r)
        /\ Past(r)' = Past(r) \cup {Here(r)}
    BY <1>1, <1>2, <2>4, <2>5, Passing
  <2>7. m.pc = "judge" => Mine(r) = Past(r) \cup {Here(r)}
    BY <1>1, <1>2, <2>4, Positions DEF Past, Before
  <2>8. Unused' = Unused /\ Tables'
    BY <2>2 DEF Unused, Tables, Shape
  <2>9. Local(r)'
    BY <1>2, <2>4, <2>5, <2>6, <2>8 DEF Local, Second, Failing
  <2>a. HeldBy(r)'
    BY <1>1, <1>2, <2>2, <2>4, <2>5 DEF HeldBy, Failing
  <2> QED BY <1>1, <1>2, <1>4, <2>2, <2>4, <2>5, <2>6, <2>7, <2>8, <2>9, <2>a DEF Moves, GoesOn, Locks, Writes
<1> QED BY <1>3, <1>4

LEMMA JudgeMoves ==
  ASSUME Shape, NEW r \in Requests, Local(r), HeldBy(r), Judge(r), factor' = factor
  PROVE  /\ Moves(r) /\ reqs[r].pc = "judge" /\ Mine(r) \subseteq Scopes /\ Mine(r)' = Mine(r)
         /\ UNCHANGED <<issued, pending, codes, count, calm, opened, entered>> /\ DOMAIN reqs'[r].mine = {}
         /\ reqs'[r].token = reqs[r].token /\ reqs'[r].code = reqs[r].code /\ reqs'[r].quiet = reqs[r].quiet
         /\ \A q \in Requests \ {r} : reqs'[q] = reqs[q]
         /\ \/ reqs'[r].pc = "reset" /\ wrong' = wrong /\ CodeIsRight(r)
            \/ /\ reqs'[r].pc = "load"
               /\ \A s \in Scopes : wrong'[s] = IF s \in Mine(r) THEN wrong[s] + 1 ELSE wrong[s]
<1>1. reqs[r].pc = "judge" /\ reqs[r] \in Regs /\ reqs \in [Requests -> Regs]
  BY DEF Judge, Shape
<1>2. /\ reqs[r].token \in Tokens \ Unused /\ reqs[r].at = 1 /\ reqs[r].at \in 1..Len(ScopesOf(r))
      /\ DOMAIN reqs[r].mine = {}
  BY <1>1 DEF Local, Second, Failing
<1>3. /\ issued' = issued /\ pending' = pending /\ codes' = codes /\ count' = count /\ calm' = calm
      /\ opened' = opened /\ entered' = entered /\ lock' = lock
  BY DEF Judge
<1>4. PICK p \in {"reset", "load"} :
        /\ reqs' = [reqs EXCEPT ![r].pc = p]
        /\ p = "reset" => wrong' = wrong /\ CodeIsRight(r)
        /\ p = "load" => wrong' = [s \in Scopes |-> IF s \in Mine(r) THEN wrong[s] + 1 ELSE wrong[s]]
  BY DEF Judge
<1> DEFINE m == [reqs[r] EXCEPT !.pc = p]
<1>5. /\ m \in Regs /\ m.token = reqs[r].token /\ m.ip = reqs[r].ip /\ m.mine = reqs[r].mine /\ m.quiet = reqs[r].quiet
      /\ m.pc = p /\ m.at = reqs[r].at /\ m.code = reqs[r].code
  BY <1>1 DEF Regs, Steps
<1>6. reqs' = [reqs EXCEPT ![r] = m]
  BY <1>1, <1>4
<1> HIDE DEF m
<1>7. Others(r) /\ reqs'[r] = m /\ \A q \in Requests \ {r} : reqs'[q] = reqs[q]
  BY <1>1, <1>5, <1>6, Putting
<1>8. ScopesOf(r)' = ScopesOf(r) /\ Mine(r)' = Mine(r) /\ Mine(r) \subseteq Scopes
  <2>1. ScopesOf(r)' = ScopesOf(r)
    BY <1>5, <1>7 DEF ScopesOf
  <2>2. Mine(r) \subseteq Scopes
    BY <1>1, <1>2, Positions
  <2> QED BY <2>1, <2>2 DEF Mine
<1>9. p = "load" => \A s \in Scopes : wrong'[s] = IF s \in Mine(r) THEN wrong[s] + 1 ELSE wrong[s]
  BY <1>4
<1>a. wrong' \in [Scopes -> Nat]
  <2>1. CASE p = "reset"
    BY <1>4, <2>1 DEF Shape
  <2>2. CASE p = "load"
    <3>1. \A s \in Scopes : (IF s \in Mine(r) THEN wrong[s] + 1 ELSE wrong[s]) \in Nat
      BY DEF Shape
    <3> QED BY <1>4, <2>2, <3>1
  <2> QED BY <2>1, <2>2
<1>b. Unused' = Unused /\ Tables'
  BY <1>3, <1>a DEF Unused, Tables, Shape
<1>c. Past(r)' = {}
  <2>1. Past(r)' = {ScopesOf(r)[i] : i \in 1..(1 - 1)}
    BY <1>2, <1>4, <1>5, <1>7, <1>8 DEF Past
  <2>2. 1..(1 - 1) = {}
    OBVIOUS
  <2> QED BY <2>1, <2>2
<1>d. Local(r)'
  <2>1. p = "reset" /\ factor = "email" => reqs[r].code \in Tokens
    BY <1>1, <1>4 DEF CodeIsRight, Regs
  <2> QED BY <1>2, <1>4, <1>5, <1>7, <1>8, <1>b, <1>c, <2>1 DEF Local, Second, Failing
<1>e. HeldBy(r)'
  BY <1>1, <1>2, <1>3, <1>5, <1>7 DEF HeldBy, Failing
<1> QED BY <1>1, <1>2, <1>3, <1>4, <1>5, <1>7, <1>8, <1>9, <1>b, <1>d, <1>e DEF Moves, Locks, Writes

LEMMA LoadMoves ==
  ASSUME Shape, NEW r \in Requests, Local(r), HeldBy(r), Load(r), factor' = factor
  PROVE  /\ Moves(r) /\ GoesOn(r) /\ reqs[r].pc = "load" /\ reqs'[r].pc = "write"
         /\ reqs'[r].loaded = count[Here(r)] /\ reqs'[r].mine = reqs[r].mine
         /\ Mine(r)' = Mine(r) /\ Here(r)' = Here(r) /\ Here(r) \in Mine(r) /\ Mine(r) \subseteq Scopes
<1>1. reqs[r].pc = "load" /\ reqs[r] \in Regs /\ reqs \in [Requests -> Regs]
  BY DEF Load, Shape
<1>2. /\ reqs[r].token \in Tokens \ Unused /\ reqs[r].at \in 1..Len(ScopesOf(r))
      /\ DOMAIN reqs[r].mine = Past(r)
  BY <1>1 DEF Local, Second, Failing
<1>3. Here(r) \in Mine(r) /\ Mine(r) \subseteq Scopes
  BY <1>1, <1>2, Positions
<1>4. PICK l \in {None} \cup Counter : l = count[Here(r)]
  BY <1>3 DEF Shape
<1>5. reqs' = [reqs EXCEPT ![r].pc = "write", ![r].loaded = l] /\ UNCHANGED <<shared, lock>>
  BY <1>4 DEF Load
<1>6. /\ issued' = issued /\ pending' = pending /\ codes' = codes /\ count' = count /\ wrong' = wrong /\ calm' = calm
      /\ opened' = opened /\ entered' = entered /\ lock' = lock /\ UNCHANGED shared
  BY <1>5 DEF shared
<1> DEFINE m == [reqs[r] EXCEPT !.pc = "write", !.loaded = l]
<1>7. /\ m \in Regs /\ m.token = reqs[r].token /\ m.ip = reqs[r].ip /\ m.mine = reqs[r].mine /\ m.quiet = reqs[r].quiet
      /\ m.pc = "write" /\ m.at = reqs[r].at /\ m.loaded = l
  BY <1>1 DEF Regs, Steps
<1>8. reqs' = [reqs EXCEPT ![r] = m]
  BY <1>1, <1>5
<1> HIDE DEF m
<1>9. Others(r) /\ reqs'[r] = m /\ \A q \in Requests \ {r} : reqs'[q] = reqs[q]
  BY <1>1, <1>7, <1>8, Putting
<1>a. ScopesOf(r)' = ScopesOf(r)
  BY <1>7, <1>9 DEF ScopesOf
<1>b. Mine(r)' = Mine(r) /\ Here(r)' = Here(r)
  BY <1>7, <1>9, <1>a DEF Mine, Here
<1>c. Past(r)' = Past(r)
  BY <1>1, <1>7, <1>9, <1>a, <1>b DEF Past
<1>d. Unused' = Unused /\ Tables'
  BY <1>6 DEF Unused, Tables, Shape
<1>e. Local(r)'
  BY <1>1, <1>2, <1>7, <1>9, <1>a, <1>c, <1>d DEF Local, Second, Failing
<1>f. HeldBy(r)'
  BY <1>1, <1>6, <1>7, <1>9, <1>c DEF HeldBy, Failing
<1> QED BY <1>1, <1>3, <1>4, <1>6, <1>7, <1>9, <1>b, <1>d, <1>e, <1>f DEF Moves, GoesOn, Locks, Writes

\* The number that record_failed writes: what it computed from the row it has
\* read or, when that is no other number, what the row has become.
Number(r) ==
  LET row == reqs[r].loaded IN
  IF row = None THEN 1 ELSE IF Counted(row) # row.n THEN Counted(row) ELSE count[Here(r)].n
Renews(r) == reqs[r].loaded = None \/ ~reqs[r].loaded.fresh

\* The number it computes has room.
HasRoom(r) ==
  reqs[r].pc = "write" /\ reqs[r].loaded # None /\ Here(r) \notin reqs[r].gone /\ reqs[r].loaded.fresh
    => reqs[r].loaded.n <= MaxWrong

LEMMA WriteMoves ==
  ASSUME Shape, NEW r \in Requests, Local(r), HeldBy(r), HasRoom(r), Write(r), factor' = factor
  PROVE  /\ Moves(r) /\ reqs[r].pc = "write"
         /\ \/ Aborted(r)
            \/ /\ GoesOn(r) /\ reqs'[r].pc \in {"load", "failed"}
               /\ reqs[r].loaded = None <=> count[Here(r)] = None
               /\ Here(r) \notin reqs[r].gone
               /\ DOMAIN reqs'[r].mine = DOMAIN reqs[r].mine \cup {Here(r)} /\ Here(r) \notin DOMAIN reqs[r].mine
               /\ \A s \in DOMAIN reqs[r].mine : reqs'[r].mine[s] = reqs[r].mine[s]
               /\ reqs'[r].mine[Here(r)].n = Number(r) /\ (reqs'[r].mine[Here(r)].renew <=> Renews(r))
               /\ Mine(r)' = Mine(r) /\ Here(r) \in Mine(r) /\ Mine(r) \subseteq Scopes
<1>1. reqs[r].pc = "write" /\ FreeFor(r) /\ reqs[r] \in Regs /\ reqs \in [Requests -> Regs]
  BY DEF Write, Shape
<1> DEFINE old == reqs[r].mine
<1>2. /\ reqs[r].token \in Tokens \ Unused /\ reqs[r].at \in 1..Len(ScopesOf(r))
      /\ DOMAIN old = Past(r) /\ Past(r) = Before(r)
  BY <1>1 DEF Local, Second, Failing, Past, Before
<1>3. Here(r) \in Mine(r) /\ Mine(r) \subseteq Scopes /\ Here(r) \notin Before(r)
  BY <1>1, <1>2, Positions
<1>4. PICK s \in Scopes : s = Here(r)
  BY <1>3
<1>5. CASE (reqs[r].loaded = None) # (count[s] = None) \/ s \in reqs[r].gone
  <2>1. Aborts(r)
    BY <1>4, <1>5 DEF Write
  <2> QED BY <1>1, <2>1, Aborting
<1>6. CASE ~((reqs[r].loaded = None) # (count[s] = None) \/ s \in reqs[r].gone)
  <2>1. (reqs[r].loaded = None <=> count[s] = None) /\ s \notin reqs[r].gone
    BY <1>6
  <2>2. reqs[r].loaded = None \/ (reqs[r].loaded \in Counter /\ count[s] \in Counter)
    BY <1>1, <2>1 DEF Shape, Regs
  <2>3. Number(r) \in 1..(MaxWrong + 1) /\ Renews(r) \in BOOLEAN
    <3>1. CASE reqs[r].loaded = None
      BY <3>1, Constants DEF Number, Renews
    <3>2. CASE reqs[r].loaded # None
      <4> DEFINE l == reqs[r].loaded
      <4>1. l \in Counter /\ count[s] \in Counter /\ (l.fresh => l.n <= MaxWrong)
        BY <1>1, <1>4, <2>1, <2>2, <3>2 DEF HasRoom
      <4>2. l.n \in 1..(MaxWrong + 1) /\ l.fresh \in BOOLEAN /\ count[s].n \in 1..(MaxWrong + 1)
        BY <4>1 DEF Counter
      <4> HIDE DEF l
      <4>3. Counted(l) \in 1..(MaxWrong + 1)
        BY <4>1, <4>2, Constants DEF Counted
      <4>4. Number(r) = IF Counted(l) # l.n THEN Counted(l) ELSE count[s].n
        BY <1>4, <3>2 DEF Number, l
      <4> QED BY <3>2, <4>2, <4>3, <4>4 DEF Renews, l
    <3> QED BY <3>1, <3>2
  <2>4. PICK n \in 1..(MaxWrong + 1), b \in BOOLEAN : n = Number(r) /\ b = Renews(r)
    BY <2>3
  <2> DEFINE note == [n |-> n, renew |-> b]
  <2>5. reqs' = [reqs EXCEPT ![r] = Noted(r, note)] /\ lock' = [lock EXCEPT ![s] = r] /\ UNCHANGED shared
    BY <1>4, <1>6, <2>4 DEF Write, Number, Renews
  <2>6. note \in Note /\ note.n = n /\ note.renew = b
    BY DEF Note
  <2> HIDE DEF note
  <2> DEFINE new == [x \in DOMAIN old \cup {s} |-> IF x = s THEN note ELSE old[x]]
  <2>7. new \in Notes
    <3>1. DOMAIN old \subseteq Scopes /\ \A x \in DOMAIN old : old[x] \in Note
      BY <1>1 DEF Regs, Notes
    <3>2. new \in [DOMAIN old \cup {s} -> Note] /\ DOMAIN old \cup {s} \in SUBSET Scopes
      BY <2>6, <3>1
    <3> QED BY <3>2 DEF Notes
  <2>8. /\ DOMAIN new = DOMAIN old \cup {s} /\ new[s] = note /\ s \notin DOMAIN old
        /\ \A x \in DOMAIN old : new[x] = old[x]
    BY <1>2, <1>3, <1>4
  <2>9. PICK tm \in BOOLEAN : tm = (reqs[r].tooMany \/ (note.n >= MaxAttempts /\ (note.renew \/ count[s].fresh)))
    OBVIOUS
  <2> DEFINE adv == Advance(r, "load", "failed")  m == Noted(r, note)
  <2>a. "load" \in Steps /\ "failed" \in Steps
    BY DEF Steps
  <2>b. /\ adv \in Regs /\ adv.token = reqs[r].token /\ adv.ip = reqs[r].ip /\ adv.quiet = reqs[r].quiet
        /\ \/ adv.pc = "load" /\ adv.at = reqs[r].at + 1 /\ adv.at \in 1..Len(ScopesOf(r))
           \/ adv.pc = "failed" /\ adv.at = 1 /\ 1 \in 1..Len(ScopesOf(r)) /\ reqs[r].at = Len(ScopesOf(r))
    BY <1>1, <1>2, <2>a, Advancing
  <2>c. m = [adv EXCEPT !.loaded = None, !.mine = new, !.tooMany = tm]
    BY <1>4, <2>9 DEF Noted
  <2> HIDE DEF adv, new
  <2>d. /\ m \in Regs /\ m.token = reqs[r].token /\ m.ip = reqs[r].ip /\ m.mine = new /\ m.quiet = reqs[r].quiet
        /\ m.pc = adv.pc /\ m.at = adv.at /\ m.loaded = None
    BY <2>7, <2>b, <2>c DEF Regs
  <2> HIDE DEF m
  <2>e. reqs' = [reqs EXCEPT ![r] = m]
    BY <2>5 DEF m
  <2>f. Others(r) /\ reqs'[r] = m /\ \A q \in Requests \ {r} : reqs'[q] = reqs[q]
    BY <1>1, <2>d, <2>e, Putting
  <2>g. /\ ScopesOf(r)' = ScopesOf(r) /\ Mine(r)' = Mine(r) /\ Past(r)' = Past(r) \cup {s}
    BY <1>1, <1>2, <1>4, <2>b, <2>d, <2>f, Passing
  <2>h. /\ issued' = issued /\ pending' = pending /\ codes' = codes /\ count' = count /\ wrong' = wrong /\ calm' = calm
        /\ opened' = opened /\ entered' = entered
    BY <2>5 DEF shared
  <2>i. lock' \in [Scopes -> {None} \cup Requests] /\ lock'[s] = r /\ \A x \in Scopes \ {s} : lock'[x] = lock[x]
    BY <1>4, <2>5 DEF Shape
  <2>j. Unused' = Unused /\ Tables'
    BY <2>h, <2>i DEF Unused, Tables, Shape
  <2>k. Locks(r)
    BY <1>1, <1>4, <2>i, Constants DEF Locks, FreeFor
  <2>l. Local(r)'
    BY <1>2, <2>8, <2>b, <2>d, <2>f, <2>g, <2>j DEF Local, Second, Failing
  <2>m. HeldBy(r)'
    <3>1. \A x \in Scopes : lock'[x] = r => (Failing(r)' \/ reqs'[r].pc \in {"reset", "done"}) /\ x \in Past(r)'
      BY <2>b, <2>d, <2>f, <2>g, <2>i DEF HeldBy, Failing
    <3>2. DOMAIN old \subseteq Scopes
      BY <1>1 DEF Regs, Notes
    <3>3. ASSUME NEW x \in DOMAIN new
          PROVE  lock'[x] = r /\ (~new[x].renew => count'[x] # None)
      <4>1. CASE x = s
        BY <2>1, <2>4, <2>6, <2>8, <2>h, <2>i, <4>1 DEF Renews
      <4>2. CASE x # s
        BY <2>8, <2>h, <2>i, <3>2, <3>3, <4>2 DEF HeldBy
      <4> QED BY <4>1, <4>2
    <3> QED BY <2>d, <2>f, <3>1, <3>3 DEF HeldBy
  <2>n. Moves(r)
    BY <2>f, <2>h, <2>j, <2>k, <2>l, <2>m DEF Moves, Writes
  <2>o. GoesOn(r)
    BY <2>5, <2>d, <2>f DEF GoesOn
  <2> QED BY <1>1, <1>3, <1>4, <2>1, <2>4, <2>6, <2>8, <2>b, <2>d, <2>f, <2>g, <2>n, <2>o
<1> QED BY <1>5, <1>6

-----------------------------------------------------------------------------
(* The failures under way.                                                  *)

FailersOf(s) == {r \in Requests : Failing(r) /\ s \in Mine(r)}

LEMMA Counting ==
  ASSUME NEW s
  PROVE  /\ Failers(s) = Cardinality(FailersOf(s)) /\ IsFiniteSet(FailersOf(s)) /\ Failers(s) \in Nat
         /\ Failers(s) = 0 <=> FailersOf(s) = {}
<1>1. IsFiniteSet(FailersOf(s))
  BY Constants, FS_Subset DEF FailersOf
<1> QED BY <1>1, FS_CardinalityType, FS_EmptySet DEF Failers, FailersOf

\* A request that fails counts.
LEMMA FailsAlready ==
  ASSUME NEW r \in Requests, NEW s, Failing(r), s \in Mine(r)
  PROVE  Failers(s) \in Nat \ {0}
<1>1. r \in FailersOf(s)
  BY DEF FailersOf
<1> QED BY <1>1, Counting

\* The others go on failing, or not.
LEMMA FailersStay ==
  ASSUME NEW r \in Requests, Others(r), Failing(r)' <=> Failing(r), Failing(r) => Mine(r)' = Mine(r), NEW s
  PROVE  Failers(s)' = Failers(s)
<1>1. \A q \in Requests : Failing(q)' /\ s \in Mine(q)' <=> Failing(q) /\ s \in Mine(q)
  BY SameScopes DEF Others
<1> QED BY <1>1 DEF Failers

LEMMA FailersMore ==
  ASSUME NEW r \in Requests, Others(r), ~Failing(r), Failing(r)', Mine(r)' = Mine(r), NEW s
  PROVE  Failers(s)' = IF s \in Mine(r) THEN Failers(s) + 1 ELSE Failers(s)
<1>1. FailersOf(s)' = IF s \in Mine(r) THEN FailersOf(s) \cup {r} ELSE FailersOf(s)
  <2>1. \A q \in Requests \ {r} : Failing(q)' /\ s \in Mine(q)' <=> Failing(q) /\ s \in Mine(q)
    BY SameScopes DEF Others
  <2> QED BY <2>1 DEF FailersOf
<1>2. r \notin FailersOf(s) /\ IsFiniteSet(FailersOf(s))
  BY Counting DEF FailersOf
<1>3. Failers(s) = Cardinality(FailersOf(s)) /\ Failers(s)' = Cardinality(FailersOf(s)')
  BY DEF Failers, FailersOf
<1> QED BY <1>1, <1>2, <1>3, FS_AddElement

LEMMA FailersFewer ==
  ASSUME NEW r \in Requests, Others(r), Failing(r), ~Failing(r)', NEW s
  PROVE  Failers(s)' = IF s \in Mine(r) THEN Failers(s) - 1 ELSE Failers(s)
<1>1. FailersOf(s)' = IF s \in Mine(r) THEN FailersOf(s) \ {r} ELSE FailersOf(s)
  <2>1. \A q \in Requests \ {r} : Failing(q)' /\ s \in Mine(q)' <=> Failing(q) /\ s \in Mine(q)
    BY SameScopes DEF Others
  <2> QED BY <2>1 DEF FailersOf
<1>2. IsFiniteSet(FailersOf(s)) /\ (s \in Mine(r) => r \in FailersOf(s))
  BY Counting DEF FailersOf
<1>3. Failers(s) = Cardinality(FailersOf(s)) /\ Failers(s)' = Cardinality(FailersOf(s)')
  BY DEF Failers, FailersOf
<1> QED BY <1>1, <1>2, <1>3, FS_RemoveElement

-----------------------------------------------------------------------------
(* The steps that end a login.                                              *)

LEMMA FailedMoves ==
  ASSUME Shape, NEW r \in Requests, Local(r), HeldBy(r), Failed(r), factor' = factor
  PROVE  /\ Moves(r) /\ reqs[r].pc = "failed" /\ UNCHANGED <<issued, pending, codes, wrong, opened, entered>>
         /\ reqs'[r] = Idle /\ \A q \in Requests \ {r} : reqs'[q] = reqs[q]
         /\ Mine(r) \subseteq Scopes /\ DOMAIN reqs[r].mine = Mine(r)
         /\ \A s \in Scopes :
              \/ count'[s] = count[s] /\ (factor = "email" => s \notin Mine(r))
              \/ /\ s \in Mine(r) /\ count'[s] \in Counter /\ count'[s].n = reqs[r].mine[s].n
                 /\ count'[s].fresh <=> reqs[r].mine[s].renew \/ count[s].fresh
                 /\ ~reqs[r].mine[s].renew => count[s] \in Counter
         /\ \A s \in Scopes : calm'[s] = IF reqs[r].quiet /\ s \in Mine(r) THEN calm[s] + 1 ELSE calm[s]
<1>1. reqs[r].pc = "failed" /\ reqs[r] \in Regs /\ Closes(r)
  BY DEF Failed, Shape
<1>2. issued' = issued /\ pending' = pending /\ codes' = codes /\ wrong' = wrong /\ opened' = opened /\ entered' = entered
  BY DEF Failed
<1> DEFINE mine == reqs[r].mine
<1>3. /\ reqs[r].token \in Tokens \ Unused /\ reqs[r].at \in 1..Len(ScopesOf(r))
      /\ DOMAIN mine = Mine(r)
  BY <1>1 DEF Local, Second, Failing, Past
<1>4. Mine(r) \subseteq Scopes
  BY <1>1, <1>3, Positions
<1>5. /\ Others(r) /\ reqs'[r] = Idle /\ \A q \in Requests \ {r} : reqs'[q] = reqs[q]
      /\ lock' \in [Scopes -> {None} \cup Requests] /\ Locks(r) /\ \A s \in Scopes : lock'[s] # r
      /\ Local(r)'
  BY <1>1, Closing
<1>6. HeldBy(r)'
  BY <1>5, IdleFacts DEF HeldBy
<1> DEFINE row(s) == [n |-> mine[s].n, fresh |-> mine[s].renew \/ count[s].fresh]
<1>7. count' = [s \in Scopes |-> IF s \in Kept(r) /\ s \in DOMAIN mine THEN row(s) ELSE count[s]]
  BY DEF Failed
<1>8. calm' = [s \in Scopes |-> IF reqs[r].quiet /\ s \in Mine(r) THEN calm[s] + 1 ELSE calm[s]]
  BY DEF Failed
<1>9. ASSUME NEW s \in DOMAIN mine
      PROVE  /\ row(s) \in Counter /\ row(s).n = mine[s].n /\ lock[s] = r
             /\ row(s).fresh <=> mine[s].renew \/ count[s].fresh
             /\ ~mine[s].renew => count[s] \in Counter
  <2>1. mine[s] \in Note
    BY <1>1 DEF Regs, Notes
  <2>2. lock[s] = r /\ (~mine[s].renew => count[s] \in Counter)
    BY <1>3, <1>4 DEF HeldBy, Shape
  <2>3. mine[s].n \in 1..(MaxWrong + 1) /\ mine[s].renew \in BOOLEAN
    BY <2>1 DEF Note
  <2>4. (mine[s].renew \/ count[s].fresh) \in BOOLEAN
    OBVIOUS
  <2> QED BY <2>2, <2>3, <2>4 DEF Counter
<1> HIDE DEF row, mine
<1>a. Kept(r) \subseteq DOMAIN mine /\ (factor = "email" => Kept(r) = DOMAIN mine)
  BY DEF Kept, mine
<1>b. \A s \in Scopes : \/ count'[s] = count[s] /\ (factor = "email" => s \notin Mine(r))
                        \/ s \in Mine(r) /\ count'[s] = row(s)
  BY <1>3, <1>7, <1>a
<1>c. count' \in [Scopes -> {None} \cup Counter]
  BY <1>7, <1>9 DEF Shape
<1>d. Writes(r)
  BY <1>3, <1>9, <1>b DEF Writes
<1>e. \A s \in Scopes : calm'[s] = IF reqs[r].quiet /\ s \in Mine(r) THEN calm[s] + 1 ELSE calm[s]
  BY <1>8
<1>f. calm' \in [Scopes -> Nat]
  <2>1. \A s \in Scopes : (IF reqs[r].quiet /\ s \in Mine(r) THEN calm[s] + 1 ELSE calm[s]) \in Nat
    BY DEF Shape
  <2> QED BY <1>8, <2>1
<1>g. Unused' = Unused /\ Tables'
  BY <1>2, <1>5, <1>c, <1>f DEF Unused, Tables, Shape
<1>h. Moves(r)
  BY <1>5, <1>6, <1>d, <1>g DEF Moves
<1> QED BY <1>1, <1>2, <1>3, <1>4, <1>5, <1>9, <1>b, <1>e, <1>h DEF mine

LEMMA ResetMoves ==
  ASSUME Shape, NEW r \in Requests, Local(r), HeldBy(r), Reset(r), factor' = factor
  PROVE  /\ Moves(r) /\ GoesOn(r) /\ reqs[r].pc = "reset" /\ reqs'[r].pc \in {"reset", "done"}
         /\ DOMAIN reqs'[r].mine = {} /\ reqs'[r].code = reqs[r].code
<1>1. reqs[r].pc = "reset" /\ reqs[r] \in Regs /\ reqs \in [Requests -> Regs]
  BY DEF Reset, Shape
<1>2. /\ reqs[r].token \in Tokens \ Unused /\ reqs[r].at \in 1..Len(ScopesOf(r))
      /\ DOMAIN reqs[r].mine = {} /\ (factor = "email" => reqs[r].code \in Tokens)
  BY <1>1 DEF Local, Second, Failing
<1>3. Here(r) \in Mine(r) /\ Mine(r) \subseteq Scopes
  BY <1>1, <1>2, Positions
<1>4. PICK s \in Scopes : s = Here(r)
  BY <1>3
<1> DEFINE m == Advance(r, "reset", "done")
<1>5. /\ count[s] # None => FreeFor(r)
      /\ reqs' = [reqs EXCEPT ![r] = m]
      /\ lock' = IF count[s] # None THEN [lock EXCEPT ![s] = r] ELSE lock
      /\ UNCHANGED shared
  BY <1>4 DEF Reset
<1>6. "reset" \in Steps /\ "done" \in Steps
  BY DEF Steps
<1>7. /\ m \in Regs /\ m.token = reqs[r].token /\ m.ip = reqs[r].ip /\ m.mine = reqs[r].mine /\ m.quiet = reqs[r].quiet
      /\ m.code = reqs[r].code
      /\ \/ m.pc = "reset" /\ m.at = reqs[r].at + 1 /\ m.at \in 1..Len(ScopesOf(r))
         \/ m.pc = "done" /\ m.at = 1 /\ 1 \in 1..Len(ScopesOf(r)) /\ reqs[r].at = Len(ScopesOf(r))
  BY <1>1, <1>2, <1>6, Advancing
<1> HIDE DEF m
<1>8. Others(r) /\ reqs'[r] = m /\ \A q \in Requests \ {r} : reqs'[q] = reqs[q]
  BY <1>1, <1>5, <1>7, Putting
<1>9. /\ ScopesOf(r)' = ScopesOf(r) /\ Mine(r)' = Mine(r) /\ Past(r)' = Past(r) \cup {s}
  BY <1>1, <1>2, <1>4, <1>7, <1>8, Passing
<1>a. /\ issued' = issued /\ pending' = pending /\ codes' = codes /\ count' = count /\ wrong' = wrong /\ calm' = calm
      /\ opened' = opened /\ entered' = entered
  BY <1>5 DEF shared
<1>b. /\ lock' \in [Scopes -> {None} \cup Requests] /\ Locks(r)
      /\ \A x \in Scopes : lock'[x] = r => lock[x] = r \/ x = s
  <2>1. CASE count[s] # None
    <3>1. lock[s] \in {None, r} /\ lock' = [lock EXCEPT ![s] = r]
      BY <1>4, <1>5, <2>1 DEF FreeFor
    <3>2. lock' \in [Scopes -> {None} \cup Requests] /\ lock'[s] = r /\ \A x \in Scopes \ {s} : lock'[x] = lock[x]
      BY <3>1 DEF Shape
    <3> QED BY <3>1, <3>2, Constants DEF Locks
  <2>2. CASE count[s] = None
    <3>1. lock' = lock
      BY <1>5, <2>2
    <3> QED BY <3>1 DEF Locks, Shape
  <2> QED BY <2>1, <2>2
<1>c. Unused' = Unused /\ Tables'
  BY <1>a, <1>b DEF Unused, Tables, Shape
<1>d. Local(r)'
  BY <1>2, <1>7, <1>8, <1>9, <1>c DEF Local, Second, Failing
<1>e. HeldBy(r)'
  <2>1. \A x \in Scopes : lock'[x] = r => x \in Past(r)'
    BY <1>9, <1>b DEF HeldBy
  <2> QED BY <1>2, <1>7, <1>8, <2>1 DEF HeldBy, Failing
<1> QED BY <1>1, <1>2, <1>5, <1>7, <1>8, <1>a, <1>b, <1>c, <1>d, <1>e DEF Moves, GoesOn, Writes

\* What a login that succeeded deletes.
Deletes(r) == {s \in Mine(r) : lock[s] = r}

LEMMA DoneMoves ==
  ASSUME Shape, NEW r \in Requests, Local(r), HeldBy(r), Done(r), factor' = factor
  PROVE  /\ Moves(r) /\ reqs[r].pc = "done" /\ reqs'[r] = Idle /\ issued' = issued
         /\ Mine(r) \subseteq Scopes /\ reqs[r].token \in Tokens \ Unused
         /\ \A s \in Scopes : /\ count'[s] = IF s \in Deletes(r) THEN None ELSE count[s]
                              /\ wrong'[s] = IF s \in Deletes(r) THEN Failers(s) ELSE wrong[s]
                              /\ calm'[s] = IF s \in Deletes(r) THEN 0 ELSE calm[s]
         /\ \A q \in Requests \ {r} :
              /\ reqs'[q].gone = reqs[q].gone \/ reqs[q].pc = "write"
              /\ reqs[q].pc = "write" /\ Here(q) \in Deletes(r) /\ reqs[q].loaded # None => Here(q) \in reqs'[q].gone
         /\ pending' = pending \ {reqs[r].token} /\ opened' \subseteq opened \cup {reqs[r].token}
         /\ entered' \subseteq entered \cup (IF factor = "email" THEN {reqs[r].code} ELSE {})
         /\ factor = "email" => reqs[r].code \in Tokens /\ codes'[reqs[r].code] = "used"
         /\ \A t \in Tokens : codes'[t] = "valid" => codes[t] = "valid"
<1>1. reqs[r].pc = "done" /\ reqs[r] \in Regs /\ reqs \in [Requests -> Regs] /\ issued' = issued
  BY DEF Done, Shape
<1>2. /\ reqs[r].token \in Tokens \ Unused /\ reqs[r].at \in 1..Len(ScopesOf(r))
      /\ factor = "email" => reqs[r].code \in Tokens
  BY <1>1 DEF Local, Second
<1>3. Mine(r) \subseteq Scopes
  BY <1>1, <1>2, Positions
<1> DEFINE D == Deletes(r)
<1>4. /\ count' = [s \in Scopes |-> IF s \in D THEN None ELSE count[s]]
      /\ wrong' = [s \in Scopes |-> IF s \in D THEN Failers(s) ELSE wrong[s]]
      /\ calm' = [s \in Scopes |-> IF s \in D THEN 0 ELSE calm[s]]
      /\ reqs' = [q \in Requests |->
           IF q = r THEN Idle
           ELSE IF reqs[q].pc = "write" /\ Here(q) \in D /\ reqs[q].loaded # None
                THEN [reqs[q] EXCEPT !.gone = {Here(q)}] ELSE reqs[q]]
      /\ lock' = Released(r)
  BY DEF Done, Deletes
<1>5. /\ pending' = pending \ {reqs[r].token} /\ opened' \subseteq opened \cup {reqs[r].token}
      /\ codes' = IF factor = "email" THEN [codes EXCEPT ![reqs[r].code] = "used"] ELSE codes
      /\ entered' \subseteq entered \cup (IF factor = "email" THEN {reqs[r].code} ELSE {})
  BY DEF Done, Consumed, Marked
<1>6. ASSUME NEW q \in Requests, q # r, reqs[q].pc = "write", Here(q) \in D
      PROVE  LET m == [reqs[q] EXCEPT !.gone = {Here(q)}] IN
             /\ m \in Regs /\ m.pc = reqs[q].pc /\ m.token = reqs[q].token /\ m.ip = reqs[q].ip
             /\ m.code = reqs[q].code /\ m.at = reqs[q].at /\ m.loaded = reqs[q].loaded
             /\ m.mine = reqs[q].mine /\ m.kill = reqs[q].kill /\ m.quiet = reqs[q].quiet /\ m.gone = {Here(q)}
  <2>1. reqs[q] \in Regs /\ Here(q) \in Scopes
    BY <1>1, <1>3, <1>6 DEF Deletes
  <2> QED BY <2>1 DEF Regs
<1>7. \A q \in Requests : reqs'[q] = IF q = r THEN Idle
                                     ELSE IF reqs[q].pc = "write" /\ Here(q) \in D /\ reqs[q].loaded # None
                                          THEN [reqs[q] EXCEPT !.gone = {Here(q)}] ELSE reqs[q]
  BY <1>4
<1>8. ASSUME NEW q \in Requests, q # r
      PROVE  /\ reqs'[q] \in Regs
             /\ reqs'[q].gone = reqs[q].gone \/ (reqs[q].pc = "write" /\ reqs'[q].gone = {Here(q)})
             /\ reqs[q].pc = "write" /\ Here(q) \in D /\ reqs[q].loaded # None => Here(q) \in reqs'[q].gone
             /\ reqs'[q].pc = reqs[q].pc /\ reqs'[q].token = reqs[q].token /\ reqs'[q].ip = reqs[q].ip
             /\ reqs'[q].code = reqs[q].code /\ reqs'[q].at = reqs[q].at /\ reqs'[q].loaded = reqs[q].loaded
             /\ reqs'[q].mine = reqs[q].mine /\ reqs'[q].kill = reqs[q].kill /\ reqs'[q].quiet = reqs[q].quiet
  <2>1. CASE reqs[q].pc = "write" /\ Here(q) \in D /\ reqs[q].loaded # None
    <3>1. reqs'[q] = [reqs[q] EXCEPT !.gone = {Here(q)}]
      BY <1>7, <1>8, <2>1
    <3> QED BY <1>6, <1>8, <2>1, <3>1
  <2>2. CASE ~(reqs[q].pc = "write" /\ Here(q) \in D /\ reqs[q].loaded # None)
    <3>1. reqs'[q] = reqs[q]
      BY <1>7, <1>8, <2>2
    <3> QED BY <1>1, <2>2, <3>1
  <2> QED BY <2>1, <2>2
<1>9. reqs' \in [Requests -> Regs]
  <2>1. \A q \in Requests : reqs'[q] \in Regs
    BY <1>7, <1>8, IdleFacts
  <2>2. reqs' = [q \in Requests |-> reqs'[q]]
    BY <1>4
  <2> QED BY <2>1, <2>2
<1> HIDE DEF D
<1>a. Others(r) /\ reqs'[r] = Idle
  BY <1>7, <1>8, <1>9 DEF Others, Same
<1>b. /\ lock' \in [Scopes -> {None} \cup Requests] /\ Locks(r)
      /\ \A x \in Scopes : lock'[x] # r
  <2>1. lock' = [x \in Scopes |-> IF lock[x] = r THEN None ELSE lock[x]]
    BY <1>4 DEF Released
  <2>2. \A x \in Scopes : lock'[x] = IF lock[x] = r THEN None ELSE lock[x]
    BY <2>1
  <2> QED BY <2>1, <2>2, Constants DEF Shape, Locks
<1>c. Local(r)' /\ HeldBy(r)'
  BY <1>a, <1>b, IdleFacts DEF Local, HeldBy, Second, Failing
<1>d. /\ \A s \in Scopes : count'[s] = IF s \in D THEN None ELSE count[s]
      /\ \A s \in Scopes : calm'[s] = IF s \in D THEN 0 ELSE calm[s]
  BY <1>4
<1>w. \A s \in Scopes : wrong'[s] = IF s \in D THEN Failers(s) ELSE wrong[s]
  BY <1>4
<1>e. Writes(r)
  BY <1>d DEF Writes, D, Deletes
<1>f. count' \in [Scopes -> {None} \cup Counter] /\ calm' \in [Scopes -> Nat]
  BY <1>4 DEF Shape
<1>g. wrong' \in [Scopes -> Nat]
  <2>1. \A s \in Scopes : (IF s \in D THEN Failers(s) ELSE wrong[s]) \in Nat
    BY Counting DEF Shape
  <2> QED BY <1>4, <2>1
<1>h. /\ codes' \in [Tokens -> {"none", "valid", "used"}]
      /\ \A t \in Tokens : codes'[t] = "valid" => codes[t] = "valid"
      /\ factor = "email" => reqs[r].code \in Tokens /\ codes'[reqs[r].code] = "used"
  BY <1>2, <1>5 DEF Shape
<1>i. /\ Unused' = Unused /\ pending' \subseteq Tokens \ Unused /\ opened' \subseteq Tokens
      /\ entered' \subseteq Tokens
  BY <1>1, <1>2, <1>5 DEF Unused, Shape
<1>j. Tables'
  BY <1>1, <1>b, <1>f, <1>g, <1>h, <1>i DEF Tables, Shape
<1>k. Moves(r)
  BY <1>a, <1>b, <1>c, <1>e, <1>i, <1>j DEF Moves
<1> QED BY <1>1, <1>2, <1>3, <1>5, <1>8, <1>a, <1>d, <1>h, <1>k, <1>w DEF D

-----------------------------------------------------------------------------
(* Time.                                                                    *)

LEMMA ExpiryMoves ==
  ASSUME TypeInv, TokenExpires \/ CodeExpires, factor' = factor
  PROVE  /\ TypeInv' /\ UNCHANGED <<issued, count, wrong, calm, opened, entered, lock, reqs>>
         /\ pending' \subseteq pending /\ \A t \in Tokens : codes'[t] = "valid" => codes[t] = "valid"
<1>1. UNCHANGED <<issued, count, wrong, calm, opened, entered, lock, reqs>>
  BY DEF TokenExpires, CodeExpires
<1>2. /\ pending' \subseteq pending /\ codes' \in [Tokens -> {"none", "valid", "used"}]
      /\ \A t \in Tokens : codes'[t] = "valid" => codes[t] = "valid"
  BY DEF TokenExpires, CodeExpires, TypeInv, Shape
<1>3. Unused' = Unused
  BY <1>1 DEF Unused
<1>4. Shape'
  BY <1>1, <1>2, <1>3 DEF TypeInv, Shape
<1>5. ASSUME NEW r \in Requests
      PROVE  Local(r)' /\ HeldBy(r)'
  <2>1. Same(r) /\ Local(r) /\ HeldBy(r)
    BY <1>1 DEF Same, TypeInv
  <2>2. /\ ScopesOf(r)' = ScopesOf(r) /\ Past(r)' = Past(r) /\ (Failing(r)' <=> Failing(r)) /\ (Second(r)' <=> Second(r))
    BY <2>1, SameScopes
  <2> QED BY <1>1, <1>3, <2>1, <2>2 DEF Local, HeldBy
<1> QED BY <1>1, <1>2, <1>4, <1>5 DEF TypeInv

LEMMA WindowMoves ==
  ASSUME TypeInv, NEW s \in Scopes, WindowEnds(s), factor' = factor
  PROVE  /\ TypeInv' /\ UNCHANGED <<issued, pending, codes, opened, entered, lock>>
         /\ \A q \in Requests : Same(q) /\ ~(reqs'[q].quiet /\ reqs[q].pc # "idle")
         /\ \A x \in Scopes \ {s} : count'[x] = count[x] /\ wrong'[x] = wrong[x] /\ calm'[x] = calm[x]
         /\ count[s] \in Counter /\ count'[s] \in Counter /\ count'[s].n = count[s].n /\ ~count'[s].fresh
         /\ calm'[s] = 0 /\ wrong'[s] = IF Failers(s) > 0 THEN wrong[s] ELSE 0
<1>1. UNCHANGED <<issued, pending, codes, opened, entered, lock>> /\ count[s] # None
  BY DEF WindowEnds
<1>2. PICK c \in Counter : c = count[s]
  BY <1>1 DEF TypeInv, Shape
<1> DEFINE d == [c EXCEPT !.fresh = FALSE]
<1>3. d \in Counter /\ d.n = c.n /\ ~d.fresh
  BY DEF Counter
<1>4. count' = [count EXCEPT ![s] = d]
  BY <1>2 DEF WindowEnds, TypeInv, Shape
<1> HIDE DEF d
<1>5. /\ count' \in [Scopes -> {None} \cup Counter] /\ count'[s] = d
      /\ \A x \in Scopes \ {s} : count'[x] = count[x]
  BY <1>3, <1>4 DEF TypeInv, Shape
<1>6. /\ calm' \in [Scopes -> Nat] /\ calm'[s] = 0
      /\ \A x \in Scopes \ {s} : calm'[x] = calm[x]
  BY DEF WindowEnds, TypeInv, Shape
<1>7. /\ wrong' \in [Scopes -> Nat] /\ wrong'[s] = IF Failers(s) > 0 THEN wrong[s] ELSE 0
      /\ \A x \in Scopes \ {s} : wrong'[x] = wrong[x]
  BY DEF WindowEnds, TypeInv, Shape
<1>8. reqs' = Disturbed /\ reqs \in [Requests -> Regs]
  BY DEF WindowEnds, TypeInv, Shape
<1>9. reqs' \in [Requests -> Regs] /\ \A q \in Requests : Same(q) /\ ~(reqs'[q].quiet /\ reqs[q].pc # "idle")
  BY <1>8, Disturbing DEF Same
<1>a. Unused' = Unused
  BY <1>1 DEF Unused
<1>b. Shape'
  BY <1>1, <1>5, <1>6, <1>7, <1>9, <1>a DEF TypeInv, Shape
<1>c. None \notin Counter
  BY Constants
<1>d. ASSUME NEW r \in Requests
      PROVE  Local(r)' /\ HeldBy(r)'
  <2>1. Same(r) /\ Local(r) /\ HeldBy(r)
    BY <1>9 DEF TypeInv
  <2>2. /\ ScopesOf(r)' = ScopesOf(r) /\ Past(r)' = Past(r) /\ (Failing(r)' <=> Failing(r)) /\ (Second(r)' <=> Second(r))
    BY <2>1, SameScopes
  <2>3. Local(r)'
    BY <1>a, <2>1, <2>2 DEF Local, Same
  <2>4. \A x \in Scopes : count[x] # None => count'[x] # None
    BY <1>3, <1>5, <1>c
  <2>5. DOMAIN reqs[r].mine \subseteq Scopes
    BY <1>8 DEF Regs, Notes
  <2>6. HeldBy(r)'
    BY <1>1, <2>1, <2>2, <2>4, <2>5 DEF HeldBy, Same
  <2> QED BY <2>3, <2>6
<1> QED BY <1>1, <1>2, <1>3, <1>5, <1>6, <1>7, <1>9, <1>b, <1>d DEF TypeInv

-----------------------------------------------------------------------------
(* The steps together.                                                      *)

\* Where a request is, and what it has written.
LEMMA Located ==
  ASSUME TypeInv, NEW r \in Requests
  PROVE  /\ Second(r) => Here(r) \in Mine(r) /\ Mine(r) \subseteq Scopes /\ Past(r) \subseteq Mine(r)
         /\ Failing(r) => Second(r)
         /\ \A s \in DOMAIN reqs[r].mine :
              /\ Failing(r) /\ s \in Mine(r) /\ s \in Scopes /\ lock[s] = r
              /\ reqs[r].mine[s] \in Note
<1>1. reqs[r] \in Regs /\ Local(r) /\ HeldBy(r)
  BY DEF TypeInv, Shape
<1>2. Failing(r) => Second(r)
  BY DEF Failing, Second
<1>3. ASSUME Second(r)
      PROVE  Here(r) \in Mine(r) /\ Mine(r) \subseteq Scopes /\ Past(r) \subseteq Mine(r)
  <2>1. reqs[r].token \in Tokens /\ reqs[r].at \in 1..Len(ScopesOf(r))
    BY <1>1, <1>3 DEF Local
  <2> QED BY <1>1, <2>1, Positions DEF Past, Before
<1>4. ASSUME NEW s \in DOMAIN reqs[r].mine
      PROVE  Failing(r) /\ s \in Past(r) /\ reqs[r].mine[s] \in Note /\ lock[s] = r
  <2>1. reqs[r].mine[s] \in Note
    BY <1>1 DEF Regs, Notes
  <2> QED BY <1>1, <2>1 DEF Local, HeldBy
<1> QED BY <1>2, <1>3, <1>4

LEMMA NextSteps ==
  ASSUME [Next]_vars
  PROVE  /\ factor' = factor
         /\ \/ \E r \in Requests : Step(r)
            \/ TokenExpires \/ CodeExpires
            \/ \E s \in Scopes : WindowEnds(s)
            \/ UNCHANGED vars
BY DEF Next, vars

\* The number a failure writes is within the bound.
LEMMA RoomFrom ==
  ASSUME TypeInv, Tried, Earned, NEW r \in Requests
  PROVE  HasRoom(r)
<1> SUFFICES ASSUME reqs[r].pc = "write", reqs[r].loaded # None, Here(r) \notin reqs[r].gone, reqs[r].loaded.fresh
             PROVE  reqs[r].loaded.n <= MaxWrong
  BY DEF HasRoom
<1> DEFINE s == Here(r)  n == reqs[r].loaded.n
<1>1. Failing(r) /\ s \in Mine(r) /\ s \in Scopes
  BY Located DEF Failing
<1>2. n + Failers(s) <= wrong[s]
  BY DEF Earned, EarnedBy
<1>3. Failers(s) \in Nat \ {0} /\ wrong[s] \in Nat
  BY <1>1, FailsAlready DEF TypeInv, Shape
<1>4. wrong[s] + Cardinality(Judged) <= MaxWrong /\ Cardinality(Judged) \in Nat
  <2>1. IsFiniteSet(Judged)
    BY Constants, FS_Subset DEF Judged
  <2> QED BY <1>1, <2>1, FS_CardinalityType DEF Tried
<1>5. n \in Nat
  BY DEF TypeInv, Shape, Regs, Counter
<1> HIDE DEF n, s
<1> QED BY <1>2, <1>3, <1>4, <1>5, Constants DEF n

\* A request that is there goes on with the token it came with, or goes.
Follows(r) ==
  /\ reqs[r].pc # "idle"
  /\ reqs'[r].pc # "idle" => /\ Second(r) /\ Second(r)'
                             /\ reqs'[r].token = reqs[r].token /\ reqs'[r].quiet = reqs[r].quiet

LEMMA Kinds ==
  ASSUME TypeInv, NEW r \in Requests, HasRoom(r), Step(r), factor' = factor
  PROVE  Moves(r) /\ (Enters(r) \/ Follows(r))
<1>1. Shape /\ Local(r) /\ HeldBy(r)
  BY DEF TypeInv
<1>2. Idle.pc = "idle"
  BY IdleFacts
<1>3. CASE FirstStep(r)
  BY <1>1, <1>3, FirstStepMoves
<1>4. CASE SecondStep(r)
  BY <1>1, <1>4, SecondStepMoves
<1>5. CASE FirstStepCommit(r)
  BY <1>1, <1>2, <1>5, FirstStepCommitMoves DEF Follows
<1>6. CASE FirstStepFails(r)
  BY <1>1, <1>2, <1>6, FirstStepFailsMoves DEF Follows, Aborted
<1>7. CASE Check(r)
  BY <1>1, <1>2, <1>7, CheckMoves DEF Follows, Aborted, GoesOn, Second
<1>8. CASE Judge(r)
  BY <1>1, <1>8, JudgeMoves DEF Follows, Second
<1>9. CASE Load(r)
  BY <1>1, <1>9, LoadMoves DEF Follows, GoesOn, Second
<1>a. CASE Write(r)
  BY <1>1, <1>2, <1>a, WriteMoves DEF Follows, Aborted, GoesOn, Second
<1>b. CASE Failed(r)
  BY <1>1, <1>2, <1>b, FailedMoves DEF Follows
<1>c. CASE Reset(r)
  BY <1>1, <1>c, ResetMoves DEF Follows, GoesOn, Second
<1>d. CASE Done(r)
  BY <1>1, <1>2, <1>d, DoneMoves DEF Follows
<1> QED BY <1>3, <1>4, <1>5, <1>6, <1>7, <1>8, <1>9, <1>a, <1>b, <1>c, <1>d DEF Step

\* Whatever happens, the types stay.
LEMMA TypeStep ==
  ASSUME TypeInv, Tried, Earned, [Next]_vars
  PROVE  TypeInv'
<1>1. factor' = factor
  BY NextSteps
<1>2. CASE \E r \in Requests : Step(r)
  BY <1>1, <1>2, RoomFrom, Kinds, Typed
<1>3. CASE TokenExpires \/ CodeExpires
  BY <1>1, <1>3, ExpiryMoves
<1>4. CASE \E s \in Scopes : WindowEnds(s)
  BY <1>1, <1>4, WindowMoves
<1>5. CASE UNCHANGED vars
  <2>1. \A r \in Requests : Same(r)
    BY <1>5 DEF vars, Same
  <2>2. /\ UNCHANGED <<factor, issued, pending, codes, count, wrong, calm, opened, entered, lock, reqs>>
    BY <1>5 DEF vars, shared
  <2>3. Unused' = Unused
    BY <2>2 DEF Unused
  <2>4. Shape'
    BY <2>2, <2>3 DEF TypeInv, Shape
  <2>5. ASSUME NEW r \in Requests
        PROVE  Local(r)' /\ HeldBy(r)'
    <3>1. /\ ScopesOf(r)' = ScopesOf(r) /\ Past(r)' = Past(r) /\ (Failing(r)' <=> Failing(r)) /\ (Second(r)' <=> Second(r))
      BY <2>1, SameScopes
    <3> QED BY <2>2, <2>3, <3>1 DEF TypeInv, Local, HeldBy
  <2> QED BY <2>4, <2>5 DEF TypeInv
<1> QED BY <1>2, <1>3, <1>4, <1>5, NextSteps

-----------------------------------------------------------------------------
(* Overlaps, codes and tokens.                                              *)

\* A quiet request has no company.
LEMMA NoneQuiet ==
  ASSUME QuietAlone, NEW r \in Requests, NEW q \in Requests \ {r}, reqs[r].pc # "idle", reqs[q].pc # "idle"
  PROVE  ~reqs[q].quiet
BY DEF QuietAlone

LEMMA QuietStep ==
  ASSUME QuietAlone, NEW r \in Requests, Others(r), Enters(r) \/ Follows(r)
  PROVE  QuietAlone'
<1> SUFFICES ASSUME NEW p \in Requests, NEW q \in Requests \ {p}, reqs'[p].quiet, reqs'[p].pc # "idle"
             PROVE  reqs'[q].pc = "idle"
  BY DEF QuietAlone
<1>1. CASE p = r
  <2>1. Same(q)
    BY <1>1 DEF Others
  <2>2. reqs[q].pc = "idle"
    BY <1>1 DEF QuietAlone, Enters, Follows, Quiet
  <2> QED BY <2>1, <2>2 DEF Same
<1>2. CASE p # r
  <2>1. Same(p) /\ reqs[p].quiet /\ reqs[p].pc # "idle"
    BY <1>2 DEF Others, Same
  <2>2. Follows(r) => FALSE
    BY <1>2, <2>1 DEF Follows, QuietAlone
  <2>3. Enters(r) => FALSE
    BY <1>2, <2>1 DEF Enters
  <2> QED BY <2>2, <2>3
<1> QED BY <1>1, <1>2

\* No code gets good.
LEMMA MailedKept ==
  ASSUME Mailed, factor' = factor, issued' = issued,
         \A t \in Tokens : codes'[t] = "valid" => codes[t] = "valid",
         \A q \in Requests : reqs'[q].pc = "mail" /\ reqs'[q].quiet =>
           \/ reqs[q].pc = "mail" /\ reqs[q].quiet /\ reqs'[q].kill = reqs[q].kill
           \/ \A t \in Tokens : codes[t] = "valid" => t \in reqs'[q].kill
  PROVE  Mailed'
BY DEF Mailed, Good

LEMMA MailedStep ==
  ASSUME TypeInv, QuietAlone, Mailed, NEW r \in Requests, HasRoom(r), Step(r), factor' = factor
  PROVE  Mailed'
<1>1. Shape /\ Local(r) /\ HeldBy(r)
  BY DEF TypeInv
<1>2. Others(r)
  BY Kinds DEF Moves
<1>3. \A q \in Requests \ {r} : reqs'[q].pc = "mail" /\ reqs'[q].quiet =>
        reqs[q].pc = "mail" /\ reqs[q].quiet /\ reqs'[q].kill = reqs[q].kill
  BY <1>2 DEF Others, Same
<1>4. CASE FirstStep(r)
  <2>1. Enters(r) /\ \A t \in Tokens : codes[t] = "valid" => t \in reqs'[r].kill
    BY <1>1, <1>4, FirstStepMoves
  <2>2. issued' = issued /\ codes' = codes
    BY <2>1 DEF Enters, shared
  <2> QED BY <1>3, <2>1, <2>2, MailedKept
<1>5. CASE FirstStepCommit(r)
  <2>1. PICK t \in Unused :
              /\ issued'[t] = (IF reqs[r].quiet THEN "alone" ELSE "crowded")
              /\ \A u \in Tokens \ {t} : issued'[u] = issued[u]
              /\ \A u \in Tokens \ {t} : codes'[u] = "valid" => codes[u] = "valid" /\ (factor = "email" => u \notin reqs[r].kill)
              /\ factor # "email" => codes' = codes
    BY <1>1, <1>5, FirstStepCommitMoves
  <2>2. reqs[r].pc = "mail" /\ reqs'[r] = Idle
    BY <1>1, <1>5, FirstStepCommitMoves
  <2>3. factor' # "email" => \A u \in Tokens : codes'[u] # "valid"
    BY <2>1 DEF Mailed
  <2>4. \A q \in Requests : ~(reqs'[q].pc = "mail" /\ reqs'[q].quiet)
    BY <1>3, <2>2, NoneQuiet, IdleFacts
  <2>5. ASSUME NEW u \in Tokens, u # t, Good(u)'
        PROVE  Good(u) /\ u \notin reqs[r].kill /\ factor = "email"
    BY <2>1, <2>5 DEF Good, Mailed
  <2>6. ASSUME NEW u \in Tokens, u # t, Good(u)', Good(t)'
        PROVE  FALSE
    <3>1. reqs[r].quiet
      BY <2>1, <2>6 DEF Good
    <3>2. Good(u) /\ u \notin reqs[r].kill
      BY <2>5, <2>6
    <3> QED BY <2>2, <3>1, <3>2 DEF Mailed, Good
  <2>7. \A u, v \in Tokens : Good(u)' /\ Good(v)' => u = v
    BY <2>5, <2>6 DEF Mailed
  <2> QED BY <2>3, <2>4, <2>7 DEF Mailed
<1>6. CASE ~FirstStep(r) /\ ~FirstStepCommit(r)
  <2>1. /\ issued' = issued /\ \A t \in Tokens : codes'[t] = "valid" => codes[t] = "valid"
        /\ reqs'[r].pc # "mail"
    <3>1. CASE SecondStep(r)
      BY <1>1, <3>1, SecondStepMoves DEF Enters, shared
    <3>2. CASE FirstStepFails(r)
      BY <1>1, <3>2, FirstStepFailsMoves, IdleFacts DEF Aborted, shared
    <3>3. CASE Check(r)
      BY <1>1, <3>3, CheckMoves, IdleFacts DEF Aborted, GoesOn, shared
    <3>4. CASE Judge(r)
      BY <1>1, <3>4, JudgeMoves
    <3>5. CASE Load(r)
      BY <1>1, <3>5, LoadMoves DEF GoesOn, shared
    <3>6. CASE Write(r)
      BY <1>1, <3>6, WriteMoves, IdleFacts DEF Aborted, GoesOn, shared
    <3>7. CASE Failed(r)
      BY <1>1, <3>7, FailedMoves, IdleFacts
    <3>8. CASE Reset(r)
      BY <1>1, <3>8, ResetMoves DEF GoesOn, shared
    <3>9. CASE Done(r)
      BY <1>1, <3>9, DoneMoves, IdleFacts
    <3> QED BY <1>6, <3>1, <3>2, <3>3, <3>4, <3>5, <3>6, <3>7, <3>8, <3>9 DEF Step
  <2> QED BY <1>3, <2>1, MailedKept
<1> QED BY <1>4, <1>5, <1>6

LEMMA SpentStep ==
  ASSUME TypeInv, QuietAlone, Spent, NEW r \in Requests, HasRoom(r), Step(r), factor' = factor
  PROVE  Spent'
<1>1. Shape /\ Local(r) /\ HeldBy(r)
  BY DEF TypeInv
<1>2. Moves(r) /\ Others(r) /\ (Enters(r) \/ Follows(r))
  BY Kinds DEF Moves
<1>3. opened \subseteq Tokens /\ pending \subseteq Tokens \ Unused /\ opened' \subseteq Tokens
  BY <1>1, <1>2 DEF Shape, Moves, Tables
<1>4. \A t \in opened : issued'[t] # "no"
  BY <1>2, <1>3 DEF Moves, Unused, Spent
<1>5. \A q \in Requests \ {r} : Second(q)' /\ reqs'[q].quiet => Second(q) /\ reqs[q].quiet /\ reqs'[q].token = reqs[q].token
  BY <1>2 DEF Others, Same, Second
<1>6. CASE Done(r)
  <2>1. /\ reqs[r].pc = "done" /\ reqs'[r] = Idle /\ pending' = pending \ {reqs[r].token}
        /\ reqs[r].token \in Tokens \ Unused /\ opened' \subseteq opened \cup {reqs[r].token} /\ issued' = issued
    BY <1>1, <1>6, DoneMoves
  <2>2. \A t \in opened' : issued'[t] # "no" /\ t \notin pending'
    BY <1>3, <1>4, <2>1 DEF Unused, Spent
  <2>3. ASSUME NEW q \in Requests, Second(q)', reqs'[q].quiet
        PROVE  FALSE
    <3>1. q # r
      BY <2>1, <2>3, IdleFacts DEF Second
    <3> QED BY <1>5, <2>1, <2>3, <3>1, NoneQuiet DEF Second
  <2> QED BY <2>2, <2>3 DEF Spent
<1>7. CASE ~Done(r)
  <2>1. opened' = opened /\ \A t \in opened : t \notin pending'
    <3>1. CASE FirstStep(r) \/ SecondStep(r)
      BY <1>1, <3>1, FirstStepMoves, SecondStepMoves DEF Enters, shared, Spent
    <3>2. CASE FirstStepCommit(r)
      <4>1. opened' = opened /\ \E t \in Unused : pending' = pending \cup {t}
        BY <1>1, <3>2, FirstStepCommitMoves
      <4> QED BY <4>1 DEF Spent, Unused
    <3>3. CASE FirstStepFails(r) \/ Check(r) \/ Write(r)
      BY <1>1, <3>3, FirstStepFailsMoves, CheckMoves, WriteMoves DEF Aborted, GoesOn, shared, Spent
    <3>4. CASE Judge(r)
      BY <1>1, <3>4, JudgeMoves DEF Spent
    <3>5. CASE Load(r) \/ Reset(r)
      BY <1>1, <3>5, LoadMoves, ResetMoves DEF GoesOn, shared, Spent
    <3>6. CASE Failed(r)
      BY <1>1, <3>6, FailedMoves DEF Spent
    <3> QED BY <1>7, <3>1, <3>2, <3>3, <3>4, <3>5, <3>6 DEF Step
  <2>2. ASSUME Second(r)', reqs'[r].quiet
        PROVE  reqs'[r].token \notin opened
    <3>1. CASE Follows(r)
      BY <2>2, <3>1 DEF Follows, Second, Spent
    <3>2. CASE FirstStep(r)
      BY <1>1, <2>2, <3>2, FirstStepMoves DEF Second
    <3>3. CASE SecondStep(r)
      BY <1>1, <3>3, SecondStepMoves DEF Spent
    <3>4. CASE Enters(r) /\ ~FirstStep(r) /\ ~SecondStep(r)
      <4>1. reqs[r].pc = "idle"
        BY <3>4 DEF Enters
      <4> QED BY <3>4, <4>1 DEF Step, FirstStepCommit, FirstStepFails, Check, Judge, Load, Write, Failed, Reset, Done
    <3> QED BY <1>2, <3>1, <3>2, <3>3, <3>4
  <2> QED BY <1>4, <1>5, <2>1, <2>2 DEF Spent
<1> QED BY <1>6, <1>7

LEMMA RedeemedStep ==
  ASSUME TypeInv, QuietAlone, Redeemed, NEW r \in Requests, HasRoom(r), Step(r), factor' = factor
  PROVE  Redeemed'
<1>1. Shape /\ Local(r) /\ HeldBy(r)
  BY DEF TypeInv
<1>2. Moves(r) /\ Others(r)
  BY Kinds DEF Moves
<1>3. /\ entered \subseteq Tokens /\ entered' \subseteq Tokens
      /\ \A c \in Tokens : issued[c] # "no" => issued'[c] # "no"
  BY <1>1, <1>2 DEF Shape, Moves, Tables, Unused
<1>4. \A q \in Requests : Accepted(q) => reqs[q].code \in Tokens
  BY DEF TypeInv, Accepted, Local
<1>5. \A q \in Requests \ {r} :
        Accepted(q)' => Accepted(q) /\ reqs'[q].code = reqs[q].code /\ (reqs'[q].quiet => reqs[q].quiet)
  BY <1>2 DEF Others, Same, Accepted
<1>6. CASE Done(r)
  <2>1. /\ reqs[r].pc = "done" /\ reqs'[r] = Idle
        /\ entered' \subseteq entered \cup (IF factor = "email" THEN {reqs[r].code} ELSE {})
        /\ factor = "email" => reqs[r].code \in Tokens /\ codes'[reqs[r].code] = "used"
        /\ \A t \in Tokens : codes'[t] = "valid" => codes[t] = "valid"
    BY <1>1, <1>6, DoneMoves
  <2>2. factor = "email" => issued[reqs[r].code] # "no"
    BY <2>1 DEF Redeemed, Accepted
  <2>3. \A c \in Tokens : codes'[c] = "valid" => issued'[c] # "no" /\ c \notin entered'
    BY <1>3, <2>1 DEF Redeemed
  <2>4. \A c \in entered' : issued'[c] # "no"
    BY <1>3, <2>1, <2>2 DEF Redeemed
  <2>5. ASSUME NEW q \in Requests, Accepted(q)'
        PROVE  issued'[reqs'[q].code] # "no" /\ ~reqs'[q].quiet
    <3>1. q # r
      BY <2>1, <2>5, IdleFacts DEF Accepted
    <3>2. reqs[q].pc # "idle" /\ ~reqs[q].quiet
      BY <1>5, <2>1, <2>5, <3>1, NoneQuiet DEF Accepted
    <3> QED BY <1>3, <1>4, <1>5, <2>5, <3>1, <3>2 DEF Redeemed
  <2> QED BY <2>3, <2>4, <2>5 DEF Redeemed
<1>7. CASE FirstStepCommit(r)
  <2>1. entered' = entered /\ reqs'[r] = Idle /\ \E t \in Unused :
          issued'[t] # "no" /\ \A u \in Tokens \ {t} : codes'[u] = "valid" => codes[u] = "valid"
    BY <1>1, <1>7, FirstStepCommitMoves
  <2>2. \A c \in Tokens : codes'[c] = "valid" => issued'[c] # "no" /\ c \notin entered'
    BY <1>3, <2>1 DEF Redeemed, Unused
  <2>3. ~Accepted(r)'
    BY <2>1, IdleFacts DEF Accepted
  <2> QED BY <1>3, <1>4, <1>5, <2>1, <2>2, <2>3 DEF Redeemed
<1>8. CASE ~Done(r) /\ ~FirstStepCommit(r)
  <2>1. entered' = entered /\ codes' = codes
    <3>1. CASE FirstStep(r) \/ SecondStep(r)
      BY <1>1, <3>1, FirstStepMoves, SecondStepMoves DEF Enters, shared
    <3>2. CASE FirstStepFails(r) \/ Check(r) \/ Write(r)
      BY <1>1, <3>2, FirstStepFailsMoves, CheckMoves, WriteMoves DEF Aborted, GoesOn, shared
    <3>3. CASE Judge(r)
      BY <1>1, <3>3, JudgeMoves
    <3>4. CASE Load(r) \/ Reset(r)
      BY <1>1, <3>4, LoadMoves, ResetMoves DEF GoesOn, shared
    <3>5. CASE Failed(r)
      BY <1>1, <3>5, FailedMoves
    <3> QED BY <1>8, <3>1, <3>2, <3>3, <3>4, <3>5 DEF Step
  <2>2. ASSUME Accepted(r)'
        PROVE  issued'[reqs'[r].code] # "no" /\ (reqs'[r].quiet => reqs'[r].code \notin entered)
    <3>1. CASE Judge(r)
      <4>1. /\ reqs'[r].code = reqs[r].code /\ reqs'[r].pc \in {"reset", "load"}
            /\ reqs'[r].pc = "reset" => CodeIsRight(r)
        BY <1>1, <3>1, JudgeMoves
      <4>2. reqs[r].code \in Tokens /\ codes[reqs[r].code] = "valid"
        BY <1>1, <2>2, <4>1 DEF Accepted, CodeIsRight, Shape, Regs
      <4> QED BY <1>3, <4>1, <4>2 DEF Redeemed
    <3>2. CASE Reset(r)
      <4>1. reqs[r].pc = "reset" /\ reqs'[r].code = reqs[r].code /\ reqs'[r].quiet = reqs[r].quiet
        BY <1>1, <3>2, ResetMoves DEF GoesOn
      <4>2. Accepted(r)
        BY <2>2, <4>1 DEF Accepted
      <4> QED BY <1>3, <1>4, <4>1, <4>2 DEF Redeemed
    <3>3. CASE FirstStep(r) \/ SecondStep(r)
      BY <1>1, <2>2, <3>3, FirstStepMoves, SecondStepMoves DEF Accepted
    <3>4. CASE FirstStepFails(r) \/ Check(r) \/ Write(r)
      BY <1>1, <2>2, <3>4, FirstStepFailsMoves, CheckMoves, WriteMoves, IdleFacts DEF Accepted, Aborted
    <3>5. CASE Load(r) \/ Failed(r)
      BY <1>1, <2>2, <3>5, LoadMoves, FailedMoves, IdleFacts DEF Accepted
    <3> QED BY <1>8, <3>1, <3>2, <3>3, <3>4, <3>5 DEF Step
  <2> QED BY <1>3, <1>4, <1>5, <2>1, <2>2 DEF Redeemed
<1> QED BY <1>6, <1>7, <1>8

LEMMA JudgedFinite == IsFiniteSet(Judged) /\ Cardinality(Judged) \in Nat
BY Constants, FS_Subset, FS_CardinalityType DEF Judged

\* Nothing more is tried.
LEMMA TriedKept ==
  ASSUME Shape, Shape', Tried, Judged' \subseteq Judged, \A s \in Scopes : wrong'[s] <= wrong[s]
  PROVE  Tried'
<1>1. /\ Cardinality(Judged) \in Nat /\ Cardinality(Judged') \in Nat /\ Cardinality(Judged') <= Cardinality(Judged)
  BY JudgedFinite, FS_Subset, FS_CardinalityType
<1>2. Tried' <=> \A s \in Scopes : wrong'[s] + Cardinality(Judged') <= MaxWrong
  BY DEF Tried, Judged
<1>3. ASSUME NEW s \in Scopes
      PROVE  wrong'[s] + Cardinality(Judged') <= MaxWrong
  <2>1. wrong[s] \in Nat /\ wrong'[s] \in Nat /\ wrong'[s] <= wrong[s] /\ wrong[s] + Cardinality(Judged) <= MaxWrong
    BY DEF Shape, Tried
  <2> QED BY <1>1, <2>1, Constants
<1> QED BY <1>2, <1>3

LEMMA TriedStep ==
  ASSUME TypeInv, TypeInv', Tried, Earned, NEW r \in Requests, HasRoom(r), Step(r), factor' = factor
  PROVE  Tried'
<1>1. Shape /\ Shape' /\ Local(r) /\ HeldBy(r)
  BY DEF TypeInv
<1>2. Others(r) /\ (Enters(r) \/ Follows(r))
  BY Kinds DEF Moves
<1>3. \A q \in Requests \ {r} : q \in Judged' <=> q \in Judged
  BY <1>2 DEF Others, Same, Judged
<1>4. /\ Judged' \subseteq Requests /\ Judged \subseteq Requests
      /\ r \in Judged <=> reqs[r].pc \in {"check", "judge"}
      /\ r \in Judged' <=> reqs'[r].pc \in {"check", "judge"}
  BY DEF Judged
<1>5. CASE SecondStep(r)
  <2>1. /\ reqs[r].pc = "idle" /\ reqs'[r].pc = "check" /\ wrong' = wrong
        /\ \A s \in Scopes : wrong[s] + Cardinality(Judged) < MaxWrong
    BY <1>1, <1>5, SecondStepMoves DEF Enters, shared
  <2>2. Judged' = Judged \cup {r} /\ r \notin Judged
    BY <1>3, <1>4, <2>1
  <2>3. Cardinality(Judged') = Cardinality(Judged) + 1 /\ Cardinality(Judged) \in Nat
    BY <2>2, JudgedFinite, FS_AddElement
  <2>4. ASSUME NEW s \in Scopes
        PROVE  wrong'[s] + Cardinality(Judged') <= MaxWrong
    <3>1. wrong[s] \in Nat
      BY <1>1 DEF Shape
    <3> QED BY <2>1, <2>3, <3>1, Constants
  <2> QED BY <2>4 DEF Tried, Judged
<1>6. CASE Judge(r)
  <2>1. /\ reqs[r].pc = "judge" /\ reqs'[r].pc \notin {"check", "judge"}
        /\ \A s \in Scopes : wrong'[s] = wrong[s] \/ wrong'[s] = wrong[s] + 1
    BY <1>1, <1>6, JudgeMoves
  <2>2. Judged' = Judged \ {r} /\ r \in Judged
    BY <1>3, <1>4, <2>1
  <2>3. Cardinality(Judged') = Cardinality(Judged) - 1 /\ Cardinality(Judged) \in Nat
    BY <2>2, JudgedFinite, FS_RemoveElement
  <2>4. ASSUME NEW s \in Scopes
        PROVE  wrong'[s] + Cardinality(Judged') <= MaxWrong
    <3>1. wrong[s] \in Nat /\ wrong[s] + Cardinality(Judged) <= MaxWrong
      BY <1>1 DEF Shape, Tried
    <3> QED BY <2>1, <2>3, <3>1, Constants
  <2> QED BY <2>4 DEF Tried, Judged
<1>7. CASE ~SecondStep(r) /\ ~Judge(r)
  <2>1. (reqs'[r].pc \in {"check", "judge"} => reqs[r].pc \in {"check", "judge"}) /\ \A s \in Scopes : wrong'[s] <= wrong[s]
    <3>1. CASE FirstStep(r)
      <4>1. reqs'[r].pc = "mail" /\ wrong' = wrong
        BY <1>1, <3>1, FirstStepMoves DEF Enters, shared
      <4> QED BY <1>1, <4>1 DEF Shape
    <3>2. CASE FirstStepCommit(r)
      <4>1. reqs'[r].pc = "idle" /\ wrong' = wrong
        BY <1>1, <3>2, FirstStepCommitMoves, IdleFacts
      <4> QED BY <1>1, <4>1 DEF Shape
    <3>3. CASE FirstStepFails(r) \/ Check(r) \/ Write(r)
      <4>1. (reqs'[r].pc \in {"check", "judge"} => reqs[r].pc \in {"check", "judge"}) /\ wrong' = wrong
        BY <1>1, <3>3, FirstStepFailsMoves, CheckMoves, WriteMoves, IdleFacts DEF Aborted, GoesOn, shared
      <4> QED BY <1>1, <4>1 DEF Shape
    <3>4. CASE Load(r) \/ Reset(r)
      <4>1. reqs'[r].pc \notin {"check", "judge"} /\ wrong' = wrong
        BY <1>1, <3>4, LoadMoves, ResetMoves DEF GoesOn, shared
      <4> QED BY <1>1, <4>1 DEF Shape
    <3>5. CASE Failed(r)
      <4>1. reqs'[r].pc = "idle" /\ wrong' = wrong
        BY <1>1, <3>5, FailedMoves, IdleFacts
      <4> QED BY <1>1, <4>1 DEF Shape
    <3>6. CASE Done(r)
      <4>1. reqs'[r].pc = "idle" /\ \A s \in Scopes : wrong'[s] = IF s \in Deletes(r) THEN Failers(s) ELSE wrong[s]
        BY <1>1, <3>6, DoneMoves, IdleFacts
      <4>2. ASSUME NEW s \in Scopes
            PROVE  wrong'[s] <= wrong[s]
        <5>1. wrong[s] \in Nat /\ calm[s] \in Nat /\ Failers(s) \in Nat /\ calm[s] + Failers(s) <= wrong[s]
          BY <1>1, Counting DEF Shape, Earned, EarnedAt
        <5> QED BY <4>1, <5>1
      <4> QED BY <4>1, <4>2
    <3> QED BY <1>7, <3>1, <3>2, <3>3, <3>4, <3>5, <3>6 DEF Step
  <2>2. Judged' \subseteq Judged
    BY <1>3, <1>4, <2>1
  <2> QED BY <1>1, <2>1, <2>2, TriedKept
<1> QED BY <1>5, <1>6, <1>7

-----------------------------------------------------------------------------
(* The numbers are earned.                                                  *)

\* What another request finds of a counter: as many wrong codes more as there
\* are failures more, and a number that has room; or nothing that concerns it.
Leaves(q, s) ==
  \/ /\ Failers(s)' + wrong[s] <= Failers(s) + wrong'[s]
     /\ count'[s] # None => \/ count[s] # None /\ count'[s].n = count[s].n
                            \/ count'[s].n + Failers(s)' <= wrong'[s] + 1
  \/ /\ s \notin DOMAIN reqs[q].mine
     /\ reqs[q].pc = "write" /\ Here(q) = s /\ reqs[q].loaded # None => s \in reqs'[q].gone

LEMMA EarnedKept ==
  ASSUME TypeInv, Shape', NEW q \in Requests, Same(q), EarnedBy(q), \A s \in Scopes : Leaves(q, s)
  PROVE  EarnedBy(q)'
<1>1. /\ Here(q)' = Here(q)
      /\ reqs'[q].pc = reqs[q].pc /\ reqs'[q].loaded = reqs[q].loaded /\ reqs'[q].mine = reqs[q].mine
      /\ reqs'[q].gone = reqs[q].gone \/ Here(q) \in reqs'[q].gone
  BY SameScopes DEF Same
<1>2. \A s : Failers(s) \in Nat /\ Failers(s)' \in Nat
  <2>1. ASSUME NEW s
        PROVE  Failers(s)' \in Nat
    <3>1. {p \in Requests : Failing(p)' /\ s \in Mine(p)'} \subseteq Requests
      OBVIOUS
    <3>2. IsFiniteSet({p \in Requests : Failing(p)' /\ s \in Mine(p)'})
      BY <3>1, Constants, FS_Subset
    <3> QED BY <3>2, FS_CardinalityType DEF Failers
  <2> QED BY <2>1, Counting
<1>3. \A s \in Scopes : wrong[s] \in Nat /\ wrong'[s] \in Nat
  BY DEF TypeInv, Shape
<1>4. \A s \in Scopes : /\ count[s] \in {None} \cup Counter /\ count'[s] \in {None} \cup Counter
  BY DEF TypeInv, Shape
<1>5. \A s \in Scopes : /\ count[s] # None => count[s].n \in Nat
                        /\ count'[s] # None => count'[s].n \in Nat
  BY <1>4 DEF Counter
<1>6. ASSUME NEW s \in Scopes, s = Here(q), reqs[q].pc = "write", reqs[q].loaded # None, s \notin reqs'[q].gone
      PROVE  /\ reqs[q].loaded.fresh => reqs[q].loaded.n + Failers(s)' <= wrong'[s]
             /\ ~reqs[q].loaded.fresh /\ reqs[q].loaded.n = 1 /\ count'[s] # None
                  => count'[s].n + Failers(s)' <= wrong'[s] + 1
  <2>2. PICK l \in Counter : l = reqs[q].loaded
    BY <1>6 DEF TypeInv, Shape, Regs
  <2>3. l.n \in Nat
    BY DEF Counter
  <2>4. /\ l.fresh => l.n + Failers(s) <= wrong[s]
        /\ ~l.fresh /\ l.n = 1 /\ count[s] # None => count[s].n + Failers(s) <= wrong[s] + 1
    BY <1>1, <1>6, <2>2 DEF EarnedBy
  <2>5. /\ Failers(s)' + wrong[s] <= Failers(s) + wrong'[s]
        /\ count'[s] # None => \/ count[s] # None /\ count'[s].n = count[s].n
                               \/ count'[s].n + Failers(s)' <= wrong'[s] + 1
    BY <1>6 DEF Leaves
  <2>6. Failers(s) \in Nat /\ Failers(s)' \in Nat /\ wrong[s] \in Nat /\ wrong'[s] \in Nat
    BY <1>2, <1>3
  <2>7. l.fresh => l.n + Failers(s)' <= wrong'[s]
    BY <2>3, <2>4, <2>5, <2>6
  <2>8. ~l.fresh /\ l.n = 1 /\ count'[s] # None => count'[s].n + Failers(s)' <= wrong'[s] + 1
    <3>1. CASE count[s] # None /\ count'[s] # None /\ count'[s].n = count[s].n
      BY <1>5, <2>4, <2>5, <2>6, <3>1
    <3> QED BY <2>5, <3>1
  <2> QED BY <2>2, <2>7, <2>8
<1>7. ASSUME NEW s \in DOMAIN reqs[q].mine
      PROVE  reqs[q].mine[s].n + Failers(s)' <= wrong'[s] + 1
  <2>1. s \in Scopes /\ reqs[q].mine[s] \in Note
    BY Located
  <2>2. reqs[q].mine[s].n \in Nat
    BY <2>1 DEF Note
  <2>3. Failers(s)' + wrong[s] <= Failers(s) + wrong'[s] /\ reqs[q].mine[s].n + Failers(s) <= wrong[s] + 1
    BY <2>1 DEF Leaves, EarnedBy
  <2> QED BY <1>2, <1>3, <2>1, <2>2, <2>3
<1>8. reqs[q].pc = "write" => Here(q) \in Scopes
  BY Located DEF Failing
<1> QED BY <1>1, <1>6, <1>7, <1>8 DEF EarnedBy

\* The counters and the histories stay, and nobody fails who did not.
LEMMA EarnedCalm ==
  ASSUME TypeInv, Shape', Earned, NEW r \in Requests, Others(r), count' = count, wrong' = wrong, calm' = calm,
         \A s \in Scopes : Failers(s)' \in Nat /\ Failers(s)' <= Failers(s), EarnedBy(r)'
  PROVE  Earned'
<1>1. \A s \in Scopes : wrong[s] \in Nat /\ calm[s] \in Nat /\ Failers(s) \in Nat
  BY Counting DEF TypeInv, Shape
<1>2. ASSUME NEW s \in Scopes
      PROVE  EarnedAt(s)'
  <2>1. calm[s] + Failers(s)' <= wrong[s]
    BY <1>1 DEF Earned, EarnedAt
  <2>2. ASSUME count[s] # None, count[s].fresh
        PROVE  count[s].n + Failers(s)' <= wrong[s]
    <3>1. count[s].n \in Nat
      BY <2>2 DEF TypeInv, Shape, Counter
    <3>2. count[s].n + Failers(s) <= wrong[s]
      BY <2>2 DEF Earned, EarnedAt
    <3> QED BY <1>1, <3>1, <3>2
  <2> QED BY <2>1, <2>2 DEF EarnedAt
<1>3. ASSUME NEW q \in Requests, q # r
      PROVE  EarnedBy(q)'
  <2>1. \A s \in Scopes : Leaves(q, s)
    BY <1>1 DEF Leaves
  <2> QED BY <1>3, <2>1, EarnedKept DEF Others, Earned
<1> QED BY <1>2, <1>3 DEF Earned

\* Who has nothing written and writes nothing, owes nothing.
LEMMA EarnedFree ==
  ASSUME NEW r \in Requests, reqs'[r].pc # "write", DOMAIN reqs'[r].mine = {}
  PROVE  EarnedBy(r)'
BY DEF EarnedBy

\* The failure that is noted has room.
LEMMA WriteEarned ==
  ASSUME TypeInv, TypeInv', Earned, NEW r \in Requests, HasRoom(r), Write(r), factor' = factor
  PROVE  Earned'
<1>1. Shape /\ Shape' /\ Local(r) /\ HeldBy(r)
  BY DEF TypeInv
<1>2. Moves(r) /\ Others(r) /\ reqs[r].pc = "write"
  BY <1>1, WriteMoves DEF Moves
<1>3. CASE Aborted(r)
  <2>1. /\ count' = count /\ wrong' = wrong /\ calm' = calm /\ reqs'[r] = Idle
    BY <1>3 DEF Aborted, shared
  <2>2. Failing(r) /\ ~Failing(r)' /\ EarnedBy(r)'
    BY <1>2, <2>1, IdleFacts, EarnedFree DEF Failing
  <2>3. \A s \in Scopes : Failers(s)' \in Nat /\ Failers(s)' <= Failers(s)
    <3>1. ASSUME NEW s \in Scopes
          PROVE  Failers(s)' \in Nat /\ Failers(s)' <= Failers(s)
      <4>1. Failers(s)' = IF s \in Mine(r) THEN Failers(s) - 1 ELSE Failers(s)
        BY <1>2, <2>2, FailersFewer
      <4>2. Failers(s) \in Nat /\ (s \in Mine(r) => Failers(s) \in Nat \ {0})
        BY <2>2, Counting, FailsAlready
      <4> QED BY <4>1, <4>2
    <3> QED BY <3>1
  <2> QED BY <1>1, <1>2, <2>1, <2>2, <2>3, EarnedCalm
<1>4. CASE ~Aborted(r)
  <2>1. /\ GoesOn(r) /\ reqs'[r].pc \in {"load", "failed"}
        /\ (reqs[r].loaded = None <=> count[Here(r)] = None)
        /\ Here(r) \notin reqs[r].gone
        /\ DOMAIN reqs'[r].mine = DOMAIN reqs[r].mine \cup {Here(r)} /\ Here(r) \notin DOMAIN reqs[r].mine
        /\ \A s \in DOMAIN reqs[r].mine : reqs'[r].mine[s] = reqs[r].mine[s]
        /\ reqs'[r].mine[Here(r)].n = Number(r)
        /\ Mine(r)' = Mine(r) /\ Here(r) \in Mine(r) /\ Mine(r) \subseteq Scopes
    BY <1>1, <1>4, WriteMoves
  <2>2. count' = count /\ wrong' = wrong /\ calm' = calm
    BY <2>1 DEF GoesOn, shared
  <2>3. Failing(r) /\ Failing(r)'
    BY <1>2, <2>1 DEF Failing
  <2>4. \A s : Failers(s)' = Failers(s)
    BY <1>2, <2>1, <2>3, FailersStay
  <2>5. PICK s \in Scopes : s = Here(r) /\ s \in Mine(r)
    BY <2>1
  <2>6. Failers(s) \in Nat /\ wrong[s] \in Nat /\ calm[s] \in Nat /\ calm[s] + Failers(s) <= wrong[s]
    BY <1>1, Counting DEF Shape, Earned, EarnedAt
  <2>7. reqs[r].loaded = None \/ (reqs[r].loaded \in Counter /\ count[s] \in Counter)
    BY <1>1, <2>1, <2>5 DEF Shape, Regs
  <2>8. Number(r) + Failers(s) <= wrong[s] + 1
    <3>1. CASE reqs[r].loaded = None
      BY <2>6, <3>1 DEF Number
    <3>2. CASE reqs[r].loaded # None
      <4>1. PICK l \in Counter : l = reqs[r].loaded
        BY <2>7, <3>2
      <4>2. l.n \in Nat /\ l.fresh \in BOOLEAN /\ count[s].n \in Nat /\ count[s] # None
        BY <2>1, <2>5, <2>7, <3>2 DEF Counter
      <4>3. /\ l.fresh => l.n + Failers(s) <= wrong[s]
            /\ ~l.fresh /\ l.n = 1 => count[s].n + Failers(s) <= wrong[s] + 1
        BY <1>2, <2>1, <2>5, <3>2, <4>1, <4>2 DEF Earned, EarnedBy
      <4>4. Number(r) = IF Counted(l) # l.n THEN Counted(l) ELSE count[s].n
        BY <2>5, <3>2, <4>1 DEF Number
      <4>5. CASE l.fresh
        <5>1. Number(r) = l.n + 1
          BY <4>2, <4>4, <4>5 DEF Counted
        <5> QED BY <2>6, <4>2, <4>3, <4>5, <5>1
      <4>6. CASE ~l.fresh /\ l.n # 1
        <5>1. Number(r) = 1
          BY <4>2, <4>4, <4>6 DEF Counted
        <5> QED BY <2>6, <5>1
      <4>7. CASE ~l.fresh /\ l.n = 1
        <5>1. Number(r) = count[s].n
          BY <4>2, <4>4, <4>7 DEF Counted
        <5> QED BY <4>3, <4>7, <5>1
      <4> QED BY <4>5, <4>6, <4>7
    <3> QED BY <3>1, <3>2
  <2>9. ASSUME NEW x \in DOMAIN reqs'[r].mine
        PROVE  reqs'[r].mine[x].n + Failers(x)' <= wrong'[x] + 1
    <3>1. Failers(x)' = Failers(x)
      BY <2>4
    <3>2. CASE x = s
      BY <2>1, <2>2, <2>5, <2>8, <3>1, <3>2
    <3>3. CASE x # s
      BY <2>1, <2>2, <2>5, <3>1, <3>3 DEF Earned, EarnedBy
    <3> QED BY <3>2, <3>3
  <2>a. EarnedBy(r)'
    BY <2>1, <2>9 DEF EarnedBy
  <2>b. \A x \in Scopes : Failers(x)' \in Nat /\ Failers(x)' <= Failers(x)
    BY <2>4, Counting
  <2> QED BY <1>1, <1>2, <2>2, <2>a, <2>b, EarnedCalm
<1> QED BY <1>3, <1>4

\* The wrong code that is tried is one more, and one failure more is under way.
LEMMA JudgeEarned ==
  ASSUME TypeInv, TypeInv', Earned, NEW r \in Requests, Judge(r), factor' = factor
  PROVE  Earned'
<1>1. Shape /\ Shape' /\ Local(r) /\ HeldBy(r)
  BY DEF TypeInv
<1>2. /\ Others(r) /\ reqs[r].pc = "judge" /\ Mine(r) \subseteq Scopes /\ Mine(r)' = Mine(r)
      /\ count' = count /\ calm' = calm /\ DOMAIN reqs'[r].mine = {}
      /\ \/ reqs'[r].pc = "reset" /\ wrong' = wrong
         \/ /\ reqs'[r].pc = "load"
            /\ \A s \in Scopes : wrong'[s] = IF s \in Mine(r) THEN wrong[s] + 1 ELSE wrong[s]
  BY <1>1, JudgeMoves DEF Moves
<1>3. EarnedBy(r)' /\ ~Failing(r)
  BY <1>2, EarnedFree DEF Failing
<1>4. CASE reqs'[r].pc = "reset" /\ wrong' = wrong
  <2>1. ~Failing(r)'
    BY <1>4 DEF Failing
  <2>2. \A s \in Scopes : Failers(s)' \in Nat /\ Failers(s)' <= Failers(s)
    BY <1>2, <1>3, <2>1, FailersStay, Counting
  <2> QED BY <1>1, <1>2, <1>3, <1>4, <2>2, EarnedCalm
<1>5. CASE /\ reqs'[r].pc = "load"
           /\ \A s \in Scopes : wrong'[s] = IF s \in Mine(r) THEN wrong[s] + 1 ELSE wrong[s]
  <2>1. Failing(r)'
    BY <1>5 DEF Failing
  <2>2. \A s : Failers(s)' = IF s \in Mine(r) THEN Failers(s) + 1 ELSE Failers(s)
    BY <1>2, <1>3, <2>1, FailersMore
  <2>3. \A s \in Scopes : Failers(s) \in Nat /\ wrong[s] \in Nat /\ calm[s] \in Nat
    BY <1>1, Counting DEF Shape
  <2>4. ASSUME NEW s \in Scopes
        PROVE  EarnedAt(s)'
    <3>1. /\ Failers(s) \in Nat /\ wrong[s] \in Nat /\ calm[s] \in Nat
          /\ \/ Failers(s)' = Failers(s) /\ wrong'[s] = wrong[s]
             \/ Failers(s)' = Failers(s) + 1 /\ wrong'[s] = wrong[s] + 1
      BY <1>5, <2>2, <2>3
    <3>2. calm[s] + Failers(s)' <= wrong'[s]
      BY <3>1 DEF Earned, EarnedAt
    <3>3. ASSUME count[s] # None, count[s].fresh
          PROVE  count[s].n + Failers(s)' <= wrong'[s]
      <4>1. count[s].n \in Nat
        BY <1>1, <3>3 DEF Shape, Counter
      <4>2. count[s].n + Failers(s) <= wrong[s]
        BY <3>3 DEF Earned, EarnedAt
      <4> QED BY <3>1, <4>1, <4>2
    <3> QED BY <1>2, <3>2, <3>3 DEF EarnedAt
  <2>5. ASSUME NEW q \in Requests, q # r
        PROVE  EarnedBy(q)'
    <3>1. \A s \in Scopes : Leaves(q, s)
      BY <1>2, <1>5, <2>2, <2>3 DEF Leaves
    <3> QED BY <1>1, <1>2, <2>5, <3>1, EarnedKept DEF Others, Earned
  <2> QED BY <1>3, <2>4, <2>5 DEF Earned
<1> QED BY <1>2, <1>4, <1>5

\* The failure is counted, and is under way no more.
LEMMA FailedEarned ==
  ASSUME TypeInv, TypeInv', Earned, NEW r \in Requests, Failed(r), factor' = factor
  PROVE  Earned'
<1>1. Shape /\ Shape' /\ Local(r) /\ HeldBy(r)
  BY DEF TypeInv
<1>2. /\ Others(r) /\ reqs[r].pc = "failed" /\ wrong' = wrong /\ reqs'[r] = Idle
      /\ Mine(r) \subseteq Scopes /\ DOMAIN reqs[r].mine = Mine(r)
      /\ \A s \in Scopes : calm'[s] = IF reqs[r].quiet /\ s \in Mine(r) THEN calm[s] + 1 ELSE calm[s]
  BY <1>1, FailedMoves DEF Moves
<1>3. \A s \in Scopes :
        \/ count'[s] = count[s]
        \/ s \in Mine(r) /\ count'[s].n = reqs[r].mine[s].n
  BY <1>1, FailedMoves
<1>4. EarnedBy(r)' /\ Failing(r) /\ ~Failing(r)'
  BY <1>2, IdleFacts, EarnedFree DEF Failing
<1>5. \A s : Failers(s)' = IF s \in Mine(r) THEN Failers(s) - 1 ELSE Failers(s)
  BY <1>2, <1>4, FailersFewer
<1>6. \A s : s \in Mine(r) => Failers(s) \in Nat \ {0}
  BY <1>4, FailsAlready
<1>7. \A s \in Scopes : Failers(s) \in Nat /\ wrong[s] \in Nat /\ calm[s] \in Nat /\ calm[s] + Failers(s) <= wrong[s]
  BY <1>1, Counting DEF Shape, Earned, EarnedAt
<1>8. \A s \in Mine(r) : reqs[r].mine[s].n \in Nat /\ reqs[r].mine[s].n + Failers(s) <= wrong[s] + 1
  <2>1. \A s \in Mine(r) : reqs[r].mine[s] \in Note
    BY <1>2, Located
  <2> QED BY <1>2, <2>1 DEF Note, Earned, EarnedBy
<1>9. \A s \in Scopes : \/ count'[s] = count[s]
                        \/ count'[s].n \in Nat /\ count'[s].n + Failers(s)' <= wrong[s]
  <2>1. ASSUME NEW s \in Scopes, count'[s] # count[s]
        PROVE  count'[s].n \in Nat /\ count'[s].n + Failers(s)' <= wrong[s]
    <3>1. s \in Mine(r) /\ count'[s].n = reqs[r].mine[s].n
      BY <1>3, <2>1
    <3>2. Failers(s)' = Failers(s) - 1 /\ Failers(s) \in Nat \ {0} /\ wrong[s] \in Nat
      BY <1>5, <1>6, <1>7, <3>1
    <3>3. reqs[r].mine[s].n \in Nat /\ reqs[r].mine[s].n + Failers(s) <= wrong[s] + 1
      BY <1>8, <3>1
    <3> QED BY <3>1, <3>2, <3>3
  <2> QED BY <2>1
<1>a. \A s \in Scopes : Failers(s)' \in Nat /\ Failers(s)' <= Failers(s)
  BY <1>5, <1>6, <1>7
<1>b. ASSUME NEW s \in Scopes
      PROVE  EarnedAt(s)'
  <2>1. calm'[s] + Failers(s)' <= wrong'[s]
    <3>1. CASE s \in Mine(r)
      <4>1. Failers(s)' = Failers(s) - 1 /\ (calm'[s] = calm[s] \/ calm'[s] = calm[s] + 1)
        BY <1>2, <1>5, <3>1
      <4> QED BY <1>2, <1>7, <4>1
    <3>2. CASE s \notin Mine(r)
      <4>1. Failers(s)' = Failers(s) /\ calm'[s] = calm[s]
        BY <1>2, <1>5, <3>2
      <4> QED BY <1>2, <1>7, <4>1
    <3> QED BY <3>1, <3>2
  <2>2. ASSUME count'[s] # None, count'[s].fresh
        PROVE  count'[s].n + Failers(s)' <= wrong'[s]
    <3>1. CASE count'[s] = count[s]
      <4>1. count[s].n \in Nat
        BY <1>1, <2>2, <3>1 DEF Shape, Counter
      <4>2. count[s].n + Failers(s) <= wrong[s]
        BY <2>2, <3>1 DEF Earned, EarnedAt
      <4> QED BY <1>2, <1>7, <1>a, <3>1, <4>1, <4>2
    <3>2. CASE count'[s] # count[s]
      BY <1>2, <1>9, <3>2
    <3> QED BY <3>1, <3>2
  <2> QED BY <2>1, <2>2 DEF EarnedAt
<1>c. ASSUME NEW q \in Requests, q # r
      PROVE  EarnedBy(q)'
  <2>1. ASSUME NEW s \in Scopes
        PROVE  Leaves(q, s)
    <3>1. Failers(s)' + wrong[s] <= Failers(s) + wrong'[s]
      BY <1>2, <1>7, <1>a
    <3>2. count'[s] # count[s] => count'[s].n + Failers(s)' <= wrong'[s] + 1
      BY <1>2, <1>7, <1>9, <1>a
    <3> QED BY <3>1, <3>2 DEF Leaves
  <2> QED BY <1>1, <1>2, <1>c, <2>1, EarnedKept DEF Others, Earned
<1> QED BY <1>4, <1>b, <1>c DEF Earned

\* A login clears its counters; only the failures under way remain.
LEMMA DoneEarned ==
  ASSUME TypeInv, TypeInv', Earned, NEW r \in Requests, Done(r), factor' = factor
  PROVE  Earned'
<1> DEFINE D == Deletes(r)
<1>1. Shape /\ Shape' /\ Local(r) /\ HeldBy(r)
  BY DEF TypeInv
<1>2. /\ Others(r) /\ reqs[r].pc = "done" /\ reqs'[r] = Idle
      /\ \A q \in Requests \ {r} :
           reqs[q].pc = "write" /\ Here(q) \in D /\ reqs[q].loaded # None => Here(q) \in reqs'[q].gone
  BY <1>1, DoneMoves DEF Moves
<1>3. \A s \in Scopes : /\ count'[s] = IF s \in D THEN None ELSE count[s]
                        /\ wrong'[s] = IF s \in D THEN Failers(s) ELSE wrong[s]
                        /\ calm'[s] = IF s \in D THEN 0 ELSE calm[s]
  BY <1>1, DoneMoves
<1>4. \A s \in D : lock[s] = r
  BY DEF Deletes
<1> HIDE DEF D
<1>5. ~Failing(r) /\ ~Failing(r)' /\ EarnedBy(r)'
  BY <1>2, IdleFacts, EarnedFree DEF Failing
<1>6. \A s : Failers(s)' = Failers(s) /\ Failers(s) \in Nat
  BY <1>2, <1>5, FailersStay, Counting
<1>7. \A s \in Scopes : wrong[s] \in Nat /\ calm[s] \in Nat
  BY <1>1 DEF Shape
<1>8. ASSUME NEW s \in Scopes
      PROVE  EarnedAt(s)'
  <2>1. Failers(s)' = Failers(s) /\ Failers(s) \in Nat /\ wrong[s] \in Nat /\ calm[s] \in Nat
    BY <1>6, <1>7
  <2>2. CASE s \in D
    <3>1. count'[s] = None /\ wrong'[s] = Failers(s) /\ calm'[s] = 0
      BY <1>3, <2>2
    <3> QED BY <2>1, <3>1 DEF EarnedAt
  <2>3. CASE s \notin D
    <3>1. count'[s] = count[s] /\ wrong'[s] = wrong[s] /\ calm'[s] = calm[s]
      BY <1>3, <2>3
    <3> QED BY <2>1, <3>1 DEF EarnedAt, Earned
  <2> QED BY <2>2, <2>3
<1>9. ASSUME NEW q \in Requests, q # r
      PROVE  EarnedBy(q)'
  <2>1. ASSUME NEW s \in Scopes
        PROVE  Leaves(q, s)
    <3>1. CASE s \in D
      <4>1. s \notin DOMAIN reqs[q].mine
        BY <1>4, <1>9, <3>1, Located
      <4> QED BY <1>2, <1>9, <3>1, <4>1 DEF Leaves
    <3>2. CASE s \notin D
      <4>1. count'[s] = count[s] /\ wrong'[s] = wrong[s] /\ Failers(s)' = Failers(s)
        BY <1>3, <1>6, <3>2
      <4>2. Failers(s)' + wrong[s] <= Failers(s) + wrong'[s]
        BY <1>6, <1>7, <4>1
      <4> QED BY <4>1, <4>2 DEF Leaves
    <3> QED BY <3>1, <3>2
  <2> QED BY <1>1, <1>2, <1>9, <2>1, EarnedKept DEF Others, Earned
<1> QED BY <1>5, <1>8, <1>9 DEF Earned

\* What is loaded is a number that is earned.
LEMMA LoadEarned ==
  ASSUME TypeInv, TypeInv', Earned, NEW r \in Requests, Load(r), factor' = factor
  PROVE  Earned'
<1>1. Shape /\ Shape' /\ Local(r) /\ HeldBy(r)
  BY DEF TypeInv
<1>2. /\ Others(r) /\ GoesOn(r) /\ reqs[r].pc = "load" /\ reqs'[r].pc = "write"
      /\ reqs'[r].loaded = count[Here(r)] /\ reqs'[r].mine = reqs[r].mine
      /\ Mine(r)' = Mine(r) /\ Here(r)' = Here(r) /\ Here(r) \in Mine(r) /\ Mine(r) \subseteq Scopes
  BY <1>1, LoadMoves DEF Moves
<1>3. count' = count /\ wrong' = wrong /\ calm' = calm
  BY <1>2 DEF GoesOn, shared
<1>4. \A s : Failers(s)' = Failers(s) /\ Failers(s) \in Nat
  <2>1. Failing(r) /\ Failing(r)'
    BY <1>2 DEF Failing
  <2> QED BY <1>2, <2>1, FailersStay, Counting
<1>5. PICK s \in Scopes : s = Here(r)
  BY <1>2
<1>6. /\ Failers(s) \in Nat /\ wrong[s] \in Nat /\ calm[s] \in Nat /\ calm[s] + Failers(s) <= wrong[s]
      /\ count[s] # None /\ count[s].fresh => count[s].n + Failers(s) <= wrong[s]
  BY <1>1, <1>4 DEF Shape, Earned, EarnedAt
<1>7. ASSUME count[s] # None
      PROVE  /\ count[s].fresh => count[s].n + Failers(s)' <= wrong[s]
             /\ count[s].n = 1 => count[s].n + Failers(s)' <= wrong[s] + 1
  BY <1>4, <1>6, <1>7
<1>8. ASSUME NEW x \in DOMAIN reqs[r].mine
      PROVE  reqs[r].mine[x].n + Failers(x)' <= wrong[x] + 1
  <2>1. Failers(x)' = Failers(x)
    BY <1>4
  <2> QED BY <2>1 DEF Earned, EarnedBy
<1>9. EarnedBy(r)'
  BY <1>2, <1>3, <1>5, <1>7, <1>8 DEF EarnedBy
<1> QED BY <1>1, <1>2, <1>3, <1>4, <1>9, EarnedCalm

LEMMA EarnedStep ==
  ASSUME TypeInv, TypeInv', Earned, NEW r \in Requests, HasRoom(r), Step(r), factor' = factor
  PROVE  Earned'
<1>1. Shape /\ Shape' /\ Local(r) /\ HeldBy(r)
  BY DEF TypeInv
<1>2. CASE FirstStep(r) \/ SecondStep(r) \/ FirstStepCommit(r) \/ FirstStepFails(r) \/ Check(r) \/ Reset(r)
  <2>1. /\ Others(r) /\ count' = count /\ wrong' = wrong /\ calm' = calm
        /\ ~Failing(r) /\ ~Failing(r)' /\ DOMAIN reqs'[r].mine = {}
    <3>1. CASE FirstStep(r) \/ SecondStep(r)
      BY <1>1, <3>1, FirstStepMoves, SecondStepMoves DEF Moves, Enters, shared, Failing
    <3>2. CASE FirstStepCommit(r)
      BY <1>1, <3>2, FirstStepCommitMoves, IdleFacts DEF Moves, Failing
    <3>3. CASE FirstStepFails(r)
      BY <1>1, <3>3, FirstStepFailsMoves, IdleFacts DEF Moves, Aborted, shared, Failing
    <3>4. CASE Check(r)
      BY <1>1, <3>4, CheckMoves, IdleFacts DEF Moves, Aborted, GoesOn, shared, Failing
    <3>5. CASE Reset(r)
      BY <1>1, <3>5, ResetMoves DEF Moves, GoesOn, shared, Failing
    <3> QED BY <1>2, <3>1, <3>2, <3>3, <3>4, <3>5
  <2>2. EarnedBy(r)'
    BY <2>1, EarnedFree DEF Failing
  <2>3. \A s \in Scopes : Failers(s)' \in Nat /\ Failers(s)' <= Failers(s)
    BY <2>1, FailersStay, Counting
  <2> QED BY <1>1, <2>1, <2>2, <2>3, EarnedCalm
<1> QED BY <1>2, JudgeEarned, LoadEarned, WriteEarned, FailedEarned, DoneEarned DEF Step

\* A window that ends takes the counts along, but not the failures under way.
LEMMA WindowEarned ==
  ASSUME TypeInv, Earned, NEW s \in Scopes, WindowEnds(s), factor' = factor
  PROVE  Earned'
<1>1. /\ TypeInv' /\ \A q \in Requests : Same(q)
      /\ \A x \in Scopes \ {s} : count'[x] = count[x] /\ wrong'[x] = wrong[x] /\ calm'[x] = calm[x]
      /\ count[s] \in Counter /\ count'[s] \in Counter /\ count'[s].n = count[s].n /\ ~count'[s].fresh
      /\ calm'[s] = 0 /\ wrong'[s] = IF Failers(s) > 0 THEN wrong[s] ELSE 0
  BY WindowMoves
<1>2. Shape /\ Shape'
  BY <1>1 DEF TypeInv
<1>3. \A x : Failers(x)' = Failers(x) /\ Failers(x) \in Nat
  <2>1. ASSUME NEW x
        PROVE  Failers(x)' = Failers(x)
    <3>1. \A q \in Requests : Failing(q)' /\ x \in Mine(q)' <=> Failing(q) /\ x \in Mine(q)
      BY <1>1, SameScopes
    <3> QED BY <3>1 DEF Failers
  <2> QED BY <2>1, Counting
<1>4. \A x \in Scopes : wrong[x] \in Nat /\ calm[x] \in Nat /\ calm[x] + Failers(x) <= wrong[x]
  BY <1>2 DEF Shape, Earned, EarnedAt
<1>5. ASSUME NEW x \in Scopes
      PROVE  EarnedAt(x)'
  <2>1. CASE x = s
    <3>1. Failers(s)' = Failers(s) /\ Failers(s) \in Nat /\ wrong[s] \in Nat /\ calm[s] \in Nat /\ calm[s] + Failers(s) <= wrong[s]
      BY <1>3, <1>4
    <3>2. calm'[s] + Failers(s)' <= wrong'[s]
      BY <1>1, <3>1
    <3> QED BY <1>1, <2>1, <3>2 DEF EarnedAt
  <2>2. CASE x # s
    <3>1. Failers(x)' = Failers(x)
      BY <1>3
    <3> QED BY <1>1, <2>2, <3>1 DEF EarnedAt, Earned
  <2> QED BY <2>1, <2>2
<1>6. ASSUME NEW q \in Requests
      PROVE  EarnedBy(q)'
  <2>1. ASSUME NEW x \in Scopes
        PROVE  Leaves(q, x)
    <3>1. Failers(x)' = Failers(x) /\ Failers(x) \in Nat /\ wrong[x] \in Nat
      BY <1>3, <1>4
    <3>2. CASE x # s
      <4>1. count'[x] = count[x] /\ wrong'[x] = wrong[x]
        BY <1>1, <3>2
      <4>2. Failers(x)' + wrong[x] <= Failers(x) + wrong'[x]
        BY <3>1, <4>1
      <4> QED BY <4>1, <4>2 DEF Leaves
    <3>3. CASE x = s /\ Failers(s) > 0
      <4>1. wrong'[x] = wrong[x] /\ count'[x].n = count[x].n /\ count[x] # None
        BY <1>1, <3>3, Constants
      <4>2. Failers(x)' + wrong[x] <= Failers(x) + wrong'[x]
        BY <3>1, <4>1
      <4> QED BY <4>1, <4>2 DEF Leaves
    <3>4. CASE x = s /\ ~(Failers(s) > 0)
      <4>1. ~(Failing(q) /\ x \in Mine(q))
        BY <3>1, <3>4, FailsAlready
      <4> QED BY <4>1, Located DEF Leaves, Failing
    <3> QED BY <3>2, <3>3, <3>4
  <2> QED BY <1>1, <1>2, <2>1, EarnedKept DEF Earned
<1> QED BY <1>5, <1>6 DEF Earned

-----------------------------------------------------------------------------
(* The limit holds.                                                         *)

\* What another request finds: no quiet failure more, and nothing at all has
\* changed if it is quiet itself.
LEMMA LimitedKept ==
  ASSUME TypeInv, Shape', NEW q \in Requests, Same(q), LimitedBy(q),
         \/ reqs[q].pc = "idle"
         \/ (\A s \in Scopes : calm'[s] <= calm[s]) /\ (reqs'[q].quiet => count' = count)
  PROVE  LimitedBy(q)'
<1>1. /\ Here(q)' = Here(q) /\ Past(q)' = Past(q) /\ Mine(q)' = Mine(q) /\ (Failing(q)' <=> Failing(q))
      /\ reqs'[q].pc = reqs[q].pc /\ reqs'[q].loaded = reqs[q].loaded /\ reqs'[q].mine = reqs[q].mine
      /\ reqs'[q].quiet => reqs[q].quiet
  BY SameScopes DEF Same
<1>2. CASE reqs[q].pc = "idle"
  <2>1. ~Failing(q) /\ \A s \in DOMAIN reqs[q].mine : FALSE
    BY <1>2, Located DEF Failing
  <2> QED BY <1>1, <1>2, <2>1 DEF LimitedBy
<1>3. CASE (\A s \in Scopes : calm'[s] <= calm[s]) /\ (reqs'[q].quiet => count' = count) /\ reqs[q].pc # "idle"
  <2>1. \A s \in Scopes : calm[s] \in Nat /\ calm'[s] \in Nat /\ calm'[s] <= calm[s]
    BY <1>3 DEF TypeInv, Shape
  <2>2. reqs[q].pc = "write" => Counts(reqs[q].loaded, calm'[Here(q)])
    <3>1. ASSUME reqs[q].pc = "write"
          PROVE  Counts(reqs[q].loaded, calm'[Here(q)])
      <4>1. PICK s \in Scopes : s = Here(q)
        BY <3>1, Located DEF Failing
      <4>2. Counts(reqs[q].loaded, calm[s])
        BY <3>1, <4>1 DEF LimitedBy
      <4>3. reqs[q].loaded \in {None} \cup Counter
        BY DEF TypeInv, Shape, Regs
      <4>4. reqs[q].loaded # None => reqs[q].loaded.n \in Nat
        BY <4>3 DEF Counter
      <4>5. calm[s] \in Nat /\ calm'[s] \in Nat /\ calm'[s] <= calm[s]
        BY <2>1
      <4> QED BY <4>1, <4>2, <4>4, <4>5 DEF Counts
    <3> QED BY <3>1
  <2>3. reqs[q].pc = "write" /\ reqs'[q].quiet => reqs[q].loaded = count'[Here(q)]
    BY <1>1, <1>3 DEF LimitedBy
  <2>4. \A s \in DOMAIN reqs[q].mine : calm'[s] < reqs[q].mine[s].n
    <3>1. ASSUME NEW s \in DOMAIN reqs[q].mine
          PROVE  calm'[s] < reqs[q].mine[s].n
      <4>1. s \in Scopes /\ reqs[q].mine[s].n \in Nat
        BY Located DEF Note
      <4>2. calm[s] < reqs[q].mine[s].n
        BY DEF LimitedBy
      <4>3. calm[s] \in Nat /\ calm'[s] \in Nat /\ calm'[s] <= calm[s]
        BY <2>1, <4>1
      <4> QED BY <4>1, <4>2, <4>3
    <3> QED BY <3>1
  <2>5. \A s \in DOMAIN reqs[q].mine : reqs'[q].quiet /\ ~reqs[q].mine[s].renew => count'[s].fresh
    BY <1>1, <1>3 DEF LimitedBy
  <2>6. ASSUME reqs'[q].quiet, reqs[q].pc \in {"check", "judge"} \/ Failing(q),
               NEW s \in (IF reqs[q].pc = "check" THEN Past(q) ELSE Mine(q))
        PROVE  calm'[s] < MaxAttempts
    <3>1. s \in Scopes
      BY <2>6, Located DEF Second
    <3>2. calm[s] < MaxAttempts
      BY <1>1, <2>6 DEF LimitedBy
    <3>3. calm[s] \in Nat /\ calm'[s] \in Nat /\ calm'[s] <= calm[s]
      BY <2>1, <3>1
    <3> QED BY <3>2, <3>3, Constants
  <2> QED BY <1>1, <2>2, <2>3, <2>4, <2>5, <2>6 DEF LimitedBy
<1> QED BY <1>2, <1>3

\* The counters stay.
LEMMA LimitedCalm ==
  ASSUME TypeInv, Shape', Limited, NEW r \in Requests, Others(r), factor' = factor, count' = count, calm' = calm,
         factor = "email" => LimitedBy(r)'
  PROVE  Limited'
<1> SUFFICES ASSUME factor = "email"
             PROVE  (\A s \in Scopes : Counts(count[s], calm[s])) /\ \A q \in Requests : LimitedBy(q)'
  BY DEF Limited
<1>1. \A s \in Scopes : calm'[s] <= calm[s]
  BY DEF TypeInv, Shape
<1>2. ASSUME NEW q \in Requests, q # r
      PROVE  LimitedBy(q)'
  BY <1>1, <1>2, LimitedKept DEF Limited, Others
<1> QED BY <1>2 DEF Limited

\* Of what a request that writes nothing and has written nothing must be sure.
LEMMA LimitedFree ==
  ASSUME NEW r \in Requests, DOMAIN reqs'[r].mine = {},
         reqs'[r].pc \in {"idle", "mail", "reset", "done"} \/ (reqs'[r].pc = "check" /\ reqs'[r].at = 1)
  PROVE  LimitedBy(r)'
<1>1. CASE reqs'[r].pc \in {"idle", "mail", "reset", "done"}
  BY <1>1 DEF LimitedBy, Failing
<1>2. CASE reqs'[r].pc = "check" /\ reqs'[r].at = 1
  <2>1. Past(r)' = {ScopesOf(r)'[i] : i \in 1..(1 - 1)}
    BY <1>2 DEF Past
  <2>2. Past(r)' = {}
    BY <2>1
  <2> QED BY <1>2, <2>2 DEF LimitedBy, Failing
<1> QED BY <1>1, <1>2

\* Who is not blocked has been counted less than the limit.
LEMMA CheckLimited ==
  ASSUME TypeInv, TypeInv', Limited, NEW r \in Requests, Check(r), factor' = factor
  PROVE  Limited'
<1>1. Shape /\ Shape' /\ Local(r) /\ HeldBy(r)
  BY DEF TypeInv
<1>2. Others(r) /\ reqs[r].pc = "check"
  BY <1>1, CheckMoves DEF Moves
<1>3. CASE Aborted(r)
  <2>1. reqs'[r] = Idle /\ count' = count /\ calm' = calm
    BY <1>3 DEF Aborted, shared
  <2>2. LimitedBy(r)'
    BY <2>1, IdleFacts, LimitedFree
  <2> QED BY <1>1, <1>2, <2>1, <2>2, LimitedCalm
<1>4. CASE ~Aborted(r)
  <2>1. /\ GoesOn(r) /\ reqs'[r].pc \in {"check", "judge"} /\ ~BlockedHere(r) /\ DOMAIN reqs'[r].mine = {}
        /\ Mine(r)' = Mine(r) /\ Past(r)' = Past(r) \cup {Here(r)}
        /\ reqs'[r].pc = "judge" => Mine(r) = Past(r) \cup {Here(r)}
    BY <1>1, <1>4, CheckMoves
  <2>2. count' = count /\ calm' = calm /\ reqs'[r].quiet = reqs[r].quiet
    BY <2>1 DEF GoesOn, shared
  <2>3. ASSUME factor = "email", reqs[r].quiet, NEW s \in Past(r) \cup {Here(r)}
        PROVE  calm[s] < MaxAttempts
    <3>1. CASE s \in Past(r)
      BY <1>2, <2>3, <3>1 DEF Limited, LimitedBy
    <3>2. CASE s = Here(r)
      <4>1. s \in Scopes
        BY <1>2, <3>2, Located DEF Second
      <4>2. Counts(count[s], calm[s]) /\ calm[s] \in Nat /\ count[s] \in {None} \cup Counter
        BY <1>1, <2>3, <4>1 DEF Limited, Shape
      <4>3. ~Blocked(count[s])
        BY <2>1, <3>2 DEF BlockedHere
      <4>4. CASE count[s] # None /\ count[s].fresh
        <5>1. count[s].n \in Nat /\ calm[s] <= count[s].n /\ ~(count[s].n >= MaxAttempts)
          BY <4>2, <4>3, <4>4 DEF Blocked, Counts, Counter
        <5> QED BY <4>2, <5>1, Constants
      <4>5. CASE ~(count[s] # None /\ count[s].fresh)
        <5>1. calm[s] = 0
          BY <4>2, <4>5 DEF Counts
        <5> QED BY <5>1, Constants
      <4> QED BY <4>4, <4>5
    <3> QED BY <3>1, <3>2, <2>3
  <2>4. factor = "email" => LimitedBy(r)'
    BY <2>1, <2>2, <2>3 DEF LimitedBy, Failing
  <2> QED BY <1>1, <1>2, <2>2, <2>4, LimitedCalm
<1> QED BY <1>3, <1>4

LEMMA JudgeLimited ==
  ASSUME TypeInv, TypeInv', Limited, NEW r \in Requests, Judge(r), factor' = factor
  PROVE  Limited'
<1>1. Shape /\ Shape' /\ Local(r) /\ HeldBy(r)
  BY DEF TypeInv
<1>2. /\ Others(r) /\ reqs[r].pc = "judge" /\ Mine(r)' = Mine(r) /\ count' = count /\ calm' = calm
      /\ DOMAIN reqs'[r].mine = {} /\ reqs'[r].quiet = reqs[r].quiet /\ reqs'[r].pc \in {"reset", "load"}
  BY <1>1, JudgeMoves DEF Moves
<1>3. factor = "email" => LimitedBy(r)'
  BY <1>2 DEF Limited, LimitedBy, Failing
<1> QED BY <1>1, <1>2, <1>3, LimitedCalm

LEMMA LoadLimited ==
  ASSUME TypeInv, TypeInv', Limited, NEW r \in Requests, Load(r), factor' = factor
  PROVE  Limited'
<1>1. Shape /\ Shape' /\ Local(r) /\ HeldBy(r)
  BY DEF TypeInv
<1>2. /\ Others(r) /\ GoesOn(r) /\ reqs[r].pc = "load" /\ reqs'[r].pc = "write"
      /\ reqs'[r].loaded = count[Here(r)] /\ reqs'[r].mine = reqs[r].mine
      /\ Mine(r)' = Mine(r) /\ Here(r)' = Here(r) /\ Here(r) \in Mine(r) /\ Mine(r) \subseteq Scopes
  BY <1>1, LoadMoves DEF Moves
<1>3. count' = count /\ calm' = calm /\ reqs'[r].quiet = reqs[r].quiet
  BY <1>2 DEF GoesOn, shared
<1>4. factor = "email" => LimitedBy(r)'
  BY <1>2, <1>3 DEF Limited, LimitedBy, Failing
<1> QED BY <1>1, <1>2, <1>3, <1>4, LimitedCalm

LEMMA WriteLimited ==
  ASSUME TypeInv, TypeInv', Limited, NEW r \in Requests, HasRoom(r), Write(r), factor' = factor
  PROVE  Limited'
<1>1. Shape /\ Shape' /\ Local(r) /\ HeldBy(r)
  BY DEF TypeInv
<1>2. Others(r) /\ reqs[r].pc = "write"
  BY <1>1, WriteMoves DEF Moves
<1>3. CASE Aborted(r)
  <2>1. reqs'[r] = Idle /\ count' = count /\ calm' = calm
    BY <1>3 DEF Aborted, shared
  <2>2. LimitedBy(r)'
    BY <2>1, IdleFacts, LimitedFree
  <2> QED BY <1>1, <1>2, <2>1, <2>2, LimitedCalm
<1>4. CASE ~Aborted(r)
  <2>1. /\ GoesOn(r) /\ reqs'[r].pc \in {"load", "failed"}
        /\ (reqs[r].loaded = None <=> count[Here(r)] = None)
        /\ DOMAIN reqs'[r].mine = DOMAIN reqs[r].mine \cup {Here(r)} /\ Here(r) \notin DOMAIN reqs[r].mine
        /\ \A s \in DOMAIN reqs[r].mine : reqs'[r].mine[s] = reqs[r].mine[s]
        /\ reqs'[r].mine[Here(r)].n = Number(r) /\ (reqs'[r].mine[Here(r)].renew <=> Renews(r))
        /\ Mine(r)' = Mine(r) /\ Here(r) \in Mine(r) /\ Mine(r) \subseteq Scopes
    BY <1>1, <1>4, WriteMoves
  <2>2. count' = count /\ calm' = calm /\ reqs'[r].quiet = reqs[r].quiet
    BY <2>1 DEF GoesOn, shared
  <2>3. PICK s \in Scopes : s = Here(r) /\ s \in Mine(r)
    BY <2>1
  <2>4. reqs[r].loaded = None \/ (reqs[r].loaded \in Counter /\ count[s] \in Counter)
    BY <1>1, <2>1, <2>3 DEF Shape, Regs
  <2>5. ASSUME factor = "email"
        PROVE  LimitedBy(r)'
    <3>1. Counts(reqs[r].loaded, calm[s]) /\ calm[s] \in Nat
      BY <1>1, <1>2, <2>3, <2>5 DEF Limited, LimitedBy, Shape
    <3>2. calm[s] < Number(r)
      <4>1. CASE reqs[r].loaded = None
        <5>1. calm[s] = 0 /\ Number(r) = 1
          BY <3>1, <4>1 DEF Counts, Number
        <5> QED BY <5>1
      <4>2. CASE reqs[r].loaded # None
        <5>1. PICK l \in Counter : l = reqs[r].loaded /\ count[s] \in Counter
          BY <2>4, <4>2
        <5>2. l.n \in Nat /\ l.fresh \in BOOLEAN /\ count[s].n \in Nat \ {0}
          BY <5>1 DEF Counter
        <5>3. Number(r) = IF Counted(l) # l.n THEN Counted(l) ELSE count[s].n
          BY <2>3, <4>2, <5>1 DEF Number
        <5>4. CASE l.fresh
          <6>1. Number(r) = l.n + 1 /\ calm[s] <= l.n
            BY <3>1, <4>2, <5>1, <5>2, <5>3, <5>4 DEF Counted, Counts
          <6> QED BY <3>1, <5>2, <6>1
        <5>5. CASE ~l.fresh
          <6>1. (Number(r) = 1 \/ Number(r) = count[s].n) /\ calm[s] = 0
            BY <3>1, <4>2, <5>1, <5>2, <5>3, <5>5 DEF Counted, Counts
          <6> QED BY <5>2, <6>1
        <5> QED BY <5>4, <5>5
      <4> QED BY <4>1, <4>2
    <3>3. \A x \in DOMAIN reqs'[r].mine : calm[x] < reqs'[r].mine[x].n
      BY <2>1, <2>3, <2>5, <3>2 DEF Limited, LimitedBy
    <3>4. ASSUME reqs[r].quiet, ~Renews(r)
          PROVE  count[s].fresh
      BY <1>2, <2>3, <2>5, <3>4 DEF Limited, LimitedBy, Renews
    <3>5. \A x \in DOMAIN reqs'[r].mine : reqs[r].quiet /\ ~reqs'[r].mine[x].renew => count[x].fresh
      <4>1. ASSUME NEW x \in DOMAIN reqs'[r].mine, reqs[r].quiet, ~reqs'[r].mine[x].renew
            PROVE  count[x].fresh
        <5>1. CASE x = s
          BY <2>1, <2>3, <3>4, <4>1, <5>1
        <5>2. CASE x # s
          BY <2>1, <2>3, <2>5, <4>1, <5>2 DEF Limited, LimitedBy
        <5> QED BY <5>1, <5>2
      <4> QED BY <4>1
    <3>6. reqs[r].quiet => \A x \in Mine(r) : calm[x] < MaxAttempts
      BY <1>2, <2>5 DEF Limited, LimitedBy, Failing
    <3> QED BY <2>1, <2>2, <3>3, <3>5, <3>6 DEF LimitedBy
  <2> QED BY <1>1, <1>2, <2>2, <2>5, LimitedCalm
<1> QED BY <1>3, <1>4

LEMMA FailedLimited ==
  ASSUME TypeInv, TypeInv', QuietAlone, Limited, NEW r \in Requests, Failed(r), factor' = factor
  PROVE  Limited'
<1> SUFFICES ASSUME factor = "email"
             PROVE  (\A s \in Scopes : Counts(count'[s], calm'[s])) /\ \A q \in Requests : LimitedBy(q)'
  BY DEF Limited
<1>1. Shape /\ Shape' /\ Local(r) /\ HeldBy(r)
  BY DEF TypeInv
<1>2. /\ Others(r) /\ reqs[r].pc = "failed" /\ reqs'[r] = Idle
      /\ Mine(r) \subseteq Scopes /\ DOMAIN reqs[r].mine = Mine(r)
      /\ \A s \in Scopes : calm'[s] = IF reqs[r].quiet /\ s \in Mine(r) THEN calm[s] + 1 ELSE calm[s]
  BY <1>1, FailedMoves DEF Moves
<1>3. \A s \in Scopes :
        \/ count'[s] = count[s] /\ s \notin Mine(r)
        \/ /\ s \in Mine(r) /\ count'[s] \in Counter /\ count'[s].n = reqs[r].mine[s].n
           /\ count'[s].fresh <=> reqs[r].mine[s].renew \/ count[s].fresh
           /\ ~reqs[r].mine[s].renew => count[s] \in Counter
  BY <1>1, FailedMoves
<1>4. ASSUME NEW s \in Scopes
      PROVE  Counts(count'[s], calm'[s])
  <2>1. CASE s \notin Mine(r)
    <3>1. count'[s] = count[s] /\ calm'[s] = calm[s]
      BY <1>2, <1>3, <2>1
    <3> QED BY <3>1 DEF Limited
  <2>2. CASE s \in Mine(r)
    <3>1. /\ count'[s] \in Counter /\ count'[s].n = reqs[r].mine[s].n /\ count'[s] # None
          /\ count'[s].fresh <=> reqs[r].mine[s].renew \/ count[s].fresh
          /\ ~reqs[r].mine[s].renew => count[s] \in Counter /\ count[s] # None
      BY <1>3, <2>2, Constants
    <3>2. /\ calm[s] < reqs[r].mine[s].n
          /\ reqs[r].quiet /\ ~reqs[r].mine[s].renew => count[s].fresh
          /\ Counts(count[s], calm[s])
      BY <1>2, <2>2 DEF Limited, LimitedBy
    <3>3. /\ count'[s].n \in Nat /\ calm[s] \in Nat
      BY <1>1, <3>1 DEF Counter, Shape
    <3>4. calm'[s] = IF reqs[r].quiet THEN calm[s] + 1 ELSE calm[s]
      BY <1>2, <2>2
    <3>5. CASE count'[s].fresh
      <4>1. calm'[s] <= count'[s].n
        BY <3>1, <3>2, <3>3, <3>4
      <4> QED BY <3>1, <3>5, <4>1 DEF Counts
    <3>6. CASE ~count'[s].fresh
      <4>1. ~reqs[r].quiet /\ calm[s] = 0
        BY <3>1, <3>2, <3>6 DEF Counts
      <4> QED BY <3>4, <3>6, <4>1 DEF Counts
    <3> QED BY <3>5, <3>6
  <2> QED BY <2>1, <2>2
<1>5. LimitedBy(r)'
  BY <1>2, IdleFacts, LimitedFree
<1>6. ASSUME NEW q \in Requests, q # r
      PROVE  LimitedBy(q)'
  <2>1. Same(q) /\ LimitedBy(q)
    BY <1>2, <1>6 DEF Others, Limited
  <2>2. CASE reqs[q].pc = "idle"
    BY <1>1, <2>1, <2>2, LimitedKept
  <2>3. CASE reqs[q].pc # "idle"
    <3>1. ~reqs[q].quiet /\ ~reqs[r].quiet
      BY <1>2, <1>6, <2>3 DEF QuietAlone
    <3>2. \A s \in Scopes : calm'[s] <= calm[s]
      <4>1. \A s \in Scopes : calm'[s] = calm[s] /\ calm[s] \in Nat
        BY <1>1, <1>2, <3>1 DEF Shape
      <4> QED BY <4>1
    <3>3. ~reqs'[q].quiet
      BY <2>1, <3>1 DEF Same
    <3> QED BY <1>1, <2>1, <3>2, <3>3, LimitedKept
  <2> QED BY <2>2, <2>3
<1> QED BY <1>4, <1>5, <1>6

LEMMA DoneLimited ==
  ASSUME TypeInv, TypeInv', QuietAlone, Limited, NEW r \in Requests, Done(r), factor' = factor
  PROVE  Limited'
<1> SUFFICES ASSUME factor = "email"
             PROVE  (\A s \in Scopes : Counts(count'[s], calm'[s])) /\ \A q \in Requests : LimitedBy(q)'
  BY DEF Limited
<1>1. Shape /\ Shape' /\ Local(r) /\ HeldBy(r)
  BY DEF TypeInv
<1>2. /\ Others(r) /\ reqs[r].pc = "done" /\ reqs'[r] = Idle
      /\ \A s \in Scopes : /\ count'[s] = IF s \in Deletes(r) THEN None ELSE count[s]
                           /\ calm'[s] = IF s \in Deletes(r) THEN 0 ELSE calm[s]
  BY <1>1, DoneMoves DEF Moves
<1>3. ASSUME NEW s \in Scopes
      PROVE  Counts(count'[s], calm'[s])
  <2>1. CASE s \in Deletes(r)
    BY <1>2, <2>1 DEF Counts
  <2>2. CASE s \notin Deletes(r)
    <3>1. count'[s] = count[s] /\ calm'[s] = calm[s]
      BY <1>2, <2>2
    <3> QED BY <3>1 DEF Limited
  <2> QED BY <2>1, <2>2
<1>4. LimitedBy(r)'
  BY <1>2, IdleFacts, LimitedFree
<1>5. ASSUME NEW q \in Requests, q # r
      PROVE  LimitedBy(q)'
  <2>1. Same(q) /\ LimitedBy(q)
    BY <1>2, <1>5 DEF Others, Limited
  <2>2. \A s \in Scopes : calm'[s] <= calm[s]
    <3>1. \A s \in Scopes : calm[s] \in Nat /\ (calm'[s] = 0 \/ calm'[s] = calm[s])
      BY <1>1, <1>2 DEF Shape
    <3> QED BY <3>1
  <2>3. reqs[q].pc # "idle" => ~reqs'[q].quiet
    BY <1>2, <1>5, <2>1 DEF QuietAlone, Same
  <2> QED BY <1>1, <2>1, <2>2, <2>3, LimitedKept
<1> QED BY <1>3, <1>4, <1>5

LEMMA LimitedStep ==
  ASSUME TypeInv, TypeInv', QuietAlone, Limited, NEW r \in Requests, HasRoom(r), Step(r), factor' = factor
  PROVE  Limited'
<1>1. Shape /\ Shape' /\ Local(r) /\ HeldBy(r)
  BY DEF TypeInv
<1>2. CASE FirstStep(r) \/ SecondStep(r) \/ FirstStepCommit(r) \/ FirstStepFails(r) \/ Reset(r)
  <2>1. /\ Others(r) /\ count' = count /\ calm' = calm /\ DOMAIN reqs'[r].mine = {}
        /\ reqs'[r].pc \in {"idle", "mail", "reset", "done"} \/ (reqs'[r].pc = "check" /\ reqs'[r].at = 1)
    <3>1. CASE FirstStep(r)
      BY <1>1, <3>1, FirstStepMoves DEF Moves, Enters, shared
    <3>2. CASE SecondStep(r)
      BY <1>1, <3>2, SecondStepMoves DEF Moves, Enters, shared
    <3>3. CASE FirstStepCommit(r)
      BY <1>1, <3>3, FirstStepCommitMoves, IdleFacts DEF Moves
    <3>4. CASE FirstStepFails(r)
      BY <1>1, <3>4, FirstStepFailsMoves, IdleFacts DEF Moves, Aborted, shared
    <3>5. CASE Reset(r)
      BY <1>1, <3>5, ResetMoves DEF Moves, GoesOn, shared
    <3> QED BY <1>2, <3>1, <3>2, <3>3, <3>4, <3>5
  <2>2. LimitedBy(r)'
    BY <2>1, LimitedFree
  <2> QED BY <1>1, <2>1, <2>2, LimitedCalm
<1> QED BY <1>2, CheckLimited, JudgeLimited, LoadLimited, WriteLimited, FailedLimited, DoneLimited DEF Step

LEMMA WindowLimited ==
  ASSUME TypeInv, Limited, NEW s \in Scopes, WindowEnds(s), factor' = factor
  PROVE  Limited'
<1> SUFFICES ASSUME factor = "email"
             PROVE  (\A x \in Scopes : Counts(count'[x], calm'[x])) /\ \A q \in Requests : LimitedBy(q)'
  BY DEF Limited
<1>1. /\ TypeInv' /\ \A q \in Requests : Same(q) /\ ~(reqs'[q].quiet /\ reqs[q].pc # "idle")
      /\ \A x \in Scopes \ {s} : count'[x] = count[x] /\ calm'[x] = calm[x]
      /\ ~count'[s].fresh /\ calm'[s] = 0
  BY WindowMoves
<1>2. Shape /\ Shape'
  BY <1>1 DEF TypeInv
<1>3. ASSUME NEW x \in Scopes
      PROVE  Counts(count'[x], calm'[x])
  <2>1. CASE x = s
    BY <1>1, <2>1 DEF Counts
  <2>2. CASE x # s
    BY <1>1, <2>2 DEF Limited
  <2> QED BY <2>1, <2>2
<1>4. ASSUME NEW q \in Requests
      PROVE  LimitedBy(q)'
  <2>1. \A x \in Scopes : calm'[x] <= calm[x]
    <3>1. \A x \in Scopes : calm[x] \in Nat /\ (calm'[x] = 0 \/ calm'[x] = calm[x])
      BY <1>1, <1>2 DEF Shape
    <3> QED BY <3>1
  <2> QED BY <1>1, <1>2, <2>1, LimitedKept DEF Limited
<1> QED BY <1>3, <1>4

\* A failure is only counted on for who was below the limit.
LEMMA LimitStep ==
  ASSUME TypeInv, TypeInv', Limited, LimitHolds, NEW r \in Requests, HasRoom(r), Step(r), factor' = factor
  PROVE  LimitHolds'
<1>1. Shape /\ Local(r) /\ HeldBy(r)
  BY DEF TypeInv
<1>2. \A s \in Scopes : calm[s] \in Nat
  BY <1>1 DEF Shape
<1>3. CASE Failed(r)
  <2>1. /\ reqs[r].pc = "failed"
        /\ \A s \in Scopes : calm'[s] = IF reqs[r].quiet /\ s \in Mine(r) THEN calm[s] + 1 ELSE calm[s]
    BY <1>1, <1>3, FailedMoves
  <2>2. ASSUME factor = "email", NEW s \in Scopes
        PROVE  calm'[s] <= MaxAttempts
    <3>1. CASE reqs[r].quiet /\ s \in Mine(r)
      <4>1. calm[s] < MaxAttempts /\ calm'[s] = calm[s] + 1 /\ calm[s] \in Nat
        BY <1>2, <2>1, <2>2, <3>1 DEF Limited, LimitedBy, Failing
      <4> QED BY <4>1, Constants
    <3>2. CASE ~(reqs[r].quiet /\ s \in Mine(r))
      BY <2>1, <2>2, <3>2 DEF LimitHolds
    <3> QED BY <3>1, <3>2
  <2> QED BY <2>2 DEF LimitHolds
<1>4. CASE ~Failed(r)
  <2>1. \A s \in Scopes : calm'[s] = calm[s] \/ calm'[s] = 0
    <3>1. CASE FirstStep(r) \/ SecondStep(r)
      BY <1>1, <3>1, FirstStepMoves, SecondStepMoves DEF Enters, shared
    <3>2. CASE FirstStepCommit(r)
      BY <1>1, <3>2, FirstStepCommitMoves
    <3>3. CASE FirstStepFails(r) \/ Check(r) \/ Write(r)
      BY <1>1, <3>3, FirstStepFailsMoves, CheckMoves, WriteMoves DEF Aborted, GoesOn, shared
    <3>4. CASE Judge(r)
      BY <1>1, <3>4, JudgeMoves
    <3>5. CASE Load(r) \/ Reset(r)
      BY <1>1, <3>5, LoadMoves, ResetMoves DEF GoesOn, shared
    <3>6. CASE Done(r)
      BY <1>1, <3>6, DoneMoves
    <3> QED BY <1>4, <3>1, <3>2, <3>3, <3>4, <3>5, <3>6 DEF Step
  <2> QED BY <2>1, Constants DEF LimitHolds
<1> QED BY <1>3, <1>4

-----------------------------------------------------------------------------
(* The invariant holds.                                                     *)

LEMMA InitInv == Init => Inv
<1> SUFFICES ASSUME Init
             PROVE  Inv
  OBVIOUS
<1>1. /\ \A r \in Requests : reqs[r] = Idle
      /\ \A s \in Scopes : count[s] = None /\ lock[s] = None /\ wrong[s] = 0 /\ calm[s] = 0
      /\ \A t \in Tokens : codes[t] = "none"
      /\ pending = {} /\ opened = {} /\ entered = {} /\ factor \in Factors
  BY DEF Init
<1>2. \A r \in Requests : ~Failing(r) /\ ~Second(r) /\ reqs[r].pc = "idle" /\ DOMAIN reqs[r].mine = {}
  BY <1>1, IdleFacts DEF Failing, Second
<1>3. \A s : Failers(s) = 0
  BY <1>2, FS_EmptySet DEF Failers
<1>4. TypeInv
  <2>1. reqs \in [Requests -> Regs]
    BY IdleFacts DEF Init
  <2>2. /\ issued \in [Tokens -> {"no", "alone", "crowded"}] /\ codes \in [Tokens -> {"none", "valid", "used"}]
        /\ count \in [Scopes -> {None} \cup Counter] /\ lock \in [Scopes -> {None} \cup Requests]
    BY DEF Init
  <2>3. wrong \in [Scopes -> Nat] /\ calm \in [Scopes -> Nat]
    BY DEF Init
  <2>4. Shape
    BY <1>1, <2>1, <2>2, <2>3 DEF Shape
  <2>5. ASSUME NEW r \in Requests
        PROVE  Local(r) /\ HeldBy(r)
    BY <1>1, <1>2, Constants DEF Local, HeldBy
  <2> QED BY <2>4, <2>5 DEF TypeInv
<1>5. QuietAlone
  BY <1>2 DEF QuietAlone
<1>6. Mailed
  BY <1>1, <1>2 DEF Mailed, Good
<1>7. Spent /\ Redeemed
  BY <1>1, <1>2 DEF Spent, Redeemed, Accepted
<1>8. Tried
  <2>1. Judged = {}
    BY <1>2 DEF Judged
  <2>2. Cardinality(Judged) = 0
    BY <2>1, FS_EmptySet
  <2> QED BY <1>1, <2>2, Constants DEF Tried
<1>9. Earned
  BY <1>1, <1>2, <1>3 DEF Earned, EarnedAt, EarnedBy
<1>a. Limited
  BY <1>1, <1>2 DEF Limited, LimitedBy, Counts, Failing
<1>b. LimitHolds
  BY <1>1, Constants DEF LimitHolds
<1> QED BY <1>4, <1>5, <1>6, <1>7, <1>8, <1>9, <1>a, <1>b DEF Inv

\* Time passes: nothing is mailed or tried.
LEMMA TimeInv ==
  ASSUME Inv, TokenExpires \/ CodeExpires \/ (\E s \in Scopes : WindowEnds(s)), factor' = factor
  PROVE  Inv'
<1>1. TypeInv /\ QuietAlone /\ Mailed /\ Spent /\ Redeemed /\ Tried /\ Earned /\ Limited /\ LimitHolds
  BY DEF Inv
<1>2. /\ TypeInv' /\ \A q \in Requests : Same(q)
      /\ issued' = issued /\ pending' \subseteq pending /\ opened' = opened /\ entered' = entered
      /\ \A t \in Tokens : codes'[t] = "valid" => codes[t] = "valid"
  BY <1>1, ExpiryMoves, WindowMoves DEF Same
<1>3. QuietAlone' /\ Spent' /\ Redeemed'
  <2>1. entered \subseteq Tokens
    BY <1>1 DEF TypeInv, Shape
  <2>2. Redeemed'
    BY <1>1, <1>2, <2>1 DEF Redeemed, Accepted, Same
  <2> QED BY <1>1, <1>2, <2>2 DEF QuietAlone, Spent, Same, Second
<1>4. Mailed'
  BY <1>1, <1>2, MailedKept DEF Same
<1>5. CASE \E s \in Scopes : WindowEnds(s)
  <2>1. PICK s \in Scopes : WindowEnds(s)
    BY <1>5
  <2>2. /\ \A x \in Scopes \ {s} : wrong'[x] = wrong[x] /\ calm'[x] = calm[x]
        /\ calm'[s] = 0 /\ wrong'[s] = IF Failers(s) > 0 THEN wrong[s] ELSE 0
    BY <1>1, <2>1, WindowMoves
  <2>3. \A x \in Scopes : wrong[x] \in Nat /\ (wrong'[x] = wrong[x] \/ wrong'[x] = 0) /\ (calm'[x] = calm[x] \/ calm'[x] = 0)
    BY <1>1, <2>2 DEF TypeInv, Shape
  <2>4. Judged' = Judged
    BY <1>2 DEF Judged, Same
  <2>5. Tried'
    <3>1. \A x \in Scopes : wrong'[x] <= wrong[x]
      BY <2>3
    <3> QED BY <1>1, <1>2, <2>4, <3>1, TriedKept DEF TypeInv
  <2>6. LimitHolds'
    BY <1>1, <2>3, Constants DEF LimitHolds
  <2> QED BY <1>1, <1>2, <1>3, <1>4, <2>1, <2>5, <2>6, WindowEarned, WindowLimited DEF Inv
<1>6. CASE TokenExpires \/ CodeExpires
  <2>1. count' = count /\ wrong' = wrong /\ calm' = calm /\ lock' = lock /\ reqs' = reqs
    BY <1>1, <1>6, ExpiryMoves
  <2>2. \A q \in Requests : /\ Here(q)' = Here(q) /\ Past(q)' = Past(q) /\ Mine(q)' = Mine(q) /\ (Failing(q)' <=> Failing(q))
    BY <1>2, SameScopes
  <2>3. \A s : Failers(s)' = Failers(s)
    BY <2>2 DEF Failers
  <2>4. \A q \in Requests : EarnedBy(q)'
    BY <1>1, <2>1, <2>2, <2>3 DEF Earned, EarnedBy
  <2>5. \A s \in Scopes : EarnedAt(s)'
    BY <1>1, <2>1, <2>3 DEF Earned, EarnedAt
  <2>6. Limited'
    BY <1>1, <2>1, <2>2 DEF Limited, LimitedBy
  <2>7. Tried'
    BY <1>1, <2>1 DEF Tried, Judged
  <2>8. LimitHolds'
    BY <1>1, <2>1 DEF LimitHolds
  <2> QED BY <1>2, <1>3, <1>4, <2>4, <2>5, <2>6, <2>7, <2>8 DEF Inv, Earned
<1> QED BY <1>5, <1>6

LEMMA StepInv == Inv /\ [Next]_vars => Inv'
<1> SUFFICES ASSUME Inv, [Next]_vars
             PROVE  Inv'
  OBVIOUS
<1>1. TypeInv /\ QuietAlone /\ Mailed /\ Spent /\ Redeemed /\ Tried /\ Earned /\ Limited /\ LimitHolds
  BY DEF Inv
<1>2. factor' = factor /\ TypeInv'
  BY <1>1, NextSteps, TypeStep
<1>3. CASE \E r \in Requests : Step(r)
  <2>1. PICK r \in Requests : Step(r)
    BY <1>3
  <2>2. HasRoom(r)
    BY <1>1, RoomFrom
  <2>3. Others(r) /\ (Enters(r) \/ Follows(r))
    BY <1>1, <1>2, <2>1, <2>2, Kinds DEF Moves
  <2>4. QuietAlone'
    BY <1>1, <2>3, QuietStep
  <2>5. Mailed' /\ Spent' /\ Redeemed'
    BY <1>1, <1>2, <2>1, <2>2, MailedStep, SpentStep, RedeemedStep
  <2>6. Tried' /\ Earned'
    BY <1>1, <1>2, <2>1, <2>2, TriedStep, EarnedStep
  <2>7. Limited' /\ LimitHolds'
    BY <1>1, <1>2, <2>1, <2>2, LimitedStep, LimitStep
  <2> QED BY <1>2, <2>4, <2>5, <2>6, <2>7 DEF Inv
<1>4. CASE TokenExpires \/ CodeExpires \/ (\E s \in Scopes : WindowEnds(s))
  BY <1>2, <1>4, TimeInv
<1>5. CASE UNCHANGED vars
  <2>1. /\ issued' = issued /\ pending' = pending /\ codes' = codes /\ opened' = opened /\ entered' = entered
        /\ count' = count /\ wrong' = wrong /\ calm' = calm /\ lock' = lock /\ reqs' = reqs
    BY <1>5 DEF vars, shared
  <2>2. \A q \in Requests : /\ Here(q)' = Here(q) /\ Past(q)' = Past(q) /\ Mine(q)' = Mine(q) /\ (Failing(q)' <=> Failing(q))
    <3>1. \A q \in Requests : Same(q)
      BY <2>1 DEF Same
    <3> QED BY <3>1, SameScopes
  <2>3. \A s : Failers(s)' = Failers(s)
    BY <2>2 DEF Failers
  <2>4. \A q \in Requests : EarnedBy(q)'
    BY <1>1, <2>1, <2>2, <2>3 DEF Earned, EarnedBy
  <2>5. \A s \in Scopes : EarnedAt(s)'
    BY <1>1, <2>1, <2>3 DEF Earned, EarnedAt
  <2>6. Limited'
    BY <1>1, <1>2, <2>1, <2>2 DEF Limited, LimitedBy
  <2>7. Tried' /\ LimitHolds'
    BY <1>1, <1>2, <2>1 DEF Tried, Judged, LimitHolds
  <2>8. QuietAlone' /\ Mailed' /\ Spent' /\ Redeemed'
    BY <1>1, <1>2, <2>1 DEF QuietAlone, Mailed, Good, Spent, Redeemed, Accepted, Second
  <2> QED BY <1>2, <2>4, <2>5, <2>6, <2>7, <2>8 DEF Inv, Earned
<1> QED BY <1>3, <1>4, <1>5, NextSteps

LEMMA Invariance == Spec => []Inv
BY InitInv, StepInv, PTL DEF Spec

-----------------------------------------------------------------------------
(* The theorems.                                                            *)

\* Counters, locks, codes and tokens have their types in every run, whatever
\* overlaps: a number stays within the wrong codes that were tried, and what a
\* request has written it has locked (two_factor_attempt_repository.py).
THEOREM TypeCorrect == Spec => []TypeOK
<1>1. Inv => TypeOK
  <2> SUFFICES ASSUME Inv
               PROVE  TypeOK
    OBVIOUS
  <2>1. TypeInv /\ Shape /\ Tried /\ Earned
    BY DEF Inv, TypeInv
  <2>2. ASSUME NEW s \in Scopes
        PROVE  calm[s] \in 0..wrong[s] /\ wrong[s] <= MaxWrong
    <3>1. calm[s] \in Nat /\ wrong[s] \in Nat /\ Failers(s) \in Nat /\ Cardinality(Judged) \in Nat
      BY <2>1, Counting, JudgedFinite DEF Shape
    <3>2. calm[s] + Failers(s) <= wrong[s] /\ wrong[s] + Cardinality(Judged) <= MaxWrong
      BY <2>1 DEF Earned, EarnedAt, Tried
    <3> QED BY <3>1, <3>2, Constants
  <2>3. \A r \in Requests : DOMAIN reqs[r].mine \subseteq {s \in Scopes : lock[s] = r}
    BY <2>1, Located
  <2> QED BY <2>1, <2>2, <2>3 DEF TypeOK, Shape
<1> QED BY <1>1, Invariance, PTL

\* Two second steps never wait for each other: record_failed and
\* reset_for_success take the rows of the token, the user and the address in
\* this order, so that the one a request waits for is further than it is.
THEOREM NoCircle == Spec => []NoStandoff
<1>1. Inv => NoStandoff
  <2> SUFFICES ASSUME Inv, NEW p \in Requests, Waits(p), \A r \in Requests : reqs[r].pc # "idle" => Waits(r)
               PROVE  FALSE
    BY DEF NoStandoff
  <2>1. TypeInv /\ Shape
    BY DEF Inv, TypeInv
  <2>2. ASSUME NEW r \in Requests, Waits(r)
        PROVE  /\ Second(r) /\ reqs[r].pc \in {"write", "reset"} /\ Past(r) = Before(r) /\ Here(r) \in Scopes
               /\ reqs[r].at \in {1, 2, 3} /\ reqs[r].token \in Tokens
               /\ reqs[r].at = 1 => Here(r) = reqs[r].token /\ Before(r) = {}
               /\ reqs[r].at = 2 => Here(r) = User /\ Before(r) = {reqs[r].token}
               /\ reqs[r].at = 3 => Here(r) \in Ips /\ Before(r) = {reqs[r].token, User}
    <3>1. reqs[r].pc \in {"write", "reset"} /\ Second(r) /\ reqs[r] \in Regs /\ Local(r)
      BY <2>1, <2>2 DEF Waits, Second, TypeInv, Shape
    <3>2. reqs[r].token \in Tokens /\ reqs[r].at \in 1..Len(ScopesOf(r)) /\ reqs[r].ip \in Ips \cup {None}
      BY <3>1 DEF Local, Regs
    <3>3. Here(r) \in Scopes
      BY <2>1, <3>1, Located
    <3> QED BY <3>1, <3>2, <3>3, Positions DEF Past, Before
  <2>3. ASSUME NEW r \in Requests, Waits(r)
        PROVE  \E q \in Requests : Waits(q) /\ Here(r) \in Before(q)
    <3>1. PICK s \in Scopes : s = Here(r)
      BY <2>2, <2>3
    <3>2. lock[s] \notin {None, r} /\ lock[s] \in {None} \cup Requests
      BY <2>1, <2>3, <3>1 DEF Waits, FreeFor, Shape
    <3>3. PICK q \in Requests : lock[s] = q
      BY <3>2
    <3>4. s \in Past(q) /\ reqs[q].pc # "idle"
      BY <2>1, <3>3 DEF TypeInv, HeldBy, Failing
    <3> QED BY <2>2, <3>1, <3>4
  <2>4. \A r \in Requests : Waits(r) => reqs[r].at # 3
    <3>1. ASSUME NEW r \in Requests, Waits(r), reqs[r].at = 3
          PROVE  FALSE
      <4>1. PICK q \in Requests : Waits(q) /\ Here(r) \in Before(q)
        BY <2>3, <3>1
      <4>2. Here(r) \in Ips /\ Before(q) \subseteq Tokens \cup {User}
        BY <2>2, <3>1, <4>1
      <4> QED BY <4>1, <4>2, Constants
    <3> QED BY <3>1
  <2>5. \A r \in Requests : Waits(r) => reqs[r].at # 2
    <3>1. ASSUME NEW r \in Requests, Waits(r), reqs[r].at = 2
          PROVE  FALSE
      <4>1. PICK q \in Requests : Waits(q) /\ Here(r) \in Before(q)
        BY <2>3, <3>1
      <4>2. Here(r) = User /\ Before(q) \subseteq {reqs[q].token} /\ reqs[q].token \in Tokens
        BY <2>2, <2>4, <3>1, <4>1
      <4> QED BY <4>1, <4>2, Constants
    <3> QED BY <3>1
  <2>6. PICK q \in Requests : Waits(q) /\ Here(p) \in Before(q)
    BY <2>3
  <2> QED BY <2>2, <2>4, <2>5, <2>6
<1> QED BY <1>1, Invariance, PTL

\* A first step that nothing overlaps leaves one good code, its own:
\* invalidate_user_codes has seen all the others.
THEOREM OneCode == Spec => []OneValidCode
<1>1. Inv => OneValidCode
  <2> SUFFICES ASSUME Inv
               PROVE  OneValidCode
    OBVIOUS
  <2> DEFINE G == {t \in Tokens : codes[t] = "valid" /\ issued[t] = "alone"}
  <2>1. \A t, u \in G : t = u
    BY DEF Inv, Mailed, Good
  <2>2. CASE G = {}
    BY <2>2, FS_EmptySet DEF OneValidCode
  <2>3. CASE G # {}
    <3>1. PICK t : G = {t}
      BY <2>1, <2>3
    <3>2. Cardinality(G) = 1
      BY <3>1, FS_Singleton
    <3> QED BY <3>2 DEF OneValidCode
  <2> QED BY <2>2, <2>3
<1> QED BY <1>1, Invariance, PTL

\* Of the wrong mailed codes that come in requests of their own at most
\* two_fa_max_attempts are tried, whatever else runs between them, since
\* is_blocked finds them all in the row (two_factor_service.py).
THEOREM LimitKept == Spec => []LimitHolds
<1>1. Inv => LimitHolds
  BY DEF Inv
<1> QED BY <1>1, Invariance, PTL

\* No interleaving of record_failed, reset_for_success and the end of a window
\* makes a counter higher than the wrong codes tried: nobody is shut out by
\* increments of a row that is gone.
THEOREM BlocksAreEarned == Spec => []BlockIsEarned
<1>1. Inv => BlockIsEarned
  <2> SUFFICES ASSUME Inv, NEW s \in Scopes, count[s] # None, count[s].fresh
               PROVE  count[s].n <= wrong[s]
    BY DEF BlockIsEarned
  <2>1. count[s].n + Failers(s) <= wrong[s]
    BY DEF Inv, Earned, EarnedAt
  <2>2. count[s] \in Counter /\ wrong[s] \in Nat
    BY DEF Inv, TypeInv, Shape
  <2>3. count[s].n \in Nat /\ Failers(s) \in Nat
    BY <2>2, Counting DEF Counter
  <2> QED BY <2>1, <2>2, <2>3
<1> QED BY <1>1, Invariance, PTL

\* A second step that nothing overlaps never completes a login with a token or
\* a mailed code that has completed one: consume and mark_as_used are in the
\* transaction that logs the user in.
THEOREM NeverReplayed == Spec => NoReplay
<1>1. ASSUME Inv, [Next]_vars
      PROVE  [\A r \in Requests : Done(r) /\ reqs[r].quiet =>
                /\ reqs[r].token \notin opened
                /\ factor = "email" => reqs[r].code \notin entered]_vars
  <2>1. ASSUME NEW r \in Requests, Done(r), reqs[r].quiet
        PROVE  reqs[r].token \notin opened /\ (factor = "email" => reqs[r].code \notin entered)
    <3>1. Second(r) /\ (factor = "email" => Accepted(r))
      BY <2>1 DEF Done, Second, Accepted
    <3> QED BY <2>1, <3>1, <1>1 DEF Inv, Spent, Redeemed
  <2> QED BY <2>1
<1>2. NoReplay <=> [][\A r \in Requests : Done(r) /\ reqs[r].quiet =>
                        /\ reqs[r].token \notin opened
                        /\ factor = "email" => reqs[r].code \notin entered]_vars
  BY DEF NoReplay
<1> QED BY <1>1, <1>2, Invariance, PTL DEF Spec

=============================================================================
