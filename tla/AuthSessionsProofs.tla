------------------------- MODULE AuthSessionsProofs -------------------------
(* Theorems about AuthSessions, for any number of requests, sessions and    *)
(* changes of the user row.                                                 *)
EXTENDS AuthSessions, FiniteSetTheorems, SequenceTheorems, TLAPS

-----------------------------------------------------------------------------
(* The inductive invariant.                                                 *)

Toks  == [ver : Nat, valid : BOOLEAN, out : BOOLEAN, sole : BOOLEAN]
Steps == {"idle", "user", "reissue", "kill", "commit", "allow", "session", "reuse", "uncache", "clear",
          "bump", "sessions", "password", "check", "lookup", "fetch", "store", "judge", "write", "mark"}
Regs  == [op : Ops \cup {"none"}, pc : Steps, token : Nat, seen : {NoUser} \cup Columns,
          kill : SUBSET Nat, known : SUBSET Nat, quiet : BOOLEAN]

\* What each variable ranges over.
Shape ==
  /\ user \in Columns /\ tokens \in Seq(Toks) /\ reqs \in [Requests -> Regs]
  /\ allow \subseteq Ids /\ missed \subseteq allow /\ revoked \subseteq Ids
  /\ cache = NoUser \/ (cache \in Columns /\ cache.active /\ ~cache.deleted)
  /\ flagged \in BOOLEAN /\ spoiled \subseteq {"role", "version"}

\* The steps at which a request holds the copy of the row it read.
HasRead(m) ==
  \/ m.op = "login" /\ m.pc \in {"kill", "commit"}
  \/ m.op = "refresh" /\ m.pc \in {"session", "commit"}
  \/ m.op \in {"change", "delete"} /\ m.pc \in {"kill", "commit"}
  \/ m.op = "authenticator" /\ m.pc = "bump"
  \/ m.op = "attempt" /\ m.pc = "mark"
  \/ m.op = "call" /\ m.pc \in {"store", "judge", "write"}

\* The steps at which a request works with a token that was issued.
HasToken(m) == m.op \in {"refresh", "logout", "call"} \/ (m.op \in Issuing /\ m.pc = "allow")

\* What a request knows.
Local(m, n) ==
  /\ m.pc = "idle" <=> m = Idle
  /\ m.token \in 0..n /\ m.kill \subseteq 1..n /\ m.known \subseteq 1..n
  /\ HasToken(m) => m.token \in 1..n
  /\ HasRead(m) => m.seen \in Columns
  /\ m.op = "call" /\ m.pc = "store" => m.seen.active /\ ~m.seen.deleted

\* Who has still to insert a session.
Inserting == {r \in Requests : reqs[r].op \in Issuing /\ reqs[r].pc # "allow"}

TypeInv ==
  /\ Shape
  /\ \A r \in Requests : Local(reqs[r], Len(tokens))
  /\ Len(tokens) + Cardinality(Inserting) <= MaxTokens

\* Nothing has overlapped a quiet request.
QuietAlone ==
  \A r, q \in Requests : reqs[r].quiet /\ reqs[r].pc # "idle" /\ q # r => reqs[q].pc = "idle"

\* A token is handed out once, by the request that issued it.
Handed ==
  /\ \A t \in allow : tokens[t].out
  /\ \A r \in Requests : reqs[r].op \in Issuing /\ reqs[r].pc = "allow" =>
       /\ ~tokens[reqs[r].token].out
       /\ \A q \in Requests : reqs[q].op \in Issuing /\ reqs[q].pc = "allow"
                                /\ reqs[q].token = reqs[r].token => q = r

\* What a revocation has achieved at its step.
Revokes(m) ==
  /\ m.op \in {"change", "delete"} /\ m.pc = "commit" => \A t \in m.known : tokens[t].valid => t \in m.kill
  /\ m.op \in {"change", "logout"} /\ m.pc \in {"uncache", "clear"} => \A t \in m.known : ~tokens[t].valid
  /\ m.op = "delete" /\ m.pc \in {"user", "kill", "commit"} => \A t \in m.known : t \in allow => t \in missed
  /\ m.op = "logout" => m.known = {m.token}

Revoking ==
  /\ \A t \in revoked : ~tokens[t].valid /\ (t \in allow => t \in missed) /\ tokens[t].out
  /\ \A r \in Requests : (\A t \in reqs[r].known : tokens[t].out) /\ Revokes(reqs[r])

\* The sessions of which there is one.
Soles == {t \in Ids : tokens[t].valid /\ tokens[t].sole}

\* What an undisturbed request is about to replace.
Replaces(m) ==
  m.quiet /\ m.pc = "commit" =>
    /\ m.op = "login" => \A t \in Soles : t \in m.kill
    /\ m.op = "refresh" => tokens[m.token].valid /\ m.token \in m.kill

OneSole ==
  /\ \A t, u \in Soles : t = u
  /\ \A r \in Requests : Replaces(reqs[r])

\* The copies of the user object that a profile update may come to write.
Copy(u) ==
  \/ cache # NoUser /\ u = cache
  \/ \E r \in Requests : reqs[r].op = "call" /\ reqs[r].pc \in {"store", "judge", "write"} /\ u = reqs[r].seen

\* No version is greater than that of the row.
Versions ==
  /\ \A u \in Columns : Copy(u) => u.ver <= user.ver
  /\ \A t \in Ids : tokens[t].ver <= user.ver
  /\ \A r \in Requests : HasRead(reqs[r]) => reqs[r].seen.ver <= user.ver

\* An undisturbed issue, between its read and its end.
Issues(m) ==
  m.quiet /\ m.op \in Issuing =>
    /\ HasRead(m) /\ m.op = "login" => ~user.deleted
    /\ HasRead(m) /\ ~user.deleted => m.seen.ver = user.ver
    /\ m.pc = "allow" /\ tokens[m.token].sole => tokens[m.token].ver = user.ver

\* The role was decided when the row came to version v: tokens in the allowlist
\* and calls past it are as new, unless the router has yet to clear it or a
\* removal missed them, and whatever copy is as new has that role.
Decided(v) ==
  /\ "role" \notin spoiled => \A u \in Columns : Copy(u) /\ u.ver >= v => u.role = user.role
  /\ \/ \E r \in Requests : reqs[r].op = "change" /\ reqs[r].pc \in {"uncache", "clear"}
     \/ \A t \in allow \ missed : tokens[t].sole => tokens[t].ver >= v
  /\ \A r \in Requests :
       /\ reqs[r].op = "call" /\ reqs[r].pc \notin {"check", "uncache"}
            /\ reqs[r].quiet /\ tokens[reqs[r].token].sole /\ reqs[r].token \notin missed
              => tokens[reqs[r].token].ver >= v
       /\ reqs[r].op = "call" /\ reqs[r].pc = "write" => tokens[reqs[r].token].ver = reqs[r].seen.ver

\* A deletion leaves no session that a rotation could go on from.
Deleting ==
  /\ user.deleted => Soles = {}
  /\ \A r \in Requests : reqs[r].op = "delete" =>
       /\ reqs[r].pc \in {"user", "kill", "commit"} => \A t \in allow \ missed : ~tokens[t].sole
       /\ reqs[r].pc = "commit" => \A t \in Soles : t \in reqs[r].kill

Deciding ==
  /\ Versions /\ Deleting
  /\ \A r \in Requests : Issues(reqs[r])
  /\ \E v \in 0..user.ver : Decided(v)

Inv ==
  /\ TypeInv /\ QuietAlone /\ Handed /\ Revoking /\ OneSole
  /\ "version" \notin spoiled => Deciding

-----------------------------------------------------------------------------
(* Requests and sessions, field by field.                                   *)

\* A request has gone on, and this is what it knows now.
Becomes(r, op, pc, token, seen, kill) ==
  /\ reqs' \in [Requests -> Regs]
  /\ \A q \in Requests \ {r} : reqs'[q] = reqs[q]
  /\ reqs'[r].op = op /\ reqs'[r].pc = pc /\ reqs'[r].token = token
  /\ reqs'[r].seen = seen /\ reqs'[r].kill = kill
  /\ reqs'[r].known = reqs[r].known /\ reqs'[r].quiet = reqs[r].quiet

\* A request has ended.
Stops(r) ==
  /\ reqs' \in [Requests -> Regs]
  /\ \A q \in Requests \ {r} : reqs'[q] = reqs[q]
  /\ reqs'[r] = Idle

LEMMA IdleFacts ==
  /\ Idle \in Regs /\ Idle.op = "none" /\ Idle.pc = "idle" /\ Idle.token = 0 /\ Idle.kill = {}
  /\ Idle.known = {} /\ Idle.quiet /\ Idle.seen = NoUser
BY DEF Idle, Regs, Steps

LEMMA GoesOn ==
  ASSUME reqs \in [Requests -> Regs], NEW r \in Requests, NEW s \in Steps, Goes(r, s)
  PROVE  Becomes(r, reqs[r].op, s, reqs[r].token, reqs[r].seen, reqs[r].kill)
<1>1. reqs[r] \in Regs /\ reqs' = [reqs EXCEPT ![r] = [reqs[r] EXCEPT !.pc = s]]
  BY DEF Goes
<1> DEFINE m == [reqs[r] EXCEPT !.pc = s]
<1>2. /\ m \in Regs /\ m.op = reqs[r].op /\ m.pc = s /\ m.token = reqs[r].token
      /\ m.seen = reqs[r].seen /\ m.kill = reqs[r].kill
      /\ m.known = reqs[r].known /\ m.quiet = reqs[r].quiet
  BY <1>1 DEF Regs
<1> HIDE DEF m
<1> QED BY <1>1, <1>2 DEF Becomes, m

LEMMA GoesWithRow ==
  ASSUME reqs \in [Requests -> Regs], NEW r \in Requests, NEW s \in Steps, NEW u \in Columns,
         \/ reqs' = [reqs EXCEPT ![r].pc = s, ![r].seen = u]
         \/ reqs' = [reqs EXCEPT ![r].seen = u, ![r].pc = s]
  PROVE  Becomes(r, reqs[r].op, s, reqs[r].token, u, reqs[r].kill)
<1> DEFINE m == reqs'[r]
<1>1. reqs[r] \in Regs /\ \A q \in Requests \ {r} : reqs'[q] = reqs[q]
  OBVIOUS
<1>2. /\ m \in Regs /\ m.op = reqs[r].op /\ m.pc = s /\ m.token = reqs[r].token
      /\ m.seen = u /\ m.kill = reqs[r].kill
      /\ m.known = reqs[r].known /\ m.quiet = reqs[r].quiet
  BY <1>1 DEF Regs
<1>3. reqs' \in [Requests -> Regs]
  <2>1. DOMAIN reqs' = Requests /\ \A q \in Requests : reqs'[q] \in Regs
    BY <1>1, <1>2
  <2> QED BY <2>1
<1> QED BY <1>1, <1>2, <1>3 DEF Becomes

LEMMA GoesWithKill ==
  ASSUME reqs \in [Requests -> Regs], NEW r \in Requests, NEW s \in Steps, NEW ts \in SUBSET Nat,
         reqs' = [reqs EXCEPT ![r].pc = s, ![r].kill = ts]
  PROVE  Becomes(r, reqs[r].op, s, reqs[r].token, reqs[r].seen, ts)
<1> DEFINE m == reqs'[r]
<1>1. reqs[r] \in Regs /\ \A q \in Requests \ {r} : reqs'[q] = reqs[q]
  OBVIOUS
<1>2. /\ m \in Regs /\ m.op = reqs[r].op /\ m.pc = s /\ m.token = reqs[r].token
      /\ m.seen = reqs[r].seen /\ m.kill = ts
      /\ m.known = reqs[r].known /\ m.quiet = reqs[r].quiet
  BY <1>1 DEF Regs
<1>3. reqs' \in [Requests -> Regs]
  <2>1. DOMAIN reqs' = Requests /\ \A q \in Requests : reqs'[q] \in Regs
    BY <1>1, <1>2
  <2> QED BY <2>1
<1> QED BY <1>1, <1>2, <1>3 DEF Becomes

LEMMA GoesWithToken ==
  ASSUME reqs \in [Requests -> Regs], NEW r \in Requests, NEW s \in Steps, NEW t \in Nat,
         reqs' = [reqs EXCEPT ![r].pc = s, ![r].token = t]
  PROVE  Becomes(r, reqs[r].op, s, t, reqs[r].seen, reqs[r].kill)
<1> DEFINE m == reqs'[r]
<1>1. reqs[r] \in Regs /\ \A q \in Requests \ {r} : reqs'[q] = reqs[q]
  OBVIOUS
<1>2. /\ m \in Regs /\ m.op = reqs[r].op /\ m.pc = s /\ m.token = t
      /\ m.seen = reqs[r].seen /\ m.kill = reqs[r].kill
      /\ m.known = reqs[r].known /\ m.quiet = reqs[r].quiet
  BY <1>1 DEF Regs
<1>3. reqs' \in [Requests -> Regs]
  <2>1. DOMAIN reqs' = Requests /\ \A q \in Requests : reqs'[q] \in Regs
    BY <1>1, <1>2
  <2> QED BY <2>1
<1> QED BY <1>1, <1>2, <1>3 DEF Becomes

LEMMA GoesAsOther ==
  ASSUME reqs \in [Requests -> Regs], NEW r \in Requests, NEW s \in Steps, NEW o \in Ops,
         reqs' = [reqs EXCEPT ![r].op = o, ![r].pc = s]
  PROVE  Becomes(r, o, s, reqs[r].token, reqs[r].seen, reqs[r].kill)
<1> DEFINE m == reqs'[r]
<1>1. reqs[r] \in Regs /\ \A q \in Requests \ {r} : reqs'[q] = reqs[q]
  OBVIOUS
<1>2. /\ m \in Regs /\ m.op = o /\ m.pc = s /\ m.token = reqs[r].token
      /\ m.seen = reqs[r].seen /\ m.kill = reqs[r].kill
      /\ m.known = reqs[r].known /\ m.quiet = reqs[r].quiet
  BY <1>1 DEF Regs
<1>3. reqs' \in [Requests -> Regs]
  <2>1. DOMAIN reqs' = Requests /\ \A q \in Requests : reqs'[q] \in Regs
    BY <1>1, <1>2
  <2> QED BY <2>1
<1> QED BY <1>1, <1>2, <1>3 DEF Becomes

LEMMA EndsStops ==
  ASSUME reqs \in [Requests -> Regs], NEW r \in Requests, Ends(r)
  PROVE  Stops(r)
BY IdleFacts DEF Ends, Stops

\* The other requests are told that something overlaps them.
LEMMA DisturbedFacts ==
  ASSUME reqs \in [Requests -> Regs]
  PROVE  /\ Disturbed \in [Requests -> Regs]
         /\ \A q \in Requests :
              /\ Disturbed[q].op = reqs[q].op /\ Disturbed[q].pc = reqs[q].pc
              /\ Disturbed[q].token = reqs[q].token /\ Disturbed[q].seen = reqs[q].seen
              /\ Disturbed[q].kill = reqs[q].kill /\ Disturbed[q].known = reqs[q].known
              /\ Disturbed[q].quiet = (reqs[q].quiet /\ reqs[q].pc = "idle")
<1>1. ASSUME NEW q \in Requests
      PROVE  /\ Disturbed[q] \in Regs
             /\ Disturbed[q].op = reqs[q].op /\ Disturbed[q].pc = reqs[q].pc
             /\ Disturbed[q].token = reqs[q].token /\ Disturbed[q].seen = reqs[q].seen
             /\ Disturbed[q].kill = reqs[q].kill /\ Disturbed[q].known = reqs[q].known
             /\ Disturbed[q].quiet = (reqs[q].quiet /\ reqs[q].pc = "idle")
  <2>1. reqs[q] \in Regs /\ Disturbed[q] = [reqs[q] EXCEPT !.quiet = @ /\ reqs[q].pc = "idle"]
    BY DEF Disturbed
  <2> QED BY <2>1 DEF Regs
<1>2. Disturbed \in [Requests -> Regs]
  BY <1>1 DEF Disturbed
<1> QED BY <1>1, <1>2

\* The sessions are those there were, some perhaps no longer valid.
Fewer(ts) ==
  /\ tokens' \in Seq(Toks) /\ Len(tokens') = Len(tokens)
  /\ \A t \in Ids : /\ tokens'[t].ver = tokens[t].ver /\ tokens'[t].out = tokens[t].out
                    /\ tokens'[t].sole = tokens[t].sole
                    /\ tokens'[t].valid <=> tokens[t].valid /\ t \notin ts

LEMMA KilledFacts ==
  ASSUME tokens \in Seq(Toks), NEW ts
  PROVE  /\ Killed(ts) \in Seq(Toks) /\ Len(Killed(ts)) = Len(tokens)
         /\ \A t \in Ids : /\ Killed(ts)[t].ver = tokens[t].ver /\ Killed(ts)[t].out = tokens[t].out
                           /\ Killed(ts)[t].sole = tokens[t].sole
                           /\ Killed(ts)[t].valid <=> tokens[t].valid /\ t \notin ts
<1>1. ASSUME NEW t \in Ids
      PROVE  /\ Killed(ts)[t] \in Toks
             /\ Killed(ts)[t].ver = tokens[t].ver /\ Killed(ts)[t].out = tokens[t].out
             /\ Killed(ts)[t].sole = tokens[t].sole
             /\ Killed(ts)[t].valid <=> tokens[t].valid /\ t \notin ts
  <2>1. tokens[t] \in Toks /\ Killed(ts)[t] = [tokens[t] EXCEPT !.valid = @ /\ t \notin ts]
    BY DEF Ids, Killed
  <2> QED BY <2>1 DEF Toks
<1>2. Killed(ts) \in [1..Len(tokens) -> Toks] /\ Len(tokens) \in Nat
  BY <1>1 DEF Killed, Ids
<1>3. Killed(ts) \in Seq(Toks) /\ Len(Killed(ts)) = Len(tokens)
  BY <1>2
<1> QED BY <1>1, <1>3

LEMMA KillsFewer ==
  ASSUME tokens \in Seq(Toks), NEW ts, tokens' = Killed(ts)
  PROVE  Fewer(ts)
BY KilledFacts DEF Fewer

\* One session more.
LEMMA OneMore ==
  ASSUME tokens \in Seq(Toks), NEW ts, NEW x \in Toks, tokens' = Append(Killed(ts), x)
  PROVE  /\ tokens' \in Seq(Toks) /\ Len(tokens') = Len(tokens) + 1 /\ tokens'[Len(tokens) + 1] = x
         /\ \A t \in Ids : /\ tokens'[t].ver = tokens[t].ver /\ tokens'[t].out = tokens[t].out
                           /\ tokens'[t].sole = tokens[t].sole
                           /\ tokens'[t].valid <=> tokens[t].valid /\ t \notin ts
<1>1. /\ Killed(ts) \in Seq(Toks) /\ Len(Killed(ts)) = Len(tokens)
  BY KilledFacts
<1>2. /\ tokens' \in Seq(Toks) /\ Len(tokens') = Len(tokens) + 1 /\ tokens'[Len(tokens) + 1] = x
      /\ \A t \in 1..Len(tokens) : tokens'[t] = Killed(ts)[t]
  BY <1>1
<1> QED BY <1>2, KilledFacts DEF Ids

\* One session is in its client's hands.
LEMMA OneOut ==
  ASSUME tokens \in Seq(Toks), NEW i \in Ids, NEW b \in BOOLEAN,
         tokens' = [tokens EXCEPT ![i] = [tokens[i] EXCEPT !.out = TRUE, !.sole = @ /\ b]]
  PROVE  /\ tokens' \in Seq(Toks) /\ Len(tokens') = Len(tokens)
         /\ \A t \in Ids : /\ tokens'[t].ver = tokens[t].ver /\ tokens'[t].valid = tokens[t].valid
                           /\ tokens'[t].out <=> tokens[t].out \/ t = i
                           /\ tokens'[t].sole <=> tokens[t].sole /\ (t = i => b)
<1> DEFINE x == [tokens[i] EXCEPT !.out = TRUE, !.sole = @ /\ b]
<1>1. tokens[i] \in Toks /\ \A t \in Ids : tokens[t] \in Toks
  BY DEF Ids
<1>2. /\ x \in Toks /\ x.ver = tokens[i].ver /\ x.valid = tokens[i].valid /\ x.out
      /\ x.sole = (tokens[i].sole /\ b)
  BY <1>1 DEF Toks
<1>3. tokens' = [tokens EXCEPT ![i] = x]
  OBVIOUS
<1> HIDE DEF x
<1>4. /\ tokens' \in Seq(Toks) /\ Len(tokens') = Len(tokens)
      /\ \A t \in 1..Len(tokens) : tokens'[t] = IF t = i THEN x ELSE tokens[t]
  BY <1>2, <1>3, ExceptSeq DEF Ids
<1>5. ASSUME NEW t \in Ids
      PROVE  /\ tokens'[t].ver = tokens[t].ver /\ tokens'[t].valid = tokens[t].valid
             /\ tokens'[t].out <=> tokens[t].out \/ t = i
             /\ tokens'[t].sole <=> tokens[t].sole /\ (t = i => b)
  BY <1>1, <1>2, <1>4 DEF Ids, Toks
<1> QED BY <1>4, <1>5

-----------------------------------------------------------------------------
(* What each step does, field by field.                                     *)

LEMMA LiveSet == Live \in SUBSET Nat /\ Live \subseteq Ids
BY DEF Live, Ids

LEMMA LoginUserFacts ==
  ASSUME Shape, NEW r \in Requests, LoginUser(r)
  PROVE  /\ UNCHANGED <<user, tokens, allow, missed, cache, flagged, revoked, spoiled>>
         /\ reqs[r].op = "login" /\ reqs[r].pc \in {"user", "reissue"}
         /\ Stops(r) \/ (~user.deleted /\ Becomes(r, "login", "kill", reqs[r].token, user, reqs[r].kill))
BY GoesWithRow, EndsStops DEF LoginUser, Shape, Steps, store, Present

LEMMA LoginKillFacts ==
  ASSUME Shape, NEW r \in Requests, LoginKill(r)
  PROVE  /\ UNCHANGED <<user, tokens, allow, missed, cache, flagged, revoked, spoiled>>
         /\ reqs[r].op = "login" /\ reqs[r].pc = "kill"
         /\ Becomes(r, "login", "commit", reqs[r].token, reqs[r].seen, Live)
BY GoesWithKill, LiveSet DEF LoginKill, Shape, Steps, store, At

LEMMA RefreshSessionFacts ==
  ASSUME Shape, NEW r \in Requests, RefreshSession(r)
  PROVE  /\ UNCHANGED <<user, tokens, allow, missed, cache, flagged, revoked, spoiled>>
         /\ reqs[r].op = "refresh" /\ reqs[r].pc = "session"
         /\ \/ Stops(r)
            \/ tokens[reqs[r].token].valid /\ Becomes(r, "refresh", "commit", reqs[r].token, reqs[r].seen, {reqs[r].token})
            \/ Becomes(r, "refresh", "reuse", reqs[r].token, reqs[r].seen, Live)
<1>1. {reqs[r].token} \in SUBSET Nat
  BY DEF Shape, Regs
<1>2. reqs \in [Requests -> Regs] /\ "commit" \in Steps /\ "reuse" \in Steps
  BY DEF Shape, Steps
<1>3. CASE tokens[reqs[r].token].valid
  BY <1>1, <1>2, <1>3, GoesWithKill DEF RefreshSession, store, At, Rotated
<1>4. CASE ~tokens[reqs[r].token].valid
  BY <1>2, <1>4, GoesWithKill, EndsStops, LiveSet DEF RefreshSession, store, At
<1> QED BY <1>3, <1>4

LEMMA RefreshReuseFacts ==
  ASSUME Shape, NEW r \in Requests, RefreshReuse(r)
  PROVE  /\ UNCHANGED <<user, allow, missed, cache, flagged, revoked, spoiled>>
         /\ reqs[r].op = "refresh" /\ reqs[r].pc = "reuse"
         /\ Stops(r) /\ Fewer(reqs[r].kill)
BY EndsStops, KillsFewer DEF RefreshReuse, Shape, Steps, At

LEMMA LogoutSessionFacts ==
  ASSUME Shape, NEW r \in Requests, LogoutSession(r)
  PROVE  /\ UNCHANGED <<user, allow, missed, cache, flagged, revoked, spoiled>>
         /\ reqs[r].op = "logout" /\ reqs[r].pc = "session"
         /\ Becomes(r, "logout", "clear", reqs[r].token, reqs[r].seen, reqs[r].kill)
         /\ Fewer({reqs[r].token})
BY GoesOn, KillsFewer DEF LogoutSession, Shape, Steps, At

LEMMA LogoutClearFacts ==
  ASSUME Shape, NEW r \in Requests, LogoutClear(r)
  PROVE  /\ UNCHANGED <<user, tokens, cache, flagged, spoiled>>
         /\ reqs[r].op = "logout" /\ reqs[r].pc = "clear"
         /\ allow' \subseteq allow /\ missed' = allow' /\ revoked' = revoked \cup reqs[r].known
         /\ Stops(r)
BY EndsStops DEF LogoutClear, Shape, Steps, At, Removal

LEMMA LogoutFailsFacts ==
  ASSUME Shape, NEW r \in Requests, LogoutFails(r)
  PROVE  /\ UNCHANGED <<user, tokens, cache, flagged, revoked, spoiled>>
         /\ reqs[r].op = "logout" /\ reqs[r].pc = "session"
         /\ allow' \subseteq allow /\ missed' = allow' /\ Stops(r)
BY EndsStops DEF LogoutFails, Shape, Steps, At, Removal

LEMMA ChangeKillFacts ==
  ASSUME Shape, NEW r \in Requests, ChangeKill(r)
  PROVE  /\ UNCHANGED <<user, tokens, allow, missed, cache, flagged, revoked, spoiled>>
         /\ reqs[r].op \in {"change", "delete"} /\ reqs[r].pc = "kill"
         /\ Becomes(r, reqs[r].op, "commit", reqs[r].token, reqs[r].seen, Live)
BY GoesWithKill, LiveSet DEF ChangeKill, Shape, Steps, store, At, KillAll

LEMMA UpdateUncacheFacts ==
  ASSUME Shape, NEW r \in Requests, UpdateUncache(r)
  PROVE  /\ UNCHANGED <<user, tokens, allow, missed, flagged, revoked, spoiled>>
         /\ reqs[r].op = "change" /\ reqs[r].pc = "uncache"
         /\ cache' = NoUser
         /\ Becomes(r, "change", "clear", reqs[r].token, reqs[r].seen, reqs[r].kill)
BY GoesOn DEF UpdateUncache, Shape, Steps, At

LEMMA UpdateClearFacts ==
  ASSUME Shape, NEW r \in Requests, UpdateClear(r)
  PROVE  /\ UNCHANGED <<user, tokens, cache, spoiled>>
         /\ reqs[r].op = "change" /\ reqs[r].pc = "clear"
         /\ allow' \subseteq allow /\ missed' = allow' /\ flagged' \in {flagged, TRUE}
         /\ revoked' \in {revoked, revoked \cup reqs[r].known}
         /\ Stops(r)
BY EndsStops DEF UpdateClear, Shape, Steps, At, Removal

LEMMA DeleteClearFacts ==
  ASSUME Shape, NEW r \in Requests, DeleteClear(r)
  PROVE  /\ UNCHANGED <<user, tokens, cache, flagged, revoked, spoiled>>
         /\ reqs[r].op = "delete" /\ reqs[r].pc = "clear"
         /\ allow' \subseteq allow /\ missed' = allow'
         /\ Becomes(r, "delete", "user", reqs[r].token, reqs[r].seen, reqs[r].kill)
BY GoesOn DEF DeleteClear, Shape, Steps, At, Removal

LEMMA DeleteCommitFacts ==
  ASSUME Shape, NEW r \in Requests, DeleteCommit(r)
  PROVE  /\ UNCHANGED <<allow, missed, cache, flagged, spoiled>>
         /\ reqs[r].op = "delete" /\ reqs[r].pc = "commit"
         /\ user' = [ver |-> user.ver + 1, role |-> "user", active |-> FALSE, deleted |-> TRUE]
         /\ Stops(r) /\ Fewer(reqs[r].kill) /\ revoked' = revoked \cup reqs[r].known
BY EndsStops, KillsFewer DEF DeleteCommit, Shape, Steps, At

LEMMA AuthenticatorBumpFacts ==
  ASSUME Shape, NEW r \in Requests, AuthenticatorBump(r)
  PROVE  /\ UNCHANGED <<tokens, allow, missed, cache, flagged, revoked>>
         /\ reqs[r].op = "authenticator" /\ reqs[r].pc = "bump"
         /\ user' = [user EXCEPT !.ver = reqs[r].seen.ver + 1]
         /\ spoiled' = IF reqs[r].seen.ver # user.ver THEN spoiled \cup {"version"} ELSE spoiled
         /\ Becomes(r, "authenticator", "sessions", reqs[r].token, reqs[r].seen, reqs[r].kill)
BY GoesOn DEF AuthenticatorBump, Shape, Steps, At

LEMMA AuthenticatorKillFacts ==
  ASSUME Shape, NEW r \in Requests, AuthenticatorKill(r)
  PROVE  /\ UNCHANGED <<user, allow, missed, cache, flagged, revoked, spoiled>>
         /\ reqs[r].op = "authenticator" /\ reqs[r].pc = "sessions"
         /\ Stops(r) /\ Fewer(Live)
BY EndsStops, KillsFewer DEF AuthenticatorKill, Shape, Steps, At

LEMMA InitialPasswordFacts ==
  ASSUME Shape, NEW r \in Requests, InitialPassword(r)
  PROVE  /\ UNCHANGED <<tokens, allow, missed, cache, flagged, revoked, spoiled>>
         /\ reqs[r].op = "initial" /\ reqs[r].pc = "password"
         /\ user' = [user EXCEPT !.ver = @ + 1]
         /\ Becomes(r, "initial", "uncache", reqs[r].token, reqs[r].seen, reqs[r].kill)
BY GoesOn DEF InitialPassword, Shape, Steps, At

LEMMA InitialUncacheFacts ==
  ASSUME Shape, NEW r \in Requests, InitialUncache(r)
  PROVE  /\ UNCHANGED <<user, tokens, allow, missed, flagged, revoked, spoiled>>
         /\ reqs[r].op = "initial" /\ reqs[r].pc = "uncache"
         /\ cache' = NoUser
         /\ Len(tokens) + InFlight(Issuing) < MaxTokens
         /\ Becomes(r, "login", "reissue", reqs[r].token, reqs[r].seen, reqs[r].kill)
BY GoesAsOther DEF InitialUncache, Shape, Steps, At, Ops, Issuing

LEMMA CallCheckFacts ==
  ASSUME Shape, NEW r \in Requests, CallCheck(r)
  PROVE  /\ UNCHANGED <<user, tokens, allow, missed, cache, flagged, revoked, spoiled>>
         /\ reqs[r].op = "call" /\ reqs[r].pc = "check"
         /\ Stops(r) \/ (reqs[r].token \in allow /\ Becomes(r, "call", "lookup", reqs[r].token, reqs[r].seen, reqs[r].kill))
BY GoesOn, EndsStops DEF CallCheck, Shape, Steps, store, At

LEMMA CallLookupFacts ==
  ASSUME Shape, NEW r \in Requests, CallLookup(r)
  PROVE  /\ UNCHANGED <<user, tokens, allow, missed, cache, flagged, revoked, spoiled>>
         /\ reqs[r].op = "call" /\ reqs[r].pc = "lookup"
         /\ \/ cache # NoUser /\ Becomes(r, "call", "judge", reqs[r].token, cache, reqs[r].kill)
            \/ Becomes(r, "call", "fetch", reqs[r].token, reqs[r].seen, reqs[r].kill)
BY GoesOn, GoesWithRow DEF CallLookup, Shape, Steps, store, At

LEMMA CallFetchFacts ==
  ASSUME Shape, NEW r \in Requests, CallFetch(r)
  PROVE  /\ UNCHANGED <<user, tokens, allow, missed, cache, flagged, revoked, spoiled>>
         /\ reqs[r].op = "call" /\ reqs[r].pc = "fetch"
         /\ Stops(r) \/ (user.active /\ ~user.deleted /\ Becomes(r, "call", "store", reqs[r].token, user, reqs[r].kill))
BY EndsStops, GoesWithRow DEF CallFetch, Shape, Steps, store, At, Found, Present

LEMMA CallStoreFacts ==
  ASSUME Shape, NEW r \in Requests, CallStore(r)
  PROVE  /\ UNCHANGED <<user, tokens, allow, missed, flagged, revoked, spoiled>>
         /\ reqs[r].op = "call" /\ reqs[r].pc = "store"
         /\ cache' = reqs[r].seen
         /\ Becomes(r, "call", "judge", reqs[r].token, reqs[r].seen, reqs[r].kill)
BY GoesOn DEF CallStore, Shape, Steps, At

LEMMA CallJudgeFacts ==
  ASSUME Shape, NEW r \in Requests, CallJudge(r)
  PROVE  /\ UNCHANGED <<user, tokens, allow, missed, cache, flagged, revoked, spoiled>>
         /\ reqs[r].op = "call" /\ reqs[r].pc = "judge"
         /\ Stops(r) \/ (tokens[reqs[r].token].ver = reqs[r].seen.ver /\ Becomes(r, "call", "write", reqs[r].token, reqs[r].seen, reqs[r].kill))
BY GoesOn, EndsStops DEF CallJudge, Shape, Steps, store, At, SameVersion

LEMMA ProfileWriteFacts ==
  ASSUME Shape, NEW r \in Requests, ProfileWrite(r)
  PROVE  /\ UNCHANGED <<tokens, allow, missed, cache, flagged, revoked>>
         /\ reqs[r].op = "call" /\ reqs[r].pc = "write"
         /\ user' = [user EXCEPT !.role = reqs[r].seen.role, !.active = reqs[r].seen.active]
         /\ spoiled' = IF ~Undisturbed(r) /\ user'.role # user.role THEN spoiled \cup {"role"} ELSE spoiled
         /\ Becomes(r, "call", "uncache", reqs[r].token, reqs[r].seen, reqs[r].kill)
BY GoesOn DEF ProfileWrite, Shape, Steps, At

LEMMA ProfileUncacheFacts ==
  ASSUME Shape, NEW r \in Requests, ProfileUncache(r)
  PROVE  /\ UNCHANGED <<user, tokens, allow, missed, flagged, revoked, spoiled>>
         /\ reqs[r].op = "call" /\ reqs[r].pc = "uncache"
         /\ cache' = NoUser
         /\ Stops(r)
BY EndsStops DEF ProfileUncache, Shape, Steps, At

\* A refreshed token's version against the one of the row, which is 0 when the
\* row is gone.
LEMMA RefreshUserFacts ==
  ASSUME Shape, NEW r \in Requests, RefreshUser(r)
  PROVE  /\ UNCHANGED <<user, tokens, allow, missed, cache, flagged, revoked, spoiled>>
         /\ reqs[r].op = "refresh" /\ reqs[r].pc = "user"
         /\ \/ Stops(r)
            \/ \E u \in Columns :
                 /\ u.ver = IF user.deleted THEN 0 ELSE user.ver
                 /\ Becomes(r, "refresh", "session", reqs[r].token, u, reqs[r].kill)
<1> DEFINE u == [user EXCEPT !.ver = CurrentVersion]
<1>1. u \in Columns /\ u.ver = IF user.deleted THEN 0 ELSE user.ver
  BY DEF Shape, Columns, CurrentVersion, Present
<1>2. reqs \in [Requests -> Regs] /\ "session" \in Steps
  BY DEF Shape, Steps
<1>3. CASE tokens[reqs[r].token].ver = CurrentVersion
  <2>1. reqs' = [reqs EXCEPT ![r].pc = "session", ![r].seen = u] /\ reqs[r].op = "refresh"
    BY <1>3 DEF RefreshUser, At
  <2> HIDE DEF u
  <2>2. Becomes(r, "refresh", "session", reqs[r].token, u, reqs[r].kill)
    BY <1>1, <1>2, <2>1, GoesWithRow
  <2> QED BY <1>1, <2>2 DEF RefreshUser, store, At
<1>4. CASE tokens[reqs[r].token].ver # CurrentVersion
  BY <1>2, <1>4, EndsStops DEF RefreshUser, store, At
<1> QED BY <1>3, <1>4

LEMMA ChangeUserFacts ==
  ASSUME Shape, NEW r \in Requests, ChangeUser(r)
  PROVE  /\ UNCHANGED <<user, tokens, allow, missed, cache, flagged, revoked, spoiled>>
         /\ reqs[r].op \in {"change", "delete", "authenticator", "initial"} /\ reqs[r].pc = "user"
         /\ \/ Stops(r)
            \/ \E s \in {"kill", "bump", "password"} :
                 /\ s = "kill" <=> reqs[r].op \in {"change", "delete"}
                 /\ s = "bump" <=> reqs[r].op = "authenticator"
                 /\ Becomes(r, reqs[r].op, s, reqs[r].token, user, reqs[r].kill)
<1>1. reqs \in [Requests -> Regs] /\ user \in Columns /\ {"kill", "bump", "password"} \subseteq Steps
  BY DEF Shape, Steps
<1> DEFINE s == CASE reqs[r].op = "authenticator" -> "bump"
                  [] reqs[r].op = "initial"       -> "password"
                  [] OTHER                        -> "kill"
<1>2. /\ reqs[r].op = "authenticator" => s = "bump"
      /\ reqs[r].op = "initial" => s = "password"
      /\ reqs[r].op \notin {"authenticator", "initial"} => s = "kill"
  OBVIOUS
<1>3. s \in {"kill", "bump", "password"}
  BY <1>2
<1>4. CASE Present
  <2>1. reqs' = [reqs EXCEPT ![r].seen = user, ![r].pc = s] /\ reqs[r].op \in {"change", "delete", "authenticator", "initial"}
    BY <1>4 DEF ChangeUser
  <2> HIDE DEF s
  <2>2. Becomes(r, reqs[r].op, s, reqs[r].token, user, reqs[r].kill)
    BY <1>1, <1>3, <2>1, GoesWithRow
  <2> QED BY <1>2, <1>3, <2>1, <2>2 DEF ChangeUser, store
<1>5. CASE ~Present
  BY <1>1, <1>5, EndsStops DEF ChangeUser, store
<1> QED BY <1>4, <1>5

LEMMA UpdateCommitFacts ==
  ASSUME Shape, NEW r \in Requests, UpdateCommit(r), reqs[r].seen \in Columns
  PROVE  /\ UNCHANGED <<allow, missed, cache, flagged, revoked>>
         /\ reqs[r].op = "change" /\ reqs[r].pc = "commit"
         /\ Fewer(reqs[r].kill) /\ spoiled' = spoiled \ {"role"}
         /\ user' \in Columns /\ user'.ver = user.ver + 1 /\ user'.deleted = user.deleted
         /\ Becomes(r, "change", "uncache", reqs[r].token, reqs[r].seen, reqs[r].kill)
<1>1. (CHOOSE x \in Roles : x # reqs[r].seen.role) \in Roles
  BY DEF Roles
<1>2. user' \in Columns /\ user'.ver = user.ver + 1 /\ user'.deleted = user.deleted
  <2> DEFINE seen == reqs[r].seen
             other == CHOOSE x \in Roles : x # seen.role
  <2>1. user \in Columns /\ seen \in Columns /\ other \in Roles
    BY <1>1 DEF Shape
  <2>2. seen.active \in BOOLEAN /\ seen.role \in Roles /\ (~seen.active) \in BOOLEAN
    BY <2>1 DEF Columns
  <2>3. user.ver + 1 \in Nat
    BY <2>1 DEF Columns
  <2>4. PICK n \in Nat, b \in BOOLEAN, o \in Roles :
          /\ n = user.ver + 1
          /\ \/ user' = [user EXCEPT !.ver = n, !.active = b, !.role = o]
             \/ user' = [user EXCEPT !.ver = n, !.role = o, !.active = b]
    BY <2>1, <2>2, <2>3 DEF UpdateCommit
  <2> HIDE DEF seen, other
  <2>5. user' \in Columns /\ user'.ver = n /\ user'.deleted = user.deleted
    BY <2>1, <2>4 DEF Columns
  <2> QED BY <2>4, <2>5
<1> QED BY <1>2, GoesOn, KillsFewer DEF UpdateCommit, At, Shape, Steps

\* The session an issue inserts, and the request that will hand it out.
LEMMA IssueCommitFacts ==
  ASSUME Shape, NEW r \in Requests, IssueCommit(r), reqs[r].seen \in Columns,
         HasToken(reqs[r]) => reqs[r].token \in Ids
  PROVE  /\ UNCHANGED <<user, allow, missed, cache, flagged, revoked, spoiled>>
         /\ reqs[r].op \in Issuing /\ reqs[r].pc = "commit"
         /\ Becomes(r, reqs[r].op, "allow", Len(tokens) + 1, reqs[r].seen, reqs[r].kill)
         /\ tokens' \in Seq(Toks) /\ Len(tokens') = Len(tokens) + 1
         /\ tokens'[Len(tokens) + 1].ver = reqs[r].seen.ver /\ ~tokens'[Len(tokens) + 1].out
         /\ tokens'[Len(tokens) + 1].valid
         /\ tokens'[Len(tokens) + 1].sole <=>
               reqs[r].quiet /\ (reqs[r].op = "refresh" => tokens[reqs[r].token].sole)
         /\ \A t \in Ids : /\ tokens'[t].ver = tokens[t].ver /\ tokens'[t].out = tokens[t].out
                           /\ tokens'[t].sole = tokens[t].sole
                           /\ tokens'[t].valid <=> tokens[t].valid /\ t \notin reqs[r].kill
<1> DEFINE x == [ver |-> reqs[r].seen.ver, valid |-> TRUE, out |-> FALSE,
                 sole |-> reqs[r].quiet /\ (reqs[r].op = "refresh" => tokens[reqs[r].token].sole)]
<1>1. reqs \in [Requests -> Regs] /\ reqs[r] \in Regs /\ tokens \in Seq(Toks)
  BY DEF Shape
<1>2. reqs[r].op = "refresh" => tokens[reqs[r].token].sole \in BOOLEAN
  <2>1. reqs[r].op = "refresh" => reqs[r].token \in 1..Len(tokens)
    BY DEF HasToken, Ids
  <2>2. \A t \in 1..Len(tokens) : tokens[t] \in Toks
    BY <1>1
  <2> QED BY <2>1, <2>2 DEF Toks
<1>3. x \in Toks
  BY <1>1, <1>2 DEF Toks, Regs, Columns
<1>4. x.ver = reqs[r].seen.ver /\ x.valid /\ ~x.out
      /\ x.sole = (reqs[r].quiet /\ (reqs[r].op = "refresh" => tokens[reqs[r].token].sole))
  OBVIOUS
<1>5. tokens' = Append(Killed(reqs[r].kill), x)
  BY DEF IssueCommit
<1> HIDE DEF x
<1>6. Becomes(r, reqs[r].op, "allow", Len(tokens) + 1, reqs[r].seen, reqs[r].kill)
  <2>1. Len(tokens) + 1 \in Nat /\ "allow" \in Steps
    BY <1>1 DEF Steps
  <2> QED BY <1>1, <2>1, GoesWithToken DEF IssueCommit
<1>7. /\ tokens' \in Seq(Toks) /\ Len(tokens') = Len(tokens) + 1 /\ tokens'[Len(tokens) + 1] = x
      /\ \A t \in Ids : /\ tokens'[t].ver = tokens[t].ver /\ tokens'[t].out = tokens[t].out
                        /\ tokens'[t].sole = tokens[t].sole
                        /\ tokens'[t].valid <=> tokens[t].valid /\ t \notin reqs[r].kill
  BY <1>1, <1>3, <1>5, OneMore
<1> QED BY <1>4, <1>6, <1>7 DEF IssueCommit

LEMMA IssueAllowFacts ==
  ASSUME Shape, NEW r \in Requests, IssueAllow(r), reqs[r].token \in Ids
  PROVE  /\ UNCHANGED <<user, missed, cache, flagged, revoked, spoiled>>
         /\ reqs[r].op \in Issuing /\ reqs[r].pc = "allow"
         /\ Stops(r) /\ allow' = allow \cup {reqs[r].token}
         /\ tokens' \in Seq(Toks) /\ Len(tokens') = Len(tokens)
         /\ \A t \in Ids : /\ tokens'[t].ver = tokens[t].ver /\ tokens'[t].valid = tokens[t].valid
                           /\ tokens'[t].out <=> tokens[t].out \/ t = reqs[r].token
                           /\ tokens'[t].sole <=> tokens[t].sole /\ (t = reqs[r].token => reqs[r].quiet)
<1>1. reqs[r].quiet \in BOOLEAN /\ reqs \in [Requests -> Regs] /\ tokens \in Seq(Toks)
  BY DEF Shape, Regs
<1>2. /\ UNCHANGED <<user, missed, cache, flagged, revoked, spoiled>> /\ Ends(r)
      /\ reqs[r].op \in Issuing /\ reqs[r].pc = "allow" /\ allow' = allow \cup {reqs[r].token}
  BY DEF IssueAllow
<1>3. PICK i \in Ids, b \in BOOLEAN : i = reqs[r].token /\ b = reqs[r].quiet
  BY <1>1
<1>4. tokens' = [tokens EXCEPT ![i] = [tokens[i] EXCEPT !.out = TRUE, !.sole = @ /\ b]]
  BY <1>3 DEF IssueAllow
<1>5. /\ tokens' \in Seq(Toks) /\ Len(tokens') = Len(tokens)
      /\ \A t \in Ids : /\ tokens'[t].ver = tokens[t].ver /\ tokens'[t].valid = tokens[t].valid
                        /\ tokens'[t].out <=> tokens[t].out \/ t = i
                        /\ tokens'[t].sole <=> tokens[t].sole /\ (t = i => b)
  BY <1>1, <1>4, OneOut
<1> QED BY <1>1, <1>2, <1>3, <1>5, EndsStops

LEMMA AttemptReadFacts ==
  ASSUME Shape, NEW r \in Requests, AttemptRead(r)
  PROVE  /\ UNCHANGED <<user, tokens, allow, missed, cache, flagged, revoked, spoiled>>
         /\ reqs[r].op = "attempt" /\ reqs[r].pc = "user"
         /\ Stops(r) \/ Becomes(r, "attempt", "mark", reqs[r].token, user, reqs[r].kill)
BY GoesWithRow, EndsStops DEF AttemptRead, Shape, Steps, store, At

LEMMA AttemptWriteFacts ==
  ASSUME Shape, NEW r \in Requests, AttemptWrite(r)
  PROVE  /\ UNCHANGED <<tokens, allow, missed, cache, flagged, revoked>>
         /\ reqs[r].op = "attempt" /\ reqs[r].pc = "mark" /\ Stops(r)
         /\ spoiled' = IF user'.role # user.role THEN spoiled \cup {"role"} ELSE spoiled
         /\ reqs[r].seen \in Columns =>
              user' \in Columns /\ user'.ver = user.ver /\ user'.deleted = user.deleted
<1>1. ASSUME reqs[r].seen \in Columns
      PROVE  user' \in Columns /\ user'.ver = user.ver /\ user'.deleted = user.deleted
  <2>1. reqs[r].seen.role \in Roles /\ {reqs[r].seen.active, FALSE} \subseteq BOOLEAN
    BY <1>1 DEF Columns
  <2>2. PICK b \in BOOLEAN, o \in Roles : user' = [user EXCEPT !.role = o, !.active = b]
    BY <2>1 DEF AttemptWrite
  <2> QED BY <2>2 DEF Columns, Shape
<1> QED BY <1>1, EndsStops DEF AttemptWrite, Shape, At

\* A request that is cut off: what it had still to do for the allowlist is
\* missed.
LEMMA AbortFacts ==
  ASSUME Shape, NEW r \in Requests, Abort(r)
  PROVE  /\ UNCHANGED <<user, tokens, allow, cache, flagged, revoked, spoiled>>
         /\ reqs[r].pc # "idle" /\ Stops(r)
         /\ missed \subseteq missed' /\ missed' \subseteq allow
         /\ reqs[r].op = "change" /\ reqs[r].pc \in {"uncache", "clear"} => missed' = allow
BY EndsStops DEF Abort, Shape

\* A request that comes in: everybody else is disturbed.
LEMMA StartFacts ==
  ASSUME Shape, NEW r \in Requests, NEW op \in Ops, NEW t \in 0..Len(tokens), Start(r, op, t)
  PROVE  /\ UNCHANGED <<user, tokens, allow, missed, cache, flagged, revoked, spoiled>>
         /\ reqs[r].pc = "idle" /\ reqs' \in [Requests -> Regs]
         /\ \A q \in Requests \ {r} : reqs'[q] = Disturbed[q]
         /\ reqs'[r].op = op /\ reqs'[r].token = t /\ reqs'[r].seen = NoUser /\ reqs'[r].kill = {}
         /\ reqs'[r].pc = FirstStep[op] /\ reqs'[r].known = Ended(op, t)
         /\ reqs'[r].quiet <=> \A q \in Requests : reqs[q].pc = "idle"
         /\ op \in {"refresh", "logout", "call"} => t \in Ids
         /\ op \in Issuing => Len(tokens) + InFlight(Issuing) < MaxTokens
         /\ Ended(op, t) \subseteq Ids /\ \A i \in Ended(op, t) : tokens[i].out
<1> DEFINE q0 == \A q \in Requests : reqs[q].pc = "idle"
           m == [Idle EXCEPT !.op = op, !.pc = FirstStep[op], !.token = t, !.known = Ended(op, t),
                             !.quiet = q0]
<1>1. FirstStep[op] \in Steps
  BY DEF FirstStep, Steps, Ops, Issuing, Changing
<1>2. Ended(op, t) \subseteq Ids /\ \A i \in Ended(op, t) : tokens[i].out
  <2>1. CASE op = "logout"
    <3>1. Ended(op, t) = {t}
      BY <2>1 DEF Ended
    <3> QED BY <2>1, <3>1 DEF Start
  <2>2. CASE op \in {"change", "delete"}
    <3>1. Ended(op, t) = {i \in Ids : tokens[i].out}
      BY <2>2 DEF Ended
    <3> QED BY <3>1
  <2>3. CASE op \notin {"logout", "change", "delete"}
    <3>1. Ended(op, t) = {}
      BY <2>3 DEF Ended
    <3> QED BY <3>1
  <2> QED BY <2>1, <2>2, <2>3
<1>3. t \in Nat /\ Ended(op, t) \in SUBSET Nat /\ q0 \in BOOLEAN
  BY <1>2 DEF Shape, Ids
<1>4. /\ m \in Regs /\ m.op = op /\ m.token = t /\ m.seen = NoUser /\ m.kill = {}
      /\ m.pc = FirstStep[op] /\ m.known = Ended(op, t) /\ m.quiet = q0
  <2> HIDE DEF q0
  <2> QED BY <1>1, <1>3 DEF Regs, Idle
<1>5. reqs' = [Disturbed EXCEPT ![r] = m]
  BY DEF Start
<1> HIDE DEF m
<1>6. reqs' \in [Requests -> Regs] /\ reqs'[r] = m /\ \A q \in Requests \ {r} : reqs'[q] = Disturbed[q]
  BY <1>4, <1>5, DisturbedFacts DEF Shape
<1> QED BY <1>2, <1>4, <1>6 DEF Start, store

-----------------------------------------------------------------------------
(* Types.                                                                   *)

LEMMA FiniteRequests == \A S : S \subseteq Requests => IsFiniteSet(S) /\ Cardinality(S) \in Nat
BY SessionsAssumption, FS_Subset, FS_CardinalityType DEF SessionsAssumption

\* The bound on the sessions counts those who have still to insert one.
LEMMA BoundKept ==
  ASSUME TypeInv, Len(tokens') = Len(tokens), Inserting' \subseteq Inserting
  PROVE  Len(tokens') + Cardinality(Inserting') <= MaxTokens
<1>1. Inserting \subseteq Requests
  BY DEF Inserting
<1>2. Cardinality(Inserting') <= Cardinality(Inserting)
  BY <1>1, FiniteRequests, FS_Subset
<1>3. Cardinality(Inserting') \in Nat /\ Cardinality(Inserting) \in Nat /\ Len(tokens) \in Nat /\ MaxTokens \in Nat
  BY <1>1, FiniteRequests, SessionsAssumption DEF TypeInv, Shape, SessionsAssumption
<1> QED BY <1>2, <1>3 DEF TypeInv

LEMMA BoundInserted ==
  ASSUME TypeInv, NEW r \in Inserting, Len(tokens') = Len(tokens) + 1, Inserting' \subseteq Inserting \ {r}
  PROVE  Len(tokens') + Cardinality(Inserting') <= MaxTokens
<1>1. Inserting \subseteq Requests
  BY DEF Inserting
<1>2. Cardinality(Inserting') <= Cardinality(Inserting \ {r}) /\ Cardinality(Inserting \ {r}) = Cardinality(Inserting) - 1
  BY <1>1, FiniteRequests, FS_Subset, FS_RemoveElement
<1>3. Cardinality(Inserting') \in Nat /\ Cardinality(Inserting) \in Nat /\ Len(tokens) \in Nat /\ MaxTokens \in Nat
  BY <1>1, FiniteRequests, SessionsAssumption DEF TypeInv, Shape, SessionsAssumption
<1> QED BY <1>2, <1>3 DEF TypeInv

LEMMA BoundStarted ==
  ASSUME TypeInv, NEW r \in Requests, Len(tokens) + InFlight(Issuing) < MaxTokens,
         Len(tokens') = Len(tokens), Inserting' \subseteq Inserting \cup {r}
  PROVE  Len(tokens') + Cardinality(Inserting') <= MaxTokens
<1> DEFINE F == {q \in Requests : reqs[q].op \in Issuing}
<1>1. F \subseteq Requests /\ Inserting \subseteq F /\ Inserting' \subseteq F \cup {r}
  BY DEF Inserting
<1>2. IsFiniteSet(F) /\ IsFiniteSet(F \cup {r}) /\ Cardinality(F \cup {r}) <= Cardinality(F) + 1
  <2>1. IsFiniteSet(F) /\ F \cup {r} \subseteq Requests /\ Cardinality(F) \in Nat
    BY <1>1, FiniteRequests
  <2>2. Cardinality(F \cup {r}) = IF r \in F THEN Cardinality(F) ELSE Cardinality(F) + 1
    BY <2>1, FS_AddElement
  <2> QED BY <2>1, <2>2, FiniteRequests
<1>3. Cardinality(Inserting') <= Cardinality(F \cup {r})
  BY <1>1, <1>2, FS_Subset
<1>4. /\ Cardinality(Inserting') \in Nat /\ Cardinality(F) \in Nat /\ Cardinality(F \cup {r}) \in Nat
      /\ Len(tokens) \in Nat /\ MaxTokens \in Nat /\ InFlight(Issuing) = Cardinality(F)
  BY <1>1, FiniteRequests, SessionsAssumption DEF TypeInv, Shape, SessionsAssumption, InFlight
<1> QED BY <1>2, <1>3, <1>4

LEMMA IdleLocal ==
  ASSUME NEW n \in Nat
  PROVE  Local(Idle, n)
BY IdleFacts DEF Local, HasToken, HasRead, Issuing

LEMMA BecomesLocal ==
  ASSUME NEW r \in Requests, NEW op, NEW pc, NEW token, NEW seen, NEW kill,
         TypeInv, Becomes(r, op, pc, token, seen, kill), pc # "idle",
         NEW n \in Nat, Len(tokens) <= n, token \in 0..n, kill \subseteq 1..n,
         HasToken(reqs'[r]) => token \in 1..n,
         HasRead(reqs'[r]) => seen \in Columns,
         op = "call" /\ pc = "store" => seen.active /\ ~seen.deleted
  PROVE  Local(reqs'[r], n)
<1>1. reqs'[r].known \subseteq 1..n
  BY DEF TypeInv, Shape, Local, Becomes
<1> QED BY <1>1, IdleFacts DEF Local, Becomes

\* One request takes a step: its own types remain to be shown.
LEMMA TypedStep ==
  ASSUME TypeInv, NEW r \in Requests,
         \A q \in Requests \ {r} : reqs'[q] = reqs[q],
         Local(reqs'[r], Len(tokens')), Len(tokens) <= Len(tokens'), Shape',
         Len(tokens') + Cardinality(Inserting') <= MaxTokens
  PROVE  TypeInv'
<1>1. Len(tokens) \in Nat /\ Len(tokens') \in Nat
  BY DEF TypeInv, Shape
<1>2. ASSUME NEW q \in Requests \ {r}
      PROVE  Local(reqs'[q], Len(tokens'))
  <2>1. Local(reqs[q], Len(tokens))
    BY DEF TypeInv
  <2> QED BY <1>1, <2>1 DEF Local
<1> QED BY <1>2 DEF TypeInv

\* It leaves the number of sessions and those who will insert one.
LEMMA StopsTyped ==
  ASSUME TypeInv, NEW r \in Requests, Stops(r), Len(tokens') = Len(tokens), Shape'
  PROVE  TypeInv'
<1>1. Len(tokens') \in Nat
  BY DEF Shape
<1>2. Inserting' \subseteq Inserting
  BY IdleFacts DEF Stops, Inserting, Issuing
<1> QED BY <1>1, <1>2, IdleLocal, BoundKept, TypedStep DEF Stops

LEMMA BecomesTyped ==
  ASSUME NEW r \in Requests, NEW pc, NEW seen, NEW kill,
         TypeInv, Becomes(r, reqs[r].op, pc, reqs[r].token, seen, kill),
         pc \notin {"idle", "allow"}, reqs[r].pc \notin {"idle", "allow"},
         kill \subseteq 1..Len(tokens), Len(tokens') = Len(tokens), Shape',
         HasRead(reqs'[r]) => seen \in Columns,
         reqs[r].op = "call" /\ pc = "store" => seen.active /\ ~seen.deleted
  PROVE  TypeInv'
<1>1. Len(tokens) \in Nat /\ Local(reqs[r], Len(tokens))
  BY DEF TypeInv, Shape
<1>2. HasToken(reqs'[r]) => reqs[r].token \in 1..Len(tokens)
  BY <1>1 DEF HasToken, Becomes, Local
<1>3. Local(reqs'[r], Len(tokens'))
  <2>1. PICK n \in Nat : n = Len(tokens) /\ n = Len(tokens')
    BY <1>1
  <2>2. /\ reqs[r].token \in 0..n /\ kill \subseteq 1..n /\ Len(tokens) <= n
        /\ HasToken(reqs'[r]) => reqs[r].token \in 1..n
    BY <1>1, <1>2, <2>1 DEF Local
  <2>3. Local(reqs'[r], n)
    BY <2>2, BecomesLocal
  <2> QED BY <2>1, <2>3
<1>4. Inserting' \subseteq Inserting
  BY DEF Becomes, Inserting
<1> QED BY <1>1, <1>3, <1>4, BoundKept, TypedStep DEF Becomes

LEMMA InitTyped == Init => TypeInv
<1> SUFFICES ASSUME Init PROVE TypeInv
  OBVIOUS
<1>1. Shape
  <2>1. tokens \in Seq(Toks) /\ reqs \in [Requests -> Regs]
    BY IdleFacts DEF Init
  <2> QED BY <2>1 DEF Init, Shape, Columns, Roles, Ids
<1>2. Len(tokens) = 0 /\ \A r \in Requests : reqs[r] = Idle
  BY DEF Init
<1>3. Inserting = {}
  BY <1>2, IdleFacts DEF Inserting, Issuing
<1> QED BY <1>1, <1>2, <1>3, IdleLocal, FS_EmptySet, SessionsAssumption DEF TypeInv, SessionsAssumption

\* The steps that only read.
LEMMA ReadsTyped ==
  ASSUME TypeInv, NEW r \in Requests,
         \/ LoginUser(r) \/ LoginKill(r) \/ RefreshUser(r) \/ RefreshSession(r) \/ ChangeUser(r) \/ ChangeKill(r)
         \/ AttemptRead(r) \/ CallCheck(r) \/ CallLookup(r) \/ CallFetch(r) \/ CallJudge(r)
  PROVE  TypeInv'
<1> USE DEF Issuing
<1>1. Shape /\ Local(reqs[r], Len(tokens)) /\ user \in Columns /\ reqs[r] \in Regs
  BY DEF TypeInv, Shape
<1>2. ASSUME UNCHANGED <<user, tokens, allow, missed, cache, flagged, revoked, spoiled>>, reqs' \in [Requests -> Regs]
      PROVE  Shape' /\ Len(tokens') = Len(tokens)
  BY <1>1, <1>2 DEF Shape, Ids
<1>3. reqs[r].kill \subseteq 1..Len(tokens) /\ Live \subseteq 1..Len(tokens)
  BY <1>1, LiveSet DEF Local, Ids
<1>4. CASE LoginUser(r)
  <2>1. CASE Stops(r)
    BY <1>1, <1>2, <1>4, <2>1, LoginUserFacts, StopsTyped DEF Stops
  <2>2. CASE Becomes(r, "login", "kill", reqs[r].token, user, reqs[r].kill)
    BY <1>1, <1>2, <1>3, <1>4, <2>2, LoginUserFacts, BecomesTyped DEF Becomes
  <2> QED BY <1>1, <1>4, <2>1, <2>2, LoginUserFacts
<1>5. CASE LoginKill(r)
  <2>1. reqs[r].seen \in Columns
    BY <1>1, <1>5, LoginKillFacts DEF Local, HasRead
  <2>2. Becomes(r, reqs[r].op, "commit", reqs[r].token, reqs[r].seen, Live) /\ reqs[r].pc = "kill"
    BY <1>1, <1>5, LoginKillFacts
  <2>3. Shape' /\ Len(tokens') = Len(tokens)
    BY <1>1, <1>2, <1>5, LoginKillFacts DEF Becomes
  <2> QED BY <1>3, <2>1, <2>2, <2>3, BecomesTyped DEF Becomes
<1>6. CASE RefreshUser(r)
  <2>1. CASE Stops(r)
    BY <1>1, <1>2, <1>6, <2>1, RefreshUserFacts, StopsTyped DEF Stops
  <2>2. ASSUME NEW u \in Columns, Becomes(r, "refresh", "session", reqs[r].token, u, reqs[r].kill)
        PROVE  TypeInv'
    BY <1>1, <1>2, <1>3, <1>6, <2>2, RefreshUserFacts, BecomesTyped DEF Becomes
  <2> QED BY <1>1, <1>6, <2>1, <2>2, RefreshUserFacts
<1>7. CASE RefreshSession(r)
  <2>1. CASE Stops(r)
    BY <1>1, <1>2, <1>7, <2>1, RefreshSessionFacts, StopsTyped DEF Stops
  <2>2. reqs[r].seen \in Columns /\ {reqs[r].token} \subseteq 1..Len(tokens)
    BY <1>1, <1>7, RefreshSessionFacts DEF Local, HasRead, HasToken
  <2>3. CASE Becomes(r, "refresh", "commit", reqs[r].token, reqs[r].seen, {reqs[r].token})
    BY <1>1, <1>2, <1>3, <1>7, <2>2, <2>3, RefreshSessionFacts, BecomesTyped DEF Becomes
  <2>4. CASE Becomes(r, "refresh", "reuse", reqs[r].token, reqs[r].seen, Live)
    <3>1. reqs[r].op = "refresh" /\ reqs[r].pc = "session" /\ Shape' /\ Len(tokens') = Len(tokens)
      BY <1>1, <1>2, <1>7, <2>4, RefreshSessionFacts DEF Becomes
    <3>2. Becomes(r, reqs[r].op, "reuse", reqs[r].token, reqs[r].seen, Live)
      BY <2>4, <3>1
    <3> QED BY <1>3, <2>2, <3>1, <3>2, BecomesTyped DEF Becomes
  <2> QED BY <1>1, <1>7, <2>1, <2>3, <2>4, RefreshSessionFacts
<1>8. CASE ChangeUser(r)
  <2>1. CASE Stops(r)
    BY <1>1, <1>2, <1>8, <2>1, ChangeUserFacts, StopsTyped DEF Stops
  <2>2. ASSUME NEW s \in {"kill", "bump", "password"}, Becomes(r, reqs[r].op, s, reqs[r].token, user, reqs[r].kill)
        PROVE  TypeInv'
    BY <1>1, <1>2, <1>3, <1>8, <2>2, ChangeUserFacts, BecomesTyped DEF Becomes
  <2> QED BY <1>1, <1>8, <2>1, <2>2, ChangeUserFacts
<1>9. CASE ChangeKill(r)
  <2>1. reqs[r].seen \in Columns
    BY <1>1, <1>9, ChangeKillFacts DEF Local, HasRead
  <2> QED BY <1>1, <1>2, <1>3, <1>9, <2>1, ChangeKillFacts, BecomesTyped DEF Becomes
<1>10. CASE CallCheck(r)
  <2>1. CASE Stops(r)
    BY <1>1, <1>2, <1>10, <2>1, CallCheckFacts, StopsTyped DEF Stops
  <2>2. CASE Becomes(r, "call", "lookup", reqs[r].token, reqs[r].seen, reqs[r].kill)
    BY <1>1, <1>2, <1>3, <1>10, <2>2, CallCheckFacts, BecomesTyped DEF Becomes, HasRead
  <2> QED BY <1>1, <1>10, <2>1, <2>2, CallCheckFacts
<1>11. CASE CallLookup(r)
  <2>1. CASE cache # NoUser /\ Becomes(r, "call", "judge", reqs[r].token, cache, reqs[r].kill)
    <3>1. cache \in Columns
      BY <1>1, <2>1 DEF Shape
    <3> QED BY <1>1, <1>2, <1>3, <1>11, <2>1, <3>1, CallLookupFacts, BecomesTyped DEF Becomes
  <2>2. CASE Becomes(r, "call", "fetch", reqs[r].token, reqs[r].seen, reqs[r].kill)
    BY <1>1, <1>2, <1>3, <1>11, <2>2, CallLookupFacts, BecomesTyped DEF Becomes, HasRead
  <2> QED BY <1>1, <1>11, <2>1, <2>2, CallLookupFacts
<1>12. CASE CallFetch(r)
  <2>1. CASE Stops(r)
    BY <1>1, <1>2, <1>12, <2>1, CallFetchFacts, StopsTyped DEF Stops
  <2>2. CASE user.active /\ ~user.deleted /\ Becomes(r, "call", "store", reqs[r].token, user, reqs[r].kill)
    BY <1>1, <1>2, <1>3, <1>12, <2>2, CallFetchFacts, BecomesTyped DEF Becomes
  <2> QED BY <1>1, <1>12, <2>1, <2>2, CallFetchFacts
<1>13. CASE CallJudge(r)
  <2>1. CASE Stops(r)
    BY <1>1, <1>2, <1>13, <2>1, CallJudgeFacts, StopsTyped DEF Stops
  <2>2. reqs[r].seen \in Columns
    BY <1>1, <1>13, CallJudgeFacts DEF Local, HasRead
  <2>3. CASE Becomes(r, "call", "write", reqs[r].token, reqs[r].seen, reqs[r].kill)
    BY <1>1, <1>2, <1>3, <1>13, <2>2, <2>3, CallJudgeFacts, BecomesTyped DEF Becomes
  <2> QED BY <1>1, <1>13, <2>1, <2>3, CallJudgeFacts
<1>14. CASE AttemptRead(r)
  <2>1. CASE Stops(r)
    BY <1>1, <1>2, <1>14, <2>1, AttemptReadFacts, StopsTyped DEF Stops
  <2>2. CASE Becomes(r, "attempt", "mark", reqs[r].token, user, reqs[r].kill)
    BY <1>1, <1>2, <1>3, <1>14, <2>2, AttemptReadFacts, BecomesTyped DEF Becomes
  <2> QED BY <1>1, <1>14, <2>1, <2>2, AttemptReadFacts
<1> QED BY <1>4, <1>5, <1>6, <1>7, <1>8, <1>9, <1>10, <1>11, <1>12, <1>13, <1>14


\* The steps that change something and let the request end.
LEMMA LastsTyped ==
  ASSUME TypeInv, NEW r \in Requests,
         \/ RefreshReuse(r) \/ IssueAllow(r) \/ LogoutClear(r) \/ UpdateClear(r) \/ DeleteCommit(r)
         \/ AuthenticatorKill(r) \/ ProfileUncache(r) \/ LogoutFails(r) \/ AttemptWrite(r)
  PROVE  TypeInv'
<1>1. Shape /\ Local(reqs[r], Len(tokens)) /\ user \in Columns /\ reqs[r] \in Regs
  BY DEF TypeInv, Shape
<1>2. reqs[r].known \subseteq Ids
  BY <1>1 DEF Local, Ids
<1>3. ASSUME NEW ts, Fewer(ts)
      PROVE  tokens' \in Seq(Toks) /\ Len(tokens') = Len(tokens) /\ Ids' = Ids
  BY <1>3 DEF Fewer, Ids
<1>4. CASE RefreshReuse(r)
  <2>1. Stops(r) /\ Fewer(reqs[r].kill) /\ UNCHANGED <<user, allow, missed, cache, flagged, revoked, spoiled>>
    BY <1>1, <1>4, RefreshReuseFacts
  <2>2. Shape' /\ Len(tokens') = Len(tokens)
    BY <1>1, <1>3, <2>1 DEF Shape, Stops
  <2> QED BY <2>1, <2>2, StopsTyped
<1>5. CASE IssueAllow(r)
  <2>1. reqs[r].token \in Ids
    BY <1>1, <1>5 DEF Local, HasToken, IssueAllow, Ids
  <2>2. /\ Stops(r) /\ allow' = allow \cup {reqs[r].token}
        /\ UNCHANGED <<user, missed, cache, flagged, revoked, spoiled>>
        /\ tokens' \in Seq(Toks) /\ Len(tokens') = Len(tokens)
    BY <1>1, <1>5, <2>1, IssueAllowFacts
  <2>3. Shape' /\ Len(tokens') = Len(tokens)
    BY <1>1, <2>1, <2>2 DEF Shape, Stops, Ids
  <2> QED BY <2>2, <2>3, StopsTyped
<1>6. CASE LogoutClear(r)
  <2>1. /\ Stops(r) /\ UNCHANGED <<user, tokens, cache, flagged, spoiled>>
        /\ allow' \subseteq allow /\ missed' = allow' /\ revoked' = revoked \cup reqs[r].known
    BY <1>1, <1>6, LogoutClearFacts
  <2>2. Shape' /\ Len(tokens') = Len(tokens)
    BY <1>1, <1>2, <2>1 DEF Shape, Stops, Ids
  <2> QED BY <2>1, <2>2, StopsTyped
<1>7. CASE UpdateClear(r)
  <2>1. /\ Stops(r) /\ UNCHANGED <<user, tokens, cache, spoiled>>
        /\ allow' \subseteq allow /\ missed' = allow' /\ flagged' \in {flagged, TRUE}
        /\ revoked' \in {revoked, revoked \cup reqs[r].known}
    BY <1>1, <1>7, UpdateClearFacts
  <2>2. Shape' /\ Len(tokens') = Len(tokens)
    BY <1>1, <1>2, <2>1 DEF Shape, Stops, Ids
  <2> QED BY <2>1, <2>2, StopsTyped
<1>8. CASE DeleteCommit(r)
  <2>1. /\ Stops(r) /\ UNCHANGED <<allow, missed, cache, flagged, spoiled>> /\ Fewer(reqs[r].kill)
        /\ revoked' = revoked \cup reqs[r].known
        /\ user' = [ver |-> user.ver + 1, role |-> "user", active |-> FALSE, deleted |-> TRUE]
    BY <1>1, <1>8, DeleteCommitFacts
  <2>2. user' \in Columns
    BY <1>1, <2>1 DEF Columns, Roles
  <2>3. Shape' /\ Len(tokens') = Len(tokens)
    BY <1>1, <1>2, <1>3, <2>1, <2>2 DEF Shape, Stops
  <2> QED BY <2>1, <2>3, StopsTyped
<1>9. CASE AuthenticatorKill(r)
  <2>1. Stops(r) /\ Fewer(Live) /\ UNCHANGED <<user, allow, missed, cache, flagged, revoked, spoiled>>
    BY <1>1, <1>9, AuthenticatorKillFacts
  <2>2. tokens' \in Seq(Toks) /\ Len(tokens') = Len(tokens) /\ Ids' = Ids
    BY <2>1 DEF Fewer, Ids
  <2>3. Shape' /\ Len(tokens') = Len(tokens)
    BY <1>1, <2>1, <2>2 DEF Shape, Stops
  <2> QED BY <2>1, <2>3, StopsTyped
<1>10. CASE ProfileUncache(r)
  <2>1. Stops(r) /\ UNCHANGED <<user, tokens, allow, missed, flagged, revoked, spoiled>> /\ cache' = NoUser
    BY <1>1, <1>10, ProfileUncacheFacts
  <2>2. Shape' /\ Len(tokens') = Len(tokens)
    BY <1>1, <2>1 DEF Shape, Stops, Ids
  <2> QED BY <2>1, <2>2, StopsTyped
<1>11. CASE LogoutFails(r)
  <2>1. /\ Stops(r) /\ UNCHANGED <<user, tokens, cache, flagged, revoked, spoiled>>
        /\ allow' \subseteq allow /\ missed' = allow'
    BY <1>1, <1>11, LogoutFailsFacts
  <2>2. Shape' /\ Len(tokens') = Len(tokens)
    BY <1>1, <2>1 DEF Shape, Stops, Ids
  <2> QED BY <2>1, <2>2, StopsTyped
<1>12. CASE AttemptWrite(r)
  <2>1. /\ Stops(r) /\ UNCHANGED <<tokens, allow, missed, cache, flagged, revoked>>
        /\ reqs[r].op = "attempt" /\ reqs[r].pc = "mark"
        /\ reqs[r].seen \in Columns => user' \in Columns
        /\ spoiled' \in {spoiled, spoiled \cup {"role"}}
    BY <1>1, <1>12, AttemptWriteFacts
  <2>2. reqs[r].seen \in Columns
    BY <1>1, <2>1 DEF Local, HasRead
  <2>3. Shape' /\ Len(tokens') = Len(tokens)
    BY <1>1, <2>1, <2>2 DEF Shape, Stops, Ids
  <2> QED BY <2>1, <2>3, StopsTyped
<1> QED BY <1>4, <1>5, <1>6, <1>7, <1>8, <1>9, <1>10, <1>11, <1>12

LEMMA ProfileRow ==
  ASSUME user \in Columns, NEW u \in Columns, user' = [user EXCEPT !.role = u.role, !.active = u.active]
  PROVE  /\ user' \in Columns /\ user'.ver = user.ver /\ user'.deleted = user.deleted
         /\ user'.role = u.role /\ user'.active = u.active
<1>1. u.role \in Roles /\ u.active \in BOOLEAN
  BY DEF Columns
<1>2. PICK o \in Roles, b \in BOOLEAN : o = u.role /\ b = u.active
  BY <1>1
<1>3. user' = [user EXCEPT !.role = o, !.active = b]
  BY <1>2
<1>4. /\ user' \in Columns /\ user'.ver = user.ver /\ user'.deleted = user.deleted
      /\ user'.role = o /\ user'.active = b
  BY <1>3 DEF Columns
<1> QED BY <1>2, <1>4

LEMMA VersionRow ==
  ASSUME user \in Columns, NEW n \in Nat, user' = [user EXCEPT !.ver = n]
  PROVE  /\ user' \in Columns /\ user'.ver = n /\ user'.deleted = user.deleted
         /\ user'.role = user.role /\ user'.active = user.active
BY DEF Columns

LEMMA BumpedRow ==
  ASSUME user \in Columns, user' = [user EXCEPT !.ver = @ + 1]
  PROVE  /\ user' \in Columns /\ user'.ver = user.ver + 1 /\ user'.deleted = user.deleted
         /\ user'.role = user.role /\ user'.active = user.active
<1>1. PICK n \in Nat : n = user.ver + 1
  BY DEF Columns
<1>2. user' = [user EXCEPT !.ver = n]
  BY <1>1
<1> QED BY <1>1, <1>2, VersionRow


\* The steps that change something and go on.
LEMMA WritesTyped ==
  ASSUME TypeInv, NEW r \in Requests,
         \/ LogoutSession(r) \/ UpdateCommit(r) \/ UpdateUncache(r) \/ DeleteClear(r)
         \/ AuthenticatorBump(r) \/ InitialPassword(r) \/ CallStore(r) \/ ProfileWrite(r)
  PROVE  TypeInv'
<1>1. Shape /\ Local(reqs[r], Len(tokens)) /\ user \in Columns /\ reqs[r] \in Regs
  BY DEF TypeInv, Shape
<1>2. reqs[r].kill \subseteq 1..Len(tokens) /\ user.ver + 1 \in Nat
  BY <1>1 DEF Local, Columns
<1>3. CASE LogoutSession(r)
  <2>1. /\ reqs[r].op = "logout" /\ reqs[r].pc = "session" /\ Fewer({reqs[r].token})
        /\ UNCHANGED <<user, allow, missed, cache, flagged, revoked, spoiled>>
        /\ Becomes(r, reqs[r].op, "clear", reqs[r].token, reqs[r].seen, reqs[r].kill)
    BY <1>1, <1>3, LogoutSessionFacts
  <2>2. tokens' \in Seq(Toks) /\ Len(tokens') = Len(tokens) /\ Ids' = Ids
    BY <2>1 DEF Fewer, Ids
  <2>3. Shape' /\ Len(tokens') = Len(tokens)
    BY <1>1, <2>1, <2>2 DEF Shape, Becomes
  <2> QED BY <1>2, <2>1, <2>3, BecomesTyped DEF Becomes, HasRead
<1>4. CASE UpdateCommit(r)
  <2>1. reqs[r].seen \in Columns
    BY <1>1, <1>4 DEF Local, HasRead, UpdateCommit, At
  <2>2. /\ reqs[r].op = "change" /\ reqs[r].pc = "commit" /\ Fewer(reqs[r].kill)
        /\ UNCHANGED <<allow, missed, cache, flagged, revoked>> /\ spoiled' = spoiled \ {"role"} /\ user' \in Columns
        /\ Becomes(r, reqs[r].op, "uncache", reqs[r].token, reqs[r].seen, reqs[r].kill)
    BY <1>1, <1>4, <2>1, UpdateCommitFacts
  <2>3. tokens' \in Seq(Toks) /\ Len(tokens') = Len(tokens) /\ Ids' = Ids
    BY <2>2 DEF Fewer, Ids
  <2>4. Shape' /\ Len(tokens') = Len(tokens)
    BY <1>1, <2>2, <2>3 DEF Shape, Becomes
  <2> QED BY <1>2, <2>1, <2>2, <2>4, BecomesTyped DEF Becomes
<1>5. CASE UpdateUncache(r)
  <2>1. /\ reqs[r].op = "change" /\ reqs[r].pc = "uncache" /\ cache' = NoUser
        /\ UNCHANGED <<user, tokens, allow, missed, flagged, revoked, spoiled>>
        /\ Becomes(r, reqs[r].op, "clear", reqs[r].token, reqs[r].seen, reqs[r].kill)
    BY <1>1, <1>5, UpdateUncacheFacts
  <2>2. Shape' /\ Len(tokens') = Len(tokens)
    BY <1>1, <2>1 DEF Shape, Becomes, Ids
  <2> QED BY <1>2, <2>1, <2>2, BecomesTyped DEF Becomes, HasRead
<1>6. CASE DeleteClear(r)
  <2>1. /\ reqs[r].op = "delete" /\ reqs[r].pc = "clear"
        /\ allow' \subseteq allow /\ missed' = allow'
        /\ UNCHANGED <<user, tokens, cache, flagged, revoked, spoiled>>
        /\ Becomes(r, reqs[r].op, "user", reqs[r].token, reqs[r].seen, reqs[r].kill)
    BY <1>1, <1>6, DeleteClearFacts
  <2>2. Shape' /\ Len(tokens') = Len(tokens)
    BY <1>1, <2>1 DEF Shape, Becomes, Ids
  <2> QED BY <1>2, <2>1, <2>2, BecomesTyped DEF Becomes, HasRead
<1>7. CASE AuthenticatorBump(r)
  <2>1. /\ reqs[r].op = "authenticator" /\ reqs[r].pc = "bump"
        /\ UNCHANGED <<tokens, allow, missed, cache, flagged, revoked>>
        /\ user' = [user EXCEPT !.ver = reqs[r].seen.ver + 1]
        /\ spoiled' = IF reqs[r].seen.ver # user.ver THEN spoiled \cup {"version"} ELSE spoiled
        /\ Becomes(r, reqs[r].op, "sessions", reqs[r].token, reqs[r].seen, reqs[r].kill)
    BY <1>1, <1>7, AuthenticatorBumpFacts
  <2>2. reqs[r].seen.ver + 1 \in Nat
    BY <1>1, <2>1 DEF Local, HasRead, Columns
  <2>3. user' \in Columns
    BY <1>1, <2>1, <2>2, VersionRow
  <2>4. Shape' /\ Len(tokens') = Len(tokens)
    BY <1>1, <2>1, <2>3 DEF Shape, Becomes, Ids
  <2> QED BY <1>2, <2>1, <2>4, BecomesTyped DEF Becomes, HasRead
<1>8. CASE InitialPassword(r)
  <2>1. /\ reqs[r].op = "initial" /\ reqs[r].pc = "password"
        /\ UNCHANGED <<tokens, allow, missed, cache, flagged, revoked, spoiled>>
        /\ user' = [user EXCEPT !.ver = @ + 1]
        /\ Becomes(r, reqs[r].op, "uncache", reqs[r].token, reqs[r].seen, reqs[r].kill)
    BY <1>1, <1>8, InitialPasswordFacts
  <2>2. user' \in Columns
    BY <1>1, <2>1, BumpedRow
  <2>3. Shape' /\ Len(tokens') = Len(tokens)
    BY <1>1, <2>1, <2>2 DEF Shape, Becomes, Ids
  <2> QED BY <1>2, <2>1, <2>3, BecomesTyped DEF Becomes, HasRead
<1>9. CASE CallStore(r)
  <2>1. /\ reqs[r].op = "call" /\ reqs[r].pc = "store" /\ cache' = reqs[r].seen
        /\ UNCHANGED <<user, tokens, allow, missed, flagged, revoked, spoiled>>
        /\ Becomes(r, reqs[r].op, "judge", reqs[r].token, reqs[r].seen, reqs[r].kill)
    BY <1>1, <1>9, CallStoreFacts
  <2>2. reqs[r].seen \in Columns /\ reqs[r].seen.active /\ ~reqs[r].seen.deleted
    BY <1>1, <2>1 DEF Local, HasRead
  <2>3. Shape' /\ Len(tokens') = Len(tokens)
    BY <1>1, <2>1, <2>2 DEF Shape, Becomes, Ids
  <2> QED BY <1>2, <2>1, <2>2, <2>3, BecomesTyped DEF Becomes
<1>10. CASE ProfileWrite(r)
  <2>1. /\ reqs[r].op = "call" /\ reqs[r].pc = "write"
        /\ UNCHANGED <<tokens, allow, missed, cache, flagged, revoked>>
        /\ user' = [user EXCEPT !.role = reqs[r].seen.role, !.active = reqs[r].seen.active]
        /\ spoiled' \in {spoiled, spoiled \cup {"role"}}
        /\ Becomes(r, reqs[r].op, "uncache", reqs[r].token, reqs[r].seen, reqs[r].kill)
    BY <1>1, <1>10, ProfileWriteFacts
  <2>2. reqs[r].seen \in Columns
    BY <1>1, <2>1 DEF Local, HasRead
  <2>3. user' \in Columns
    BY <1>1, <2>1, <2>2, ProfileRow
  <2>4. Shape' /\ Len(tokens') = Len(tokens)
    BY <1>1, <2>1, <2>3 DEF Shape, Becomes, Ids
  <2> QED BY <1>2, <2>1, <2>2, <2>4, BecomesTyped DEF Becomes, HasRead
<1> QED BY <1>3, <1>4, <1>5, <1>6, <1>7, <1>8, <1>9, <1>10

\* The steps that count towards the bound on the sessions.
LEMMA IssueCommitTyped ==
  ASSUME TypeInv, NEW r \in Requests, IssueCommit(r)
  PROVE  TypeInv'
<1>1. Shape /\ Local(reqs[r], Len(tokens)) /\ reqs[r] \in Regs
  BY DEF TypeInv, Shape
<1>2. /\ reqs[r].seen \in Columns /\ (HasToken(reqs[r]) => reqs[r].token \in Ids)
      /\ r \in Inserting /\ reqs[r].pc = "commit" /\ reqs[r].op \in Issuing
  BY <1>1 DEF Local, HasRead, HasToken, IssueCommit, Ids, Inserting, Issuing
<1>3. /\ UNCHANGED <<user, allow, missed, cache, flagged, revoked, spoiled>>
      /\ Becomes(r, reqs[r].op, "allow", Len(tokens) + 1, reqs[r].seen, reqs[r].kill)
      /\ tokens' \in Seq(Toks) /\ Len(tokens') = Len(tokens) + 1
  BY <1>1, <1>2, IssueCommitFacts
<1>4. Ids \subseteq Ids' /\ Len(tokens) \in Nat /\ Len(tokens') \in Nat
  BY <1>1, <1>3 DEF Shape, Ids
<1>5. Shape'
  BY <1>1, <1>3, <1>4 DEF Shape, Becomes
<1>6. reqs[r].kill \subseteq 1..Len(tokens') /\ Len(tokens) + 1 \in 1..Len(tokens')
  BY <1>1, <1>3, <1>4 DEF Local
<1>7. Local(reqs'[r], Len(tokens'))
  BY <1>2, <1>3, <1>4, <1>6, BecomesLocal DEF Issuing
<1>8. Inserting' \subseteq Inserting \ {r}
  BY <1>3 DEF Becomes, Inserting
<1> QED BY <1>2, <1>3, <1>4, <1>5, <1>7, <1>8, BoundInserted, TypedStep DEF Becomes

LEMMA InitialUncacheTyped ==
  ASSUME TypeInv, NEW r \in Requests, InitialUncache(r)
  PROVE  TypeInv'
<1>1. Shape /\ Local(reqs[r], Len(tokens)) /\ reqs[r] \in Regs
  BY DEF TypeInv, Shape
<1>2. /\ UNCHANGED <<user, tokens, allow, missed, flagged, revoked, spoiled>> /\ cache' = NoUser
      /\ Len(tokens) + InFlight(Issuing) < MaxTokens
      /\ Becomes(r, "login", "reissue", reqs[r].token, reqs[r].seen, reqs[r].kill)
  BY <1>1, InitialUncacheFacts
<1>3. Shape' /\ Len(tokens') = Len(tokens) /\ Len(tokens) \in Nat
  BY <1>1, <1>2 DEF Shape, Becomes, Ids
<1>4. Local(reqs'[r], Len(tokens'))
  <2>1. reqs[r].token \in 0..Len(tokens) /\ reqs[r].kill \subseteq 1..Len(tokens)
    BY <1>1 DEF Local
  <2> QED BY <1>2, <1>3, <2>1, BecomesLocal DEF HasRead, HasToken, Becomes, Issuing
<1>5. Inserting' \subseteq Inserting \cup {r}
  BY <1>2 DEF Becomes, Inserting
<1> QED BY <1>2, <1>3, <1>4, <1>5, BoundStarted, TypedStep DEF Becomes

\* Disturbing a request changes none of its types.
LEMMA DisturbedLocal ==
  ASSUME TypeInv, NEW q \in Requests
  PROVE  Local(Disturbed[q], Len(tokens))
<1>1. Local(reqs[q], Len(tokens)) /\ reqs[q] \in Regs /\ Disturbed[q] \in Regs
  BY DisturbedFacts DEF TypeInv, Shape
<1>2. /\ Disturbed[q].op = reqs[q].op /\ Disturbed[q].pc = reqs[q].pc
      /\ Disturbed[q].token = reqs[q].token /\ Disturbed[q].seen = reqs[q].seen
      /\ Disturbed[q].kill = reqs[q].kill /\ Disturbed[q].known = reqs[q].known
  BY DisturbedFacts DEF TypeInv, Shape
<1>3. reqs[q] = Idle => Disturbed[q] = Idle
  <2> SUFFICES ASSUME reqs[q] = Idle PROVE Disturbed[q] = Idle
    OBVIOUS
  <2>1. Disturbed[q] = [Idle EXCEPT !.quiet = TRUE]
    BY IdleFacts DEF Disturbed, Idle
  <2>2. [Idle EXCEPT !.quiet = TRUE] = Idle
    BY IdleFacts DEF Regs
  <2> QED BY <2>1, <2>2
<1>4. (HasToken(Disturbed[q]) <=> HasToken(reqs[q])) /\ (HasRead(Disturbed[q]) <=> HasRead(reqs[q]))
  BY <1>2 DEF HasToken, HasRead
<1> QED BY <1>1, <1>2, <1>3, <1>4, IdleFacts DEF Local

LEMMA StartTyped ==
  ASSUME TypeInv, NEW r \in Requests, NEW op \in Ops, NEW t \in 0..Len(tokens), Start(r, op, t)
  PROVE  TypeInv'
<1>1. Shape /\ Len(tokens) \in Nat
  BY DEF TypeInv, Shape
<1>2. /\ UNCHANGED <<user, tokens, allow, missed, cache, flagged, revoked, spoiled>>
      /\ reqs[r].pc = "idle" /\ reqs' \in [Requests -> Regs]
      /\ \A q \in Requests \ {r} : reqs'[q] = Disturbed[q]
      /\ reqs'[r].op = op /\ reqs'[r].token = t /\ reqs'[r].kill = {}
      /\ reqs'[r].pc = FirstStep[op] /\ reqs'[r].known = Ended(op, t)
      /\ op \in {"refresh", "logout", "call"} => t \in Ids
      /\ op \in Issuing => Len(tokens) + InFlight(Issuing) < MaxTokens
      /\ Ended(op, t) \subseteq Ids
  BY <1>1, StartFacts
<1>3. Shape' /\ Len(tokens') = Len(tokens)
  BY <1>1, <1>2 DEF Shape, Ids
<1>4. /\ FirstStep[op] \in {"user", "clear", "session", "check"} /\ op # "none"
      /\ op \in {"change", "authenticator", "login", "refresh", "initial", "attempt"} => FirstStep[op] = "user"
      /\ op = "delete" => FirstStep[op] = "clear"
      /\ op = "logout" => FirstStep[op] = "session"
      /\ op = "call" => FirstStep[op] = "check"
  BY DEF FirstStep, Ops, Issuing, Changing
<1>5. Local(reqs'[r], Len(tokens'))
  <2>1. ~HasRead(reqs'[r]) /\ reqs'[r] # Idle
    BY <1>2, <1>4, IdleFacts DEF HasRead
  <2>2. HasToken(reqs'[r]) => t \in Ids
    BY <1>2, <1>4 DEF HasToken
  <2> QED BY <1>2, <1>3, <1>4, <2>1, <2>2 DEF Local, Ids
<1>6. ASSUME NEW q \in Requests
      PROVE  Local(reqs'[q], Len(tokens'))
  BY <1>2, <1>3, <1>5, DisturbedLocal
<1>7. ASSUME NEW q \in Requests \ {r}
      PROVE  q \in Inserting' <=> q \in Inserting
  BY <1>1, <1>2, DisturbedFacts DEF Inserting, Shape
<1>8. Len(tokens') + Cardinality(Inserting') <= MaxTokens
  <2>1. CASE op \in Issuing
    <3>1. Inserting' \subseteq Inserting \cup {r}
      BY <1>7 DEF Inserting
    <3> QED BY <1>2, <1>3, <2>1, <3>1, BoundStarted
  <2>2. CASE op \notin Issuing
    <3>1. r \notin Inserting'
      BY <1>2, <2>2 DEF Inserting
    <3>2. Inserting' \subseteq Inserting
      BY <1>7, <3>1 DEF Inserting
    <3> QED BY <1>3, <3>2, BoundKept
  <2> QED BY <2>1, <2>2
<1> QED BY <1>3, <1>6, <1>8 DEF TypeInv

LEMMA OtherTyped ==
  ASSUME TypeInv, SetPassword \/ CacheExpires
  PROVE  TypeInv'
<1>1. Shape /\ Len(tokens) \in Nat /\ user \in Columns
  BY DEF TypeInv, Shape
<1>2. CASE CacheExpires
  <2>1. Shape'
    BY <1>1, <1>2 DEF CacheExpires, Shape, Ids
  <2> QED BY <1>2, <2>1 DEF CacheExpires, TypeInv, Inserting
<1>3. CASE SetPassword
  <2>1. /\ reqs' = Disturbed /\ UNCHANGED <<tokens, allow, missed, cache, flagged, revoked, spoiled>>
        /\ user' \in Columns
    BY <1>1, <1>3 DEF SetPassword, Columns
  <2>2. Shape'
    BY <1>1, <2>1, DisturbedFacts DEF Shape, Ids
  <2>3. \A r \in Requests : Local(reqs'[r], Len(tokens'))
    BY <2>1, DisturbedLocal
  <2>4. Inserting' \subseteq Inserting
    BY <1>1, <2>1, DisturbedFacts DEF Inserting, Shape
  <2> QED BY <2>1, <2>2, <2>3, <2>4, BoundKept DEF TypeInv
<1> QED BY <1>2, <1>3

LEMMA TypeStep ==
  ASSUME TypeInv, [Next]_vars
  PROVE  TypeInv'
<1>1. CASE UNCHANGED vars
  BY <1>1 DEF vars, store, TypeInv, Shape, Ids, Inserting
<1>2. ASSUME NEW r \in Requests,
             \/ \E op \in Ops, t \in 0..Len(tokens) : Start(r, op, t)
             \/ IssueStep(r) \/ UpdateStep(r) \/ OwnStep(r) \/ CallStep(r)
      PROVE  TypeInv'
  BY <1>2, StartTyped, ReadsTyped, LastsTyped, WritesTyped, IssueCommitTyped, InitialUncacheTyped
     DEF IssueStep, UpdateStep, OwnStep, CallStep
<1>3. CASE SetPassword \/ CacheExpires
  BY <1>3, OtherTyped
<1>4. ASSUME NEW r \in Requests, Abort(r)
      PROVE  TypeInv'
  <2>1. Shape
    BY DEF TypeInv
  <2>2. /\ UNCHANGED <<user, tokens, allow, cache, flagged, revoked, spoiled>> /\ Stops(r)
        /\ missed' \subseteq allow
    BY <1>4, <2>1, AbortFacts
  <2>3. Shape' /\ Len(tokens') = Len(tokens)
    BY <2>1, <2>2 DEF Shape, Stops, Ids
  <2> QED BY <2>2, <2>3, StopsTyped
<1> QED BY <1>1, <1>2, <1>3, <1>4 DEF Next


-----------------------------------------------------------------------------
(* Who is alone, and what becomes of the sessions.                          *)

\* A step of a request that was there: it goes on or ends, and the others are
\* as they were.
Moves(r) ==
  /\ reqs[r].pc # "idle" /\ \A q \in Requests \ {r} : reqs'[q] = reqs[q]
  /\ \/ reqs'[r] = Idle
     \/ /\ reqs'[r].quiet = reqs[r].quiet /\ reqs'[r].pc # "idle" /\ reqs'[r].known = reqs[r].known
        /\ reqs'[r].op = reqs[r].op \/ (reqs[r].op = "initial" /\ reqs'[r].op = "login" /\ reqs'[r].pc = "reissue")

\* No session comes or changes hands: some may go, some may be taken out of the
\* allowlist, and those missed there stay missed.
Keeps ==
  /\ Len(tokens') = Len(tokens)
  /\ \A t \in Ids : /\ tokens'[t].ver = tokens[t].ver /\ tokens'[t].out = tokens[t].out
                    /\ tokens'[t].sole = tokens[t].sole
                    /\ tokens'[t].valid => tokens[t].valid
  /\ allow' \subseteq allow /\ \A t \in allow' : t \in missed => t \in missed'

\* What all steps but those of the insertion of a session have in common.
Plain(r) == Moves(r) /\ Keeps /\ reqs'[r].pc # "allow"

LEMMA PlainReads ==
  ASSUME TypeInv, NEW r \in Requests,
         \/ LoginUser(r) \/ LoginKill(r) \/ RefreshUser(r) \/ RefreshSession(r) \/ ChangeUser(r) \/ ChangeKill(r)
         \/ AttemptRead(r) \/ CallCheck(r) \/ CallLookup(r) \/ CallFetch(r) \/ CallJudge(r)
  PROVE  Plain(r) /\ UNCHANGED <<user, tokens, allow, missed, cache, flagged, revoked, spoiled>>
<1>1. Shape
  BY DEF TypeInv
<1>2. UNCHANGED <<user, tokens, allow, missed, cache, flagged, revoked, spoiled>>
  BY DEF LoginUser, LoginKill, RefreshUser, RefreshSession, ChangeUser, ChangeKill, AttemptRead, CallCheck,
         CallLookup, CallFetch, CallJudge, store
<1>3. Keeps
  BY <1>2 DEF Keeps
<1>4. reqs[r].pc # "idle"
  BY DEF LoginUser, LoginKill, RefreshUser, RefreshSession, ChangeUser, ChangeKill, AttemptRead, CallCheck,
         CallLookup, CallFetch, CallJudge, At
<1>5. Stops(r) \/ \E pc \in Steps \ {"idle", "allow"} : \E token, seen, kill : Becomes(r, reqs[r].op, pc, token, seen, kill)
  <2>2. {"kill", "commit", "session", "reuse", "bump", "password", "lookup", "judge", "fetch", "store", "write", "mark"}
           \subseteq Steps \ {"idle", "allow"}
    BY DEF Steps
  <2>3. CASE LoginUser(r) \/ LoginKill(r)
    BY <1>1, <2>2, <2>3, LoginUserFacts, LoginKillFacts
  <2>4. CASE RefreshUser(r) \/ RefreshSession(r)
    BY <1>1, <2>2, <2>4, RefreshUserFacts, RefreshSessionFacts
  <2>5. CASE ChangeUser(r) \/ ChangeKill(r) \/ AttemptRead(r)
    BY <1>1, <2>2, <2>5, ChangeUserFacts, ChangeKillFacts, AttemptReadFacts
  <2>6. CASE CallCheck(r) \/ CallLookup(r) \/ CallFetch(r) \/ CallJudge(r)
    BY <1>1, <2>2, <2>6, CallCheckFacts, CallLookupFacts, CallFetchFacts, CallJudgeFacts
  <2> QED BY <2>3, <2>4, <2>5, <2>6
<1>6. CASE Stops(r)
  BY <1>2, <1>3, <1>4, <1>6, IdleFacts DEF Stops, Plain, Moves
<1>7. ASSUME NEW pc \in Steps \ {"idle", "allow"}, NEW token, NEW seen, NEW kill, Becomes(r, reqs[r].op, pc, token, seen, kill)
      PROVE  Plain(r)
  BY <1>2, <1>3, <1>4, <1>7 DEF Becomes, Plain, Moves
<1> QED BY <1>2, <1>5, <1>6, <1>7

LEMMA PlainWrites ==
  ASSUME TypeInv, NEW r \in Requests,
         \/ RefreshReuse(r) \/ LogoutClear(r) \/ UpdateClear(r) \/ DeleteCommit(r)
         \/ AuthenticatorKill(r) \/ ProfileUncache(r) \/ LogoutFails(r) \/ AttemptWrite(r)
         \/ LogoutSession(r) \/ UpdateCommit(r) \/ UpdateUncache(r) \/ DeleteClear(r)
         \/ AuthenticatorBump(r) \/ InitialPassword(r) \/ CallStore(r) \/ ProfileWrite(r) \/ InitialUncache(r)
  PROVE  Plain(r)
<1>1. Shape /\ Local(reqs[r], Len(tokens))
  BY DEF TypeInv
<1>2. ASSUME NEW ts, Fewer(ts), UNCHANGED <<allow, missed>>
      PROVE  Keeps
  BY <1>2 DEF Fewer, Keeps
<1>3. ASSUME UNCHANGED tokens, UNCHANGED <<allow, missed>> \/ (allow' \subseteq allow /\ missed' = allow')
      PROVE  Keeps
  BY <1>3 DEF Keeps
<1>4. ASSUME Keeps, Stops(r), reqs[r].pc # "idle"
      PROVE  Plain(r)
  BY <1>4, IdleFacts DEF Stops, Plain, Moves
<1>5. ASSUME Keeps, NEW pc, NEW token, NEW seen, NEW kill, Becomes(r, reqs[r].op, pc, token, seen, kill),
             pc \notin {"idle", "allow"}, reqs[r].pc # "idle"
      PROVE  Plain(r)
  BY <1>5 DEF Becomes, Plain, Moves
<1>6. CASE RefreshReuse(r)
  BY <1>1, <1>2, <1>4, <1>6, RefreshReuseFacts
<1>7. CASE LogoutClear(r) \/ LogoutFails(r) \/ UpdateClear(r) \/ ProfileUncache(r) \/ AttemptWrite(r)
  BY <1>1, <1>3, <1>4, <1>7, LogoutClearFacts, LogoutFailsFacts, UpdateClearFacts, ProfileUncacheFacts,
     AttemptWriteFacts
<1>8. CASE DeleteCommit(r)
  BY <1>1, <1>2, <1>4, <1>8, DeleteCommitFacts
<1>9. CASE AuthenticatorKill(r)
  BY <1>1, <1>2, <1>4, <1>9, AuthenticatorKillFacts
<1>10. CASE LogoutSession(r)
  <2>1. /\ Fewer({reqs[r].token}) /\ UNCHANGED <<allow, missed>> /\ reqs[r].op = "logout" /\ reqs[r].pc = "session"
        /\ Becomes(r, "logout", "clear", reqs[r].token, reqs[r].seen, reqs[r].kill)
    BY <1>1, <1>10, LogoutSessionFacts
  <2>2. Keeps
    BY <1>2, <2>1
  <2> QED BY <1>5, <2>1, <2>2
<1>11. CASE UpdateCommit(r)
  <2>1. reqs[r].seen \in Columns
    BY <1>1, <1>11 DEF Local, HasRead, UpdateCommit, At
  <2> QED BY <1>1, <1>2, <1>5, <1>11, <2>1, UpdateCommitFacts
<1>12. CASE UpdateUncache(r) \/ DeleteClear(r)
  BY <1>1, <1>3, <1>5, <1>12, UpdateUncacheFacts, DeleteClearFacts
<1>13. CASE AuthenticatorBump(r) \/ InitialPassword(r)
  BY <1>1, <1>3, <1>5, <1>13, AuthenticatorBumpFacts, InitialPasswordFacts
<1>14. CASE CallStore(r) \/ ProfileWrite(r)
  <2>1. /\ UNCHANGED <<tokens, allow, missed>> /\ reqs[r].op = "call" /\ reqs[r].pc \in {"store", "write"}
        /\ \E pc \in {"judge", "uncache"} : Becomes(r, "call", pc, reqs[r].token, reqs[r].seen, reqs[r].kill)
    BY <1>1, <1>14, CallStoreFacts, ProfileWriteFacts
  <2> QED BY <1>3, <1>5, <2>1
<1>15. CASE InitialUncache(r)
  BY <1>1, <1>3, <1>15, InitialUncacheFacts DEF Becomes, Plain, Moves
<1> QED BY <1>6, <1>7, <1>8, <1>9, <1>10, <1>11, <1>12, <1>13, <1>14, <1>15

LEMMA CommitMoves ==
  ASSUME TypeInv, NEW r \in Requests, IssueCommit(r)
  PROVE  /\ Moves(r) /\ UNCHANGED <<user, allow, missed, cache, flagged, revoked, spoiled>>
         /\ reqs[r].op \in Issuing /\ reqs[r].pc = "commit"
         /\ reqs[r].seen \in Columns /\ (reqs[r].op = "refresh" => reqs[r].token \in Ids)
         /\ reqs[r].kill \subseteq Ids
         /\ Becomes(r, reqs[r].op, "allow", Len(tokens) + 1, reqs[r].seen, reqs[r].kill)
         /\ tokens' \in Seq(Toks) /\ Len(tokens') = Len(tokens) + 1
         /\ Ids' = Ids \cup {Len(tokens) + 1} /\ Len(tokens) + 1 \notin Ids
         /\ tokens'[Len(tokens) + 1].ver = reqs[r].seen.ver /\ ~tokens'[Len(tokens) + 1].out
         /\ tokens'[Len(tokens) + 1].valid
         /\ tokens'[Len(tokens) + 1].sole <=>
               reqs[r].quiet /\ (reqs[r].op = "refresh" => tokens[reqs[r].token].sole)
         /\ \A t \in Ids : /\ tokens'[t].ver = tokens[t].ver /\ tokens'[t].out = tokens[t].out
                           /\ tokens'[t].sole = tokens[t].sole
                           /\ tokens'[t].valid <=> tokens[t].valid /\ t \notin reqs[r].kill
<1>1. Shape /\ Local(reqs[r], Len(tokens)) /\ Len(tokens) \in Nat
  BY DEF TypeInv, Shape
<1>2. /\ reqs[r].seen \in Columns /\ (HasToken(reqs[r]) => reqs[r].token \in Ids)
      /\ (reqs[r].op = "refresh" => reqs[r].token \in Ids) /\ reqs[r].kill \subseteq Ids
  BY <1>1 DEF Local, HasRead, HasToken, IssueCommit, Ids, Issuing
<1>3. Moves(r)
  BY <1>1, <1>2, IssueCommitFacts DEF Becomes, Moves
<1>4. Len(tokens') = Len(tokens) + 1
  BY <1>1, <1>2, IssueCommitFacts
<1>5. Ids' = Ids \cup {Len(tokens) + 1} /\ Len(tokens) + 1 \notin Ids
  BY <1>1, <1>4 DEF Ids
<1> QED BY <1>1, <1>2, <1>3, <1>4, <1>5, IssueCommitFacts

LEMMA AllowMoves ==
  ASSUME TypeInv, NEW r \in Requests, IssueAllow(r)
  PROVE  /\ Moves(r) /\ UNCHANGED <<user, missed, cache, flagged, revoked, spoiled>>
         /\ reqs[r].op \in Issuing /\ reqs[r].pc = "allow" /\ reqs[r].token \in Ids
         /\ Stops(r) /\ allow' = allow \cup {reqs[r].token}
         /\ Len(tokens') = Len(tokens) /\ Ids' = Ids
         /\ \A t \in Ids : /\ tokens'[t].ver = tokens[t].ver /\ tokens'[t].valid = tokens[t].valid
                           /\ tokens'[t].out <=> tokens[t].out \/ t = reqs[r].token
                           /\ tokens'[t].sole <=> tokens[t].sole /\ (t = reqs[r].token => reqs[r].quiet)
<1>1. Shape /\ Local(reqs[r], Len(tokens))
  BY DEF TypeInv
<1>2. reqs[r].token \in Ids
  BY <1>1 DEF Local, HasToken, IssueAllow, Ids
<1>3. Moves(r) /\ Ids' = Ids
  BY <1>1, <1>2, IssueAllowFacts DEF Stops, Moves, Ids
<1> QED BY <1>1, <1>2, <1>3, IssueAllowFacts

LEMMA PlainAborts ==
  ASSUME TypeInv, NEW r \in Requests, Abort(r)
  PROVE  Plain(r)
<1>1. Shape
  BY DEF TypeInv
<1> QED BY <1>1, AbortFacts, IdleFacts DEF Stops, Plain, Moves, Keeps

\* A step of a request is one of these.
LEMMA Kinds ==
  ASSUME TypeInv, NEW r \in Requests, IssueStep(r) \/ UpdateStep(r) \/ OwnStep(r) \/ CallStep(r)
  PROVE  Plain(r) \/ IssueCommit(r) \/ IssueAllow(r)
BY PlainReads, PlainWrites DEF IssueStep, UpdateStep, OwnStep, CallStep


\* What the steps of nobody do to the requests and the sessions.
LEMMA OtherMoves ==
  ASSUME TypeInv, SetPassword \/ CacheExpires
  PROVE  /\ UNCHANGED <<tokens, allow, missed, flagged, revoked, spoiled>>
         /\ reqs' = reqs \/ reqs' = Disturbed
         /\ cache' \in {cache, NoUser}
         /\ user' \in Columns /\ user'.ver = user.ver /\ user'.role = user.role /\ user'.deleted = user.deleted
<1>1. user \in Columns
  BY DEF TypeInv, Shape
<1> QED BY <1>1 DEF SetPassword, CacheExpires, Columns

LEMMA QuietStep ==
  ASSUME TypeInv, QuietAlone, [Next]_vars
  PROVE  QuietAlone'
<1>1. CASE UNCHANGED vars
  BY <1>1 DEF vars, store, QuietAlone
<1>2. ASSUME NEW r \in Requests, Moves(r)
      PROVE  QuietAlone'
  BY <1>2, IdleFacts DEF Moves, QuietAlone
<1>3. ASSUME NEW r \in Requests, NEW op \in Ops, NEW t \in 0..Len(tokens), Start(r, op, t)
      PROVE  QuietAlone'
  <2>1. /\ \A q \in Requests \ {r} : reqs'[q] = Disturbed[q]
        /\ reqs'[r].quiet <=> \A q \in Requests : reqs[q].pc = "idle"
    BY <1>3, StartFacts DEF TypeInv
  <2>2. \A q \in Requests : Disturbed[q].pc = reqs[q].pc /\ (Disturbed[q].quiet => reqs[q].pc = "idle")
    BY DisturbedFacts DEF TypeInv, Shape
  <2> QED BY <2>1, <2>2 DEF QuietAlone
<1>4. CASE SetPassword \/ CacheExpires
  <2>1. \A q \in Requests : Disturbed[q].pc = reqs[q].pc /\ (Disturbed[q].quiet => reqs[q].pc = "idle")
    BY DisturbedFacts DEF TypeInv, Shape
  <2> QED BY <1>4, <2>1, OtherMoves DEF QuietAlone
<1>5. ASSUME NEW r \in Requests, IssueStep(r) \/ UpdateStep(r) \/ OwnStep(r) \/ CallStep(r)
      PROVE  Moves(r)
  BY <1>5, Kinds, CommitMoves, AllowMoves DEF Plain
<1>6. ASSUME NEW r \in Requests, Abort(r)
      PROVE  Moves(r)
  BY <1>6, PlainAborts DEF Plain
<1> QED BY <1>1, <1>2, <1>3, <1>4, <1>5, <1>6 DEF Next

LEMMA HandedStep ==
  ASSUME TypeInv, Handed, [Next]_vars
  PROVE  Handed'
<1>1. /\ allow \subseteq Ids
      /\ \A r \in Requests : reqs[r].op \in Issuing /\ reqs[r].pc = "allow" => reqs[r].token \in Ids
  BY DEF TypeInv, Shape, Local, HasToken, Ids
<1>2. ASSUME \A q \in Requests : /\ reqs'[q].op = reqs[q].op /\ reqs'[q].pc = reqs[q].pc
                                 /\ reqs'[q].token = reqs[q].token,
             UNCHANGED <<tokens, allow>>
      PROVE  Handed'
  BY <1>2 DEF Handed
<1>3. CASE UNCHANGED vars
  BY <1>2, <1>3 DEF vars, store
<1>4. ASSUME NEW r \in Requests, NEW op \in Ops, NEW t \in 0..Len(tokens), Start(r, op, t)
      PROVE  Handed'
  <2>1. /\ \A q \in Requests \ {r} : reqs'[q] = Disturbed[q]
        /\ reqs'[r].pc = FirstStep[op] /\ UNCHANGED <<tokens, allow>>
    BY <1>4, StartFacts DEF TypeInv
  <2>2. \A q \in Requests : /\ Disturbed[q].op = reqs[q].op /\ Disturbed[q].pc = reqs[q].pc
                            /\ Disturbed[q].token = reqs[q].token
    BY DisturbedFacts DEF TypeInv, Shape
  <2>3. FirstStep[op] # "allow"
    BY DEF FirstStep, Ops, Issuing, Changing
  <2> QED BY <2>1, <2>2, <2>3 DEF Handed
<1>5. CASE SetPassword \/ CacheExpires
  <2>1. \A q \in Requests : /\ Disturbed[q].op = reqs[q].op /\ Disturbed[q].pc = reqs[q].pc
                            /\ Disturbed[q].token = reqs[q].token
    BY DisturbedFacts DEF TypeInv, Shape
  <2> QED BY <1>2, <1>5, <2>1, OtherMoves
<1>6. ASSUME NEW r \in Requests, Plain(r)
      PROVE  Handed'
  <2>1. ASSUME NEW t \in allow'
        PROVE  tokens'[t].out
    BY <1>1, <1>6 DEF Handed, Plain, Keeps
  <2>2. ASSUME NEW q \in Requests, reqs'[q].op \in Issuing, reqs'[q].pc = "allow"
        PROVE  q # r /\ reqs'[q] = reqs[q] /\ ~tokens'[reqs'[q].token].out
    BY <1>1, <1>6, <2>2 DEF Handed, Plain, Keeps, Moves
  <2> QED BY <2>1, <2>2 DEF Handed
<1>7. ASSUME NEW r \in Requests, IssueCommit(r)
      PROVE  Handed'
  <2>1. /\ \A q \in Requests \ {r} : reqs'[q] = reqs[q] 
        /\ reqs'[r].token = Len(tokens) + 1
        /\ UNCHANGED allow /\ Len(tokens) + 1 \notin Ids /\ ~tokens'[Len(tokens) + 1].out
        /\ \A t \in Ids : tokens'[t].out = tokens[t].out
    BY <1>7, CommitMoves DEF Becomes
  <2> QED BY <1>1, <2>1 DEF Handed
<1>8. ASSUME NEW r \in Requests, IssueAllow(r)
      PROVE  Handed'
  <2>1. /\ \A q \in Requests \ {r} : reqs'[q] = reqs[q]
        /\ reqs'[r] = Idle /\ reqs[r].op \in Issuing /\ reqs[r].pc = "allow"
        /\ allow' = allow \cup {reqs[r].token} /\ reqs[r].token \in Ids
        /\ \A t \in Ids : tokens'[t].out <=> tokens[t].out \/ t = reqs[r].token
    BY <1>8, AllowMoves DEF Stops
  <2>2. \A t \in allow' : tokens'[t].out
    BY <1>1, <2>1 DEF Handed
  <2>3. ASSUME NEW q \in Requests, reqs'[q].op \in Issuing, reqs'[q].pc = "allow"
        PROVE  q # r /\ reqs'[q] = reqs[q] /\ ~tokens'[reqs'[q].token].out
    BY <1>1, <2>1, <2>3, IdleFacts DEF Handed
  <2> QED BY <2>2, <2>3 DEF Handed
<1> QED BY <1>3, <1>4, <1>5, <1>6, <1>7, <1>8, Kinds, PlainAborts DEF Next

-----------------------------------------------------------------------------
(* Revocation.                                                              *)

\* A revocation keeps what it has achieved while the others go on.
LEMMA RevokesKept ==
  ASSUME TypeInv, Handed, NEW q \in Requests, \A t \in reqs[q].known : tokens[t].out, Revokes(reqs[q]),
         reqs'[q].op = reqs[q].op, reqs'[q].pc = reqs[q].pc, reqs'[q].token = reqs[q].token,
         reqs'[q].kill = reqs[q].kill, reqs'[q].known = reqs[q].known,
         \A t \in Ids : tokens[t].out => /\ tokens'[t].out /\ (tokens'[t].valid => tokens[t].valid)
                                         /\ t \in allow' => t \in allow /\ (t \in missed => t \in missed')
  PROVE  (\A t \in reqs'[q].known : tokens'[t].out) /\ Revokes(reqs[q])' 
<1>1. reqs[q].known \subseteq Ids
  BY DEF TypeInv, Local, Ids
<1> QED BY <1>1 DEF Revokes


\* A session in its client's hands stays there, and nothing brings it back.
LEMMA OutStaysOut ==
  ASSUME TypeInv, Handed, [Next]_vars, NEW t \in Ids, tokens[t].out
  PROVE  /\ t \in Ids' /\ tokens'[t].out /\ (tokens'[t].valid => tokens[t].valid)
         /\ t \in allow' => t \in allow /\ (t \in missed => t \in missed')
<1>1. CASE UNCHANGED <<tokens, allow, missed>>
  BY <1>1 DEF Ids
<1>2. ASSUME NEW r \in Requests, IssueStep(r) \/ UpdateStep(r) \/ OwnStep(r) \/ CallStep(r) \/ Abort(r)
      PROVE  /\ t \in Ids' /\ tokens'[t].out /\ (tokens'[t].valid => tokens[t].valid)
             /\ t \in allow' => t \in allow /\ (t \in missed => t \in missed')
  <2>1. CASE Plain(r)
    BY <2>1 DEF Plain, Keeps, Ids
  <2>2. CASE IssueCommit(r)
    BY <2>2, CommitMoves
  <2>3. CASE IssueAllow(r)
    BY <2>3, AllowMoves DEF Handed
  <2> QED BY <1>2, <2>1, <2>2, <2>3, Kinds, PlainAborts
<1>3. ASSUME NEW r \in Requests, NEW op \in Ops, NEW i \in 0..Len(tokens), Start(r, op, i)
      PROVE  UNCHANGED <<tokens, allow, missed>>
  BY <1>3 DEF Start, store
<1>4. CASE SetPassword \/ CacheExpires
  BY <1>1, <1>4, OtherMoves
<1> QED BY <1>1, <1>2, <1>3, <1>4 DEF Next, vars, store

\* The step of a revocation itself.
LEMMA RevokesOn ==
  ASSUME TypeInv, Handed, NEW r \in Requests, Revokes(reqs[r]),
         IssueStep(r) \/ UpdateStep(r) \/ OwnStep(r) \/ CallStep(r)
  PROVE  Revokes(reqs[r])'
<1>1. Shape /\ reqs[r].known \subseteq Ids /\ Local(reqs[r], Len(tokens))
  BY DEF TypeInv, Local, Ids
<1>2. Moves(r)
  BY Kinds, CommitMoves, AllowMoves DEF Plain
<1>3. CASE reqs'[r].op \notin {"change", "delete", "logout"}
  BY <1>3 DEF Revokes
<1>4. CASE reqs'[r].op \in {"change", "delete", "logout"}
  <2>1. reqs[r].op = reqs'[r].op /\ reqs[r].op \in {"change", "delete", "logout"} /\ reqs'[r].known = reqs[r].known
    BY <1>2, <1>4, IdleFacts DEF Moves
  <2>2. \/ ChangeUser(r) \/ ChangeKill(r) \/ UpdateCommit(r) \/ UpdateUncache(r)
        \/ UpdateClear(r) \/ DeleteClear(r) \/ DeleteCommit(r) \/ LogoutSession(r) \/ LogoutFails(r)
        \/ LogoutClear(r)
    BY <2>1 DEF IssueStep, UpdateStep, OwnStep, CallStep, LoginUser, LoginKill, RefreshUser, RefreshSession, RefreshReuse,
         IssueCommit, IssueAllow, Issuing, AuthenticatorBump, AuthenticatorKill, InitialPassword, InitialUncache,
         AttemptRead, AttemptWrite, CallCheck, CallLookup, CallFetch, CallStore, CallJudge, ProfileWrite,
         ProfileUncache, At
  <2>3. CASE UpdateClear(r) \/ DeleteCommit(r) \/ LogoutClear(r) \/ LogoutFails(r)
    BY <1>1, <2>1, <2>3, UpdateClearFacts, DeleteCommitFacts, LogoutClearFacts, LogoutFailsFacts, IdleFacts DEF Stops
  <2>4. CASE ChangeUser(r)
    <3>1. /\ reqs'[r].pc = "kill" /\ UNCHANGED <<tokens, allow, missed>> /\ reqs[r].pc = "user"
          /\ reqs[r].op \in {"change", "delete"}
      BY <1>1, <2>1, <2>4, ChangeUserFacts, IdleFacts DEF Stops, Becomes
    <3> QED BY <2>1, <3>1 DEF Revokes
  <2>5. CASE ChangeKill(r)
    <3>1. /\ reqs'[r].pc = "commit" /\ reqs'[r].kill = Live /\ UNCHANGED <<tokens, allow, missed>> /\ reqs[r].pc = "kill"
          /\ reqs[r].op # "logout"
      BY <1>1, <2>5, ChangeKillFacts DEF Becomes
    <3> QED BY <1>1, <2>1, <3>1 DEF Revokes, Live, Ids
  <2>6. CASE UpdateCommit(r)
    <3>1. reqs[r].seen \in Columns
      BY <1>1, <2>6 DEF Local, HasRead, UpdateCommit, At
    <3>2. reqs'[r].pc = "uncache" /\ Fewer(reqs[r].kill) /\ reqs[r].pc = "commit" /\ reqs[r].op = "change"
      BY <1>1, <2>6, <3>1, UpdateCommitFacts DEF Becomes
    <3> QED BY <1>1, <2>1, <3>2 DEF Revokes, Fewer
  <2>7. CASE UpdateUncache(r)
    <3>1. reqs'[r].pc = "clear" /\ UNCHANGED tokens /\ reqs[r].pc = "uncache" /\ reqs[r].op = "change"
      BY <1>1, <2>7, UpdateUncacheFacts DEF Becomes
    <3> QED BY <2>1, <3>1 DEF Revokes
  <2>8. CASE DeleteClear(r)
    <3>1. reqs'[r].pc = "user" /\ missed' = allow' /\ reqs[r].op = "delete"
      BY <1>1, <2>8, DeleteClearFacts DEF Becomes
    <3> QED BY <2>1, <3>1 DEF Revokes
  <2>9. CASE LogoutSession(r)
    <3>1. /\ reqs'[r].pc = "clear" /\ Fewer({reqs[r].token}) /\ reqs[r].op = "logout"
          /\ reqs'[r].token = reqs[r].token
      BY <1>1, <2>9, LogoutSessionFacts DEF Becomes
    <3> QED BY <1>1, <2>1, <3>1 DEF Revokes, Fewer
  <2> QED BY <2>2, <2>3, <2>4, <2>5, <2>6, <2>7, <2>8, <2>9
<1> QED BY <1>3, <1>4

LEMMA RevokingStep ==
  ASSUME TypeInv, Handed, Revoking, [Next]_vars
  PROVE  Revoking'
<1>1. /\ Shape /\ revoked \subseteq Ids /\ \A q \in Requests : reqs[q].known \subseteq Ids
  BY DEF TypeInv, Shape, Local, Ids
<1>2. \A t \in Ids : tokens[t].out => /\ tokens'[t].out /\ (tokens'[t].valid => tokens[t].valid)
                                      /\ t \in allow' => t \in allow /\ (t \in missed => t \in missed')
  BY OutStaysOut
<1>3. \A t \in revoked' : ~tokens'[t].valid /\ (t \in allow' => t \in missed') /\ tokens'[t].out
  <2>1. ASSUME NEW t \in revoked
        PROVE  ~tokens'[t].valid /\ (t \in allow' => t \in missed') /\ tokens'[t].out
    BY <1>1, <1>2 DEF Revoking
  <2>2. ASSUME NEW r \in Requests, LogoutClear(r) \/ UpdateClear(r) \/ DeleteCommit(r)
        PROVE  /\ revoked' \subseteq revoked \cup reqs[r].known
               /\ \A t \in reqs[r].known : ~tokens'[t].valid /\ (t \in allow' => t \in missed') /\ tokens'[t].out
    <3>1. CASE LogoutClear(r) \/ UpdateClear(r)
      BY <1>1, <1>2, <3>1, LogoutClearFacts, UpdateClearFacts DEF Revoking, Revokes
    <3>2. CASE DeleteCommit(r)
      <4>1. /\ Fewer(reqs[r].kill) /\ revoked' = revoked \cup reqs[r].known /\ UNCHANGED <<allow, missed>>
            /\ reqs[r].op = "delete" /\ reqs[r].pc = "commit"
        BY <1>1, <3>2, DeleteCommitFacts
      <4> QED BY <1>1, <1>2, <4>1 DEF Revoking, Revokes, Fewer
    <3> QED BY <2>2, <3>1, <3>2
  <2>3. revoked' = revoked \/ \E r \in Requests : LogoutClear(r) \/ UpdateClear(r) \/ DeleteCommit(r)
    <3>1. ASSUME NEW r \in Requests, NEW op \in Ops, NEW t \in 0..Len(tokens), Start(r, op, t)
          PROVE  revoked' = revoked
      BY <3>1 DEF Start, store
    <3>2. ASSUME NEW r \in Requests, IssueStep(r)
          PROVE  revoked' = revoked
      BY <3>2 DEF IssueStep, LoginUser, LoginKill, RefreshUser, RefreshSession, RefreshReuse, IssueCommit, IssueAllow, store
    <3>3. ASSUME NEW r \in Requests, UpdateStep(r), ~UpdateClear(r), ~DeleteCommit(r)
          PROVE  revoked' = revoked
      BY <3>3 DEF UpdateStep, ChangeUser, ChangeKill, UpdateCommit, UpdateUncache, DeleteClear, store
    <3>4. ASSUME NEW r \in Requests, OwnStep(r), ~LogoutClear(r)
          PROVE  revoked' = revoked
      BY <3>4 DEF OwnStep, LogoutSession, LogoutFails, AuthenticatorBump, AuthenticatorKill, InitialPassword,
         InitialUncache, AttemptRead, AttemptWrite, store
    <3>5. ASSUME NEW r \in Requests, CallStep(r)
          PROVE  revoked' = revoked
      BY <3>5 DEF CallStep, CallCheck, CallLookup, CallFetch, CallStore, CallJudge, ProfileWrite, ProfileUncache, store
    <3>6. CASE SetPassword \/ CacheExpires
      BY <3>6, OtherMoves
    <3>7. ASSUME NEW r \in Requests, Abort(r)
          PROVE  revoked' = revoked
      BY <3>7 DEF Abort
    <3> QED BY <3>1, <3>2, <3>3, <3>4, <3>5, <3>6, <3>7 DEF Next, vars, store
  <2> QED BY <2>1, <2>2, <2>3
<1>4. ASSUME NEW q \in Requests, reqs'[q] = reqs[q] \/ reqs'[q] = Disturbed[q]
      PROVE  (\A t \in reqs'[q].known : tokens'[t].out) /\ Revokes(reqs[q])'
  <2>1. /\ reqs'[q].op = reqs[q].op /\ reqs'[q].pc = reqs[q].pc /\ reqs'[q].token = reqs[q].token
        /\ reqs'[q].kill = reqs[q].kill /\ reqs'[q].known = reqs[q].known
    BY <1>1, <1>4, DisturbedFacts DEF Shape
  <2> QED BY <1>2, <2>1, RevokesKept DEF Revoking
<1>5. \A q \in Requests : (\A t \in reqs'[q].known : tokens'[t].out) /\ Revokes(reqs[q])'
  <2>1. CASE UNCHANGED vars
    BY <1>4, <2>1 DEF vars
  <2>2. ASSUME NEW r \in Requests, NEW op \in Ops, NEW t \in 0..Len(tokens), Start(r, op, t), NEW q \in Requests
        PROVE  (\A i \in reqs'[q].known : tokens'[i].out) /\ Revokes(reqs[q])'
    <3>1. CASE q # r
      <4>1. reqs'[q] = Disturbed[q]
        BY <1>1, <2>2, <3>1, StartFacts
      <4> QED BY <1>4, <4>1
    <3>2. CASE q = r
      <4>1. /\ reqs'[r].op = op /\ reqs'[r].pc = FirstStep[op] /\ reqs'[r].known = Ended(op, t) /\ reqs'[r].token = t
            /\ UNCHANGED <<tokens, allow>> /\ \A i \in Ended(op, t) : tokens[i].out
        BY <1>1, <2>2, StartFacts
      <4>2. /\ op = "change" => FirstStep[op] = "user"
            /\ op = "delete" => FirstStep[op] = "clear"
            /\ op = "logout" => FirstStep[op] = "session" /\ Ended(op, t) = {t}
        BY DEF FirstStep, Ended
      <4> QED BY <3>2, <4>1, <4>2 DEF Revokes
    <3> QED BY <3>1, <3>2
  <2>3. CASE SetPassword \/ CacheExpires
    <3>1. reqs' = reqs \/ reqs' = Disturbed
      BY <2>3, OtherMoves
    <3> QED BY <1>4, <3>1
  <2>4. ASSUME NEW r \in Requests, IssueStep(r) \/ UpdateStep(r) \/ OwnStep(r) \/ CallStep(r), NEW q \in Requests
        PROVE  (\A t \in reqs'[q].known : tokens'[t].out) /\ Revokes(reqs[q])'
    <3>1. Moves(r)
      BY <2>4, Kinds, CommitMoves, AllowMoves DEF Plain
    <3>2. CASE q # r
      BY <1>4, <3>1, <3>2 DEF Moves
    <3>3. CASE q = r
      <4>1. \A t \in reqs'[r].known : tokens'[t].out
        BY <1>1, <1>2, <3>1, IdleFacts DEF Moves, Revoking
      <4> QED BY <2>4, <3>3, <4>1, RevokesOn DEF Revoking
    <3> QED BY <3>2, <3>3
  <2>5. ASSUME NEW r \in Requests, Abort(r), NEW q \in Requests
        PROVE  (\A t \in reqs'[q].known : tokens'[t].out) /\ Revokes(reqs[q])'
    <3>1. reqs'[r] = Idle /\ \A p \in Requests \ {r} : reqs'[p] = reqs[p]
      BY <1>1, <2>5, AbortFacts DEF Stops
    <3> QED BY <1>4, <3>1, IdleFacts DEF Revokes
  <2> QED BY <2>1, <2>2, <2>3, <2>4, <2>5 DEF Next
<1> QED BY <1>3, <1>5 DEF Revoking


-----------------------------------------------------------------------------
(* One live session.                                                        *)

\* Sole sessions come only from the commit of an undisturbed issue.
LEMMA SolesFewer ==
  ASSUME TypeInv, \/ \E r \in Requests : Plain(r) \/ IssueAllow(r)
                  \/ UNCHANGED tokens
  PROVE  Soles' \subseteq Soles
<1>1. CASE UNCHANGED tokens
  BY <1>1 DEF Soles, Ids
<1>2. ASSUME NEW r \in Requests, Plain(r)
      PROVE  Soles' \subseteq Soles
  BY <1>2 DEF Plain, Keeps, Soles, Ids
<1>3. ASSUME NEW r \in Requests, IssueAllow(r)
      PROVE  Soles' \subseteq Soles
  <2>1. Ids' = Ids /\ \A t \in Ids : tokens'[t].valid = tokens[t].valid /\ (tokens'[t].sole => tokens[t].sole)
    BY <1>3, AllowMoves
  <2> QED BY <2>1 DEF Soles
<1> QED BY <1>1, <1>2, <1>3

LEMMA SolesCommit ==
  ASSUME TypeInv, OneSole, NEW r \in Requests, IssueCommit(r)
  PROVE  /\ Soles' \subseteq (Soles \ reqs[r].kill) \cup {Len(tokens) + 1}
         /\ Len(tokens) + 1 \in Soles' => Soles' = {Len(tokens) + 1}
<1> DEFINE n == Len(tokens) + 1
<1>1. /\ reqs[r].op \in Issuing /\ reqs[r].pc = "commit"
      /\ reqs[r].op = "refresh" => reqs[r].token \in Ids
      /\ Ids' = Ids \cup {n} /\ n \notin Ids
      /\ tokens'[n].sole <=> reqs[r].quiet /\ (reqs[r].op = "refresh" => tokens[reqs[r].token].sole)
      /\ \A t \in Ids : tokens'[t].sole = tokens[t].sole /\ (tokens'[t].valid <=> tokens[t].valid /\ t \notin reqs[r].kill)
  BY CommitMoves
<1> HIDE DEF n
<1>2. Soles' \subseteq (Soles \ reqs[r].kill) \cup {n}
  BY <1>1 DEF Soles
<1>3. ASSUME n \in Soles'
      PROVE  Soles \subseteq reqs[r].kill
  <2>1. reqs[r].quiet /\ (reqs[r].op = "refresh" => tokens[reqs[r].token].sole)
    BY <1>1, <1>3 DEF Soles
  <2>2. Replaces(reqs[r])
    BY DEF OneSole
  <2>3. CASE reqs[r].op = "login"
    BY <1>1, <2>1, <2>2, <2>3 DEF Replaces
  <2>4. CASE reqs[r].op = "refresh"
    <3>1. reqs[r].token \in Soles /\ reqs[r].token \in reqs[r].kill
      BY <1>1, <2>1, <2>2, <2>4 DEF Replaces, Soles
    <3> QED BY <3>1 DEF OneSole
  <2> QED BY <1>1, <2>3, <2>4 DEF Issuing
<1>4. n \in Soles' => Soles' = {n}
  BY <1>2, <1>3
<1> QED BY <1>2, <1>4 DEF n

LEMMA OneSoleStep ==
  ASSUME TypeInv, QuietAlone, OneSole, [Next]_vars
  PROVE  OneSole'
<1>1. Shape
  BY DEF TypeInv
<1>2. ASSUME NEW r \in Requests, IssueStep(r) \/ UpdateStep(r) \/ OwnStep(r) \/ CallStep(r)
      PROVE  OneSole'
  <2>1. Moves(r)
    BY <1>2, Kinds, CommitMoves, AllowMoves DEF Plain
  <2>2. \A t, u \in Soles' : t = u
    <3>1. CASE IssueCommit(r)
      BY <3>1, SolesCommit DEF OneSole
    <3>2. CASE Plain(r) \/ IssueAllow(r)
      BY <3>2, SolesFewer DEF OneSole
    <3> QED BY <1>2, <3>1, <3>2, Kinds
  <2>3. ASSUME NEW q \in Requests \ {r}
        PROVE  Replaces(reqs[q])'
    BY <2>1 DEF Moves, QuietAlone, Replaces
  <2>4. Replaces(reqs[r])'
    <3>1. CASE LoginKill(r)
      <4>1. UNCHANGED tokens /\ reqs'[r].op = "login" /\ reqs'[r].kill = Live
        BY <1>1, <3>1, LoginKillFacts DEF Becomes
      <4> QED BY <4>1 DEF Replaces, Soles, Live, Ids
    <3>2. CASE RefreshSession(r)
      <4>1. /\ UNCHANGED tokens
            /\ \/ reqs'[r] = Idle
               \/ reqs'[r].pc = "reuse"
               \/ /\ reqs'[r].op = "refresh" /\ reqs'[r].token = reqs[r].token /\ reqs'[r].kill = {reqs[r].token}
                  /\ tokens[reqs[r].token].valid
        BY <1>1, <3>2, RefreshSessionFacts DEF Becomes, Stops
      <4> QED BY <4>1, IdleFacts DEF Replaces
    <3>3. CASE ~LoginKill(r) /\ ~RefreshSession(r)
      <4>1. reqs'[r].pc # "commit" \/ reqs'[r].op \in {"change", "delete"}
        <5>1. CASE LoginUser(r) \/ RefreshUser(r) \/ ChangeUser(r) \/ AttemptRead(r)
          BY <1>1, <5>1, LoginUserFacts, RefreshUserFacts, ChangeUserFacts, AttemptReadFacts, IdleFacts
             DEF Stops, Becomes
        <5>2. CASE ChangeKill(r)
          BY <1>1, <5>2, ChangeKillFacts DEF Becomes
        <5>3. CASE CallCheck(r) \/ CallLookup(r) \/ CallFetch(r) \/ CallStore(r) \/ CallJudge(r) \/ ProfileWrite(r) \/ ProfileUncache(r)
          BY <1>1, <5>3, CallCheckFacts, CallLookupFacts, CallFetchFacts, CallStoreFacts, CallJudgeFacts,
             ProfileWriteFacts, ProfileUncacheFacts, IdleFacts DEF Stops, Becomes
        <5>4. CASE \/ RefreshReuse(r) \/ LogoutClear(r) \/ LogoutFails(r) \/ UpdateClear(r) \/ DeleteCommit(r)
                   \/ AuthenticatorKill(r) \/ AttemptWrite(r)
          BY <1>1, <5>4, RefreshReuseFacts, LogoutClearFacts, LogoutFailsFacts, UpdateClearFacts, DeleteCommitFacts,
             AuthenticatorKillFacts, AttemptWriteFacts, IdleFacts DEF Stops
        <5>5. CASE IssueCommit(r) \/ IssueAllow(r)
          BY <1>1, <5>5, CommitMoves, AllowMoves, IdleFacts DEF Stops, Becomes
        <5>6. CASE LogoutSession(r) \/ UpdateUncache(r) \/ DeleteClear(r)
          BY <1>1, <5>6, LogoutSessionFacts, UpdateUncacheFacts, DeleteClearFacts DEF Becomes
        <5>7. CASE AuthenticatorBump(r) \/ InitialPassword(r) \/ InitialUncache(r)
          BY <1>1, <5>7, AuthenticatorBumpFacts, InitialPasswordFacts, InitialUncacheFacts DEF Becomes
        <5>8. CASE UpdateCommit(r)
          BY <1>1, <5>8, GoesOn DEF UpdateCommit, Steps, Shape, Becomes
        <5> QED BY <1>2, <3>3, <5>1, <5>2, <5>3, <5>4, <5>5, <5>6, <5>7, <5>8
              DEF IssueStep, UpdateStep, OwnStep, CallStep
      <4> QED BY <4>1 DEF Replaces
    <3> QED BY <3>1, <3>2, <3>3
  <2> QED BY <2>2, <2>3, <2>4 DEF OneSole
<1>3. ASSUME UNCHANGED tokens,
             \A q \in Requests : reqs'[q] = reqs[q] \/ reqs'[q].pc # "commit" \/ ~reqs'[q].quiet
      PROVE  OneSole'
  BY <1>3 DEF OneSole, Soles, Ids, Replaces
<1>4. \A q \in Requests : Disturbed[q].pc = reqs[q].pc /\ (Disturbed[q].quiet => reqs[q].pc = "idle")
  BY <1>1, DisturbedFacts DEF Shape
<1>5. ASSUME NEW r \in Requests, NEW op \in Ops, NEW t \in 0..Len(tokens), Start(r, op, t)
      PROVE  OneSole'
  <2>1. UNCHANGED tokens /\ reqs'[r].pc = FirstStep[op] /\ \A q \in Requests \ {r} : reqs'[q] = Disturbed[q]
    BY <1>1, <1>5, StartFacts
  <2>2. FirstStep[op] # "commit"
    BY DEF FirstStep, Ops, Issuing, Changing
  <2> QED BY <1>3, <1>4, <2>1, <2>2
<1>6. CASE SetPassword \/ CacheExpires
  BY <1>3, <1>4, <1>6, OtherMoves
<1>7. CASE UNCHANGED vars
  BY <1>3, <1>7 DEF vars, store
<1>8. ASSUME NEW r \in Requests, Abort(r)
      PROVE  OneSole'
  <2>1. UNCHANGED tokens /\ reqs'[r] = Idle /\ \A q \in Requests \ {r} : reqs'[q] = reqs[q]
    BY <1>1, <1>8, AbortFacts DEF Stops
  <2> QED BY <1>3, <2>1, IdleFacts
<1> QED BY <1>2, <1>5, <1>6, <1>7, <1>8 DEF Next


-----------------------------------------------------------------------------
(* What an administrator decided.                                           *)

\* A step that is not one of a request that was there: one comes in, the
\* account is opened, the cache entry expires.
Background ==
  /\ UNCHANGED <<tokens, allow, missed, spoiled>> /\ cache' \in {cache, NoUser}
  /\ user' \in Columns /\ user'.ver = user.ver /\ user'.role = user.role /\ user'.deleted = user.deleted
  /\ \A q \in Requests :
       \/ /\ reqs'[q].op = reqs[q].op /\ reqs'[q].pc = reqs[q].pc /\ reqs'[q].token = reqs[q].token
          /\ reqs'[q].seen = reqs[q].seen /\ reqs'[q].kill = reqs[q].kill
          /\ reqs'[q].quiet => reqs[q].quiet
       \/ /\ reqs'[q].pc \in {"user", "clear", "session", "check"} /\ ~HasRead(reqs'[q])
          /\ reqs'[q].op = "delete" => reqs'[q].pc = "clear"
          /\ reqs'[q].op = "call" => reqs'[q].pc = "check"
          /\ reqs[q].pc = "idle"

LEMMA BackgroundSteps ==
  ASSUME TypeInv,
         \/ \E r \in Requests, op \in Ops, t \in 0..Len(tokens) : Start(r, op, t)
         \/ SetPassword \/ CacheExpires
         \/ UNCHANGED vars
  PROVE  Background
<1>1. Shape /\ user \in Columns
  BY DEF TypeInv, Shape
<1>2. \A q \in Requests :
         /\ Disturbed[q].op = reqs[q].op /\ Disturbed[q].pc = reqs[q].pc /\ Disturbed[q].token = reqs[q].token
         /\ Disturbed[q].seen = reqs[q].seen /\ Disturbed[q].kill = reqs[q].kill
         /\ Disturbed[q].quiet => reqs[q].quiet
  BY <1>1, DisturbedFacts DEF Shape
<1>3. ASSUME NEW r \in Requests, NEW op \in Ops, NEW t \in 0..Len(tokens), Start(r, op, t)
      PROVE  Background
  <2>1. /\ UNCHANGED <<user, tokens, allow, missed, cache, spoiled>> /\ reqs[r].pc = "idle"
        /\ reqs'[r].op = op /\ reqs'[r].pc = FirstStep[op] /\ \A q \in Requests \ {r} : reqs'[q] = Disturbed[q]
    BY <1>1, <1>3, StartFacts
  <2>2. /\ FirstStep[op] \in {"user", "clear", "session", "check"}
        /\ op = "delete" => FirstStep[op] = "clear"
        /\ op = "call" => FirstStep[op] = "check"
        /\ op = "refresh" => FirstStep[op] = "user"
    BY DEF FirstStep, Ops, Issuing, Changing
  <2>3. ~HasRead(reqs'[r])
    BY <2>1, <2>2 DEF HasRead
  <2> QED BY <1>1, <1>2, <2>1, <2>2, <2>3 DEF Background
<1>4. CASE SetPassword \/ CacheExpires
  BY <1>1, <1>2, <1>4, OtherMoves DEF Background
<1>5. CASE UNCHANGED vars
  BY <1>1, <1>5 DEF Background, vars, store
<1> QED BY <1>3, <1>4, <1>5

LEMMA DecidingRests ==
  ASSUME TypeInv, Deciding, Background
  PROVE  Deciding'
<1>1. Soles' = Soles /\ Ids' = Ids
  BY DEF Background, Soles, Ids
<1>2. \A u : Copy(u)' => Copy(u)
  BY DEF Background, Copy
<1>3. \A q \in Requests : HasRead(reqs'[q]) => HasRead(reqs[q]) /\ reqs'[q].seen = reqs[q].seen
  BY DEF Background, HasRead
<1>4. Versions'
  BY <1>1, <1>2, <1>3 DEF Background, Deciding, Versions
<1>5. Deleting'
  BY <1>1 DEF Background, Deciding, Deleting
<1>6. ASSUME NEW q \in Requests
      PROVE  Issues(reqs[q])'
  <2>1. Issues(reqs[q])
    BY DEF Deciding
  <2>2. CASE /\ reqs'[q].op = reqs[q].op /\ reqs'[q].pc = reqs[q].pc /\ reqs'[q].token = reqs[q].token
             /\ reqs'[q].seen = reqs[q].seen /\ reqs'[q].kill = reqs[q].kill
             /\ reqs'[q].quiet => reqs[q].quiet
    BY <2>1, <2>2 DEF Background, Issues, HasRead
  <2>3. CASE reqs'[q].pc \in {"user", "clear", "session", "check"} /\ ~HasRead(reqs'[q])
    BY <2>3 DEF Issues
  <2> QED BY <2>2, <2>3 DEF Background
<1>7. PICK v \in 0..user.ver : Decided(v)
  BY DEF Deciding
<1>8. Decided(v)'
  <2>1. "role" \notin spoiled' => \A u \in Columns : Copy(u)' /\ u.ver >= v => u.role = user'.role
    BY <1>2, <1>7 DEF Background, Decided
  <2>2. \/ \E r \in Requests : reqs'[r].op = "change" /\ reqs'[r].pc \in {"uncache", "clear"}
        \/ \A t \in allow' \ missed' : tokens'[t].sole => tokens'[t].ver >= v
    BY <1>7 DEF Background, Decided
  <2>3. \A r \in Requests :
          /\ reqs'[r].op = "call" /\ reqs'[r].pc \notin {"check", "uncache"}
               /\ reqs'[r].quiet /\ tokens'[reqs'[r].token].sole /\ reqs'[r].token \notin missed'
                 => tokens'[reqs'[r].token].ver >= v
          /\ reqs'[r].op = "call" /\ reqs'[r].pc = "write" => tokens'[reqs'[r].token].ver = reqs'[r].seen.ver
    BY <1>7 DEF Background, Decided
  <2> QED BY <2>1, <2>2, <2>3 DEF Decided
<1> QED BY <1>4, <1>5, <1>6, <1>7, <1>8 DEF Background, Deciding


\* The steps of a request.
Step(r) == IssueStep(r) \/ UpdateStep(r) \/ OwnStep(r) \/ CallStep(r)

\* No step but those of a call takes or stores a copy of the user object.
LEMMA NotCall ==
  ASSUME TypeInv, NEW r \in Requests, Step(r), ~CallStep(r)
  PROVE  cache' \in {cache, NoUser} /\ reqs'[r].op # "call" /\ reqs[r].op # "call"
<1>1. Moves(r)
  BY Kinds, CommitMoves, AllowMoves DEF Plain, Step
<1>2. reqs[r].op # "call"
  BY DEF Step, IssueStep, UpdateStep, OwnStep, LoginUser, LoginKill, RefreshUser, RefreshSession, RefreshReuse,
         IssueCommit, IssueAllow, Issuing, AuthenticatorBump, AuthenticatorKill, InitialPassword, InitialUncache,
         LogoutSession, LogoutFails, LogoutClear, AttemptRead, AttemptWrite, ChangeUser, ChangeKill, UpdateCommit,
         UpdateUncache, UpdateClear, DeleteClear, DeleteCommit, At
<1>3. IssueStep(r) => cache' \in {cache, NoUser}
  BY DEF IssueStep, LoginUser, LoginKill, RefreshUser, RefreshSession, RefreshReuse, IssueCommit, IssueAllow, store
<1>4. UpdateStep(r) => cache' \in {cache, NoUser}
  BY DEF UpdateStep, ChangeUser, ChangeKill, UpdateCommit, UpdateUncache, UpdateClear, DeleteClear, DeleteCommit, store
<1>5. OwnStep(r) => cache' \in {cache, NoUser}
  BY DEF OwnStep, LogoutSession, LogoutFails, LogoutClear, AuthenticatorBump, AuthenticatorKill, InitialPassword,
         InitialUncache, AttemptRead, AttemptWrite, store
<1>6. cache' \in {cache, NoUser}
  BY <1>3, <1>4, <1>5 DEF Step
<1>7. reqs'[r].op # "call"
  BY <1>1, <1>2, IdleFacts DEF Moves
<1> QED BY <1>2, <1>6, <1>7

\* What a call does.
LEMMA CallMoves ==
  ASSUME TypeInv, NEW r \in Requests, CallStep(r)
  PROVE  /\ UNCHANGED <<tokens, allow, missed, revoked>> /\ reqs[r].op = "call" /\ reqs[r].pc # "idle"
         /\ user' \in Columns /\ user'.ver = user.ver /\ user'.deleted = user.deleted
         /\ ProfileWrite(r) \/ (user' = user /\ spoiled' = spoiled)
         /\ reqs' \in [Requests -> Regs] /\ \A q \in Requests \ {r} : reqs'[q] = reqs[q]
         /\ \/ reqs'[r] = Idle
            \/ /\ reqs'[r].op = "call" /\ reqs'[r].token = reqs[r].token /\ reqs'[r].quiet = reqs[r].quiet
               /\ reqs'[r].pc # "check"
               /\ reqs[r].pc = "check" => reqs[r].token \in allow
               /\ reqs[r].pc # "uncache"
               /\ reqs'[r].pc = "write" => tokens[reqs[r].token].ver = reqs'[r].seen.ver
         /\ \A u : Copy(u)' => Copy(u) \/ (u = user /\ CallFetch(r))
<1>1. Shape /\ user \in Columns /\ Local(reqs[r], Len(tokens))
  BY DEF TypeInv, Shape
<1>2. ASSUME reqs'[r] = Idle, cache' \in {cache, NoUser}, \A q \in Requests \ {r} : reqs'[q] = reqs[q], NEW u, Copy(u)'
      PROVE  Copy(u)
  BY <1>2, IdleFacts DEF Copy
<1>3. CASE CallCheck(r)
  <2>1. UNCHANGED cache /\ \A u : Copy(u)' => Copy(u)
    BY <1>1, <1>2, <1>3, CallCheckFacts DEF Stops, Becomes, Copy
  <2> QED BY <1>1, <1>3, <2>1, CallCheckFacts DEF Stops, Becomes
<1>4. CASE CallLookup(r)
  <2>1. \A u : Copy(u)' => Copy(u)
    BY <1>1, <1>4, CallLookupFacts DEF Becomes, Copy
  <2> QED BY <1>1, <1>4, <2>1, CallLookupFacts DEF Becomes
<1>5. CASE CallFetch(r)
  <2>1. \A u : Copy(u)' => Copy(u) \/ u = user
    BY <1>1, <1>2, <1>5, CallFetchFacts DEF Stops, Becomes, Copy
  <2> QED BY <1>1, <1>5, <2>1, CallFetchFacts DEF Stops, Becomes
<1>6. CASE CallStore(r)
  <2>1. \A u : Copy(u)' => Copy(u)
    BY <1>1, <1>6, CallStoreFacts DEF Becomes, Copy
  <2> QED BY <1>1, <1>6, <2>1, CallStoreFacts DEF Becomes
<1>7. CASE CallJudge(r)
  <2>1. \A u : Copy(u)' => Copy(u)
    <3>1. UNCHANGED cache /\ reqs[r].op = "call" /\ reqs[r].pc = "judge"
      BY <1>1, <1>7, CallJudgeFacts
    <3>2. CASE Stops(r)
      BY <1>2, <3>1, <3>2 DEF Stops
    <3>3. CASE Becomes(r, "call", "write", reqs[r].token, reqs[r].seen, reqs[r].kill)
      BY <3>1, <3>3 DEF Becomes, Copy
    <3> QED BY <1>1, <1>7, <3>2, <3>3, CallJudgeFacts
  <2> QED BY <1>1, <1>7, <2>1, CallJudgeFacts DEF Stops, Becomes
<1>8. CASE ProfileWrite(r)
  <2>1. \A u : Copy(u)' => Copy(u)
    <3>1. UNCHANGED cache /\ reqs'[r].pc = "uncache" /\ \A q \in Requests \ {r} : reqs'[q] = reqs[q]
      BY <1>1, <1>8, ProfileWriteFacts DEF Becomes
    <3> QED BY <3>1 DEF Copy
  <2>2. user' \in Columns /\ user'.ver = user.ver /\ user'.deleted = user.deleted
    <3>1. reqs[r].seen \in Columns
      BY <1>1, <1>8, ProfileWriteFacts DEF Local, HasRead
    <3> QED BY <1>1, <1>8, <3>1, ProfileWriteFacts, ProfileRow
  <2> QED BY <1>1, <1>8, <2>1, <2>2, ProfileWriteFacts DEF Becomes
<1>9. CASE ProfileUncache(r)
  <2>1. \A u : Copy(u)' => Copy(u)
    BY <1>1, <1>2, <1>9, ProfileUncacheFacts DEF Stops
  <2> QED BY <1>1, <1>9, <2>1, ProfileUncacheFacts DEF Stops
<1> QED BY <1>3, <1>4, <1>5, <1>6, <1>7, <1>8, <1>9 DEF CallStep

\* The copies after a step: those there were, and the row itself.
LEMMA CopyMoves ==
  ASSUME TypeInv, NEW r \in Requests, Step(r), NEW u, Copy(u)'
  PROVE  Copy(u) \/ (u = user /\ CallFetch(r))
<1>1. CASE CallStep(r)
  BY <1>1, CallMoves
<1>2. CASE ~CallStep(r)
  <2>1. cache' \in {cache, NoUser} /\ reqs'[r].op # "call" /\ \A q \in Requests \ {r} : reqs'[q] = reqs[q]
    BY <1>2, NotCall, Kinds, CommitMoves, AllowMoves DEF Plain, Step, Moves
  <2> QED BY <2>1 DEF Copy
<1> QED BY <1>1, <1>2

\* The row after a step that gives no version twice.
LEMMA RowMoves ==
  ASSUME TypeInv, NEW r \in Requests, Step(r), "version" \notin spoiled'
  PROVE  /\ "version" \notin spoiled /\ user \in Columns /\ user' \in Columns
         /\ user'.ver = user.ver \/ user'.ver = user.ver + 1
         /\ user'.role # user.role => UpdateCommit(r) \/ DeleteCommit(r) \/ ProfileWrite(r) \/ AttemptWrite(r)
         /\ user'.deleted # user.deleted => DeleteCommit(r)
         /\ UpdateCommit(r) \/ DeleteCommit(r) => user'.ver = user.ver + 1
         /\ UpdateCommit(r) \/ ("role" \in spoiled => "role" \in spoiled')
<1>1. Shape /\ user \in Columns /\ Local(reqs[r], Len(tokens))
  BY DEF TypeInv, Shape
<1>2. CASE UpdateCommit(r)
  <2>1. reqs[r].seen \in Columns
    BY <1>1, <1>2 DEF Local, HasRead, UpdateCommit, At
  <2>2. /\ spoiled' = spoiled \ {"role"}
        /\ user' \in Columns /\ user'.ver = user.ver + 1 /\ user'.deleted = user.deleted
    BY <1>1, <1>2, <2>1, UpdateCommitFacts
  <2> QED BY <1>1, <1>2, <2>2
<1>3. CASE DeleteCommit(r)
  <2>1. user' \in Columns /\ user'.ver = user.ver + 1 /\ UNCHANGED spoiled
    <3>1. /\ user' = [ver |-> user.ver + 1, role |-> "user", active |-> FALSE, deleted |-> TRUE]
          /\ UNCHANGED spoiled
      BY <1>1, <1>3, DeleteCommitFacts
    <3>2. user.ver + 1 \in Nat
      BY <1>1 DEF Columns
    <3> QED BY <3>1, <3>2 DEF Columns, Roles
  <2> QED BY <1>1, <1>3, <2>1
<1>4. CASE AuthenticatorBump(r)
  <2>1. /\ user' = [user EXCEPT !.ver = reqs[r].seen.ver + 1]
        /\ spoiled' = IF reqs[r].seen.ver # user.ver THEN spoiled \cup {"version"} ELSE spoiled
    BY <1>1, <1>4, AuthenticatorBumpFacts
  <2>2. reqs[r].seen.ver = user.ver /\ spoiled' = spoiled
    BY <2>1
  <2>3. user.ver + 1 \in Nat /\ user' = [user EXCEPT !.ver = user.ver + 1]
    BY <1>1, <2>1, <2>2 DEF Columns
  <2>4. user' \in Columns /\ user'.ver = user.ver + 1 /\ user'.deleted = user.deleted /\ user'.role = user.role
    BY <1>1, <2>3, VersionRow
  <2>5. ~UpdateCommit(r) /\ ~DeleteCommit(r)
    BY <1>4 DEF AuthenticatorBump, UpdateCommit, DeleteCommit, At
  <2> QED BY <1>1, <2>2, <2>4, <2>5
<1>5. CASE InitialPassword(r)
  <2>1. user' \in Columns /\ user'.ver = user.ver + 1 /\ user'.deleted = user.deleted /\ user'.role = user.role
    BY <1>1, <1>5, InitialPasswordFacts, BumpedRow
  <2>2. ~UpdateCommit(r) /\ ~DeleteCommit(r) /\ UNCHANGED spoiled
    BY <1>5 DEF InitialPassword, UpdateCommit, DeleteCommit, At
  <2> QED BY <1>1, <2>1, <2>2
<1>6. CASE CallStep(r)
  <2>1. ~UpdateCommit(r) /\ ~DeleteCommit(r)
    BY <1>6, CallMoves DEF UpdateCommit, DeleteCommit, At
  <2>2. spoiled' \in {spoiled, spoiled \cup {"role"}}
    BY <1>1, <1>6, CallMoves, ProfileWriteFacts
  <2> QED BY <1>1, <1>6, <2>1, <2>2, CallMoves
<1>7. CASE IssueStep(r)
  <2>1. UNCHANGED <<user, spoiled>> /\ reqs[r].op \in Issuing
    BY <1>7 DEF IssueStep, LoginUser, LoginKill, RefreshUser, RefreshSession, RefreshReuse, IssueCommit, IssueAllow,
                store, At, Issuing
  <2>2. ~UpdateCommit(r) /\ ~DeleteCommit(r)
    BY <2>1 DEF UpdateCommit, DeleteCommit, At, Issuing
  <2> QED BY <1>1, <2>1, <2>2
<1>8. CASE UpdateStep(r) /\ ~UpdateCommit(r) /\ ~DeleteCommit(r)
  <2>1. UNCHANGED <<user, spoiled>>
    BY <1>8 DEF UpdateStep, ChangeUser, ChangeKill, UpdateUncache, UpdateClear, DeleteClear, store
  <2> QED BY <1>1, <1>8, <2>1
<1>9. CASE OwnStep(r) /\ ~AuthenticatorBump(r) /\ ~InitialPassword(r) /\ ~AttemptWrite(r)
  <2>1. UNCHANGED <<user, spoiled>> /\ reqs[r].op \notin {"change", "delete"}
    BY <1>9 DEF OwnStep, LogoutSession, LogoutFails, LogoutClear, AuthenticatorKill, InitialUncache, AttemptRead, store, At
  <2>2. ~UpdateCommit(r) /\ ~DeleteCommit(r)
    BY <2>1 DEF UpdateCommit, DeleteCommit, At
  <2> QED BY <1>1, <2>1, <2>2
<1>10. CASE AttemptWrite(r)
  <2>1. /\ reqs[r].op = "attempt" /\ reqs[r].pc = "mark"
        /\ spoiled' \in {spoiled, spoiled \cup {"role"}}
        /\ reqs[r].seen \in Columns =>
             user' \in Columns /\ user'.ver = user.ver /\ user'.deleted = user.deleted
    BY <1>1, <1>10, AttemptWriteFacts
  <2>2. reqs[r].seen \in Columns /\ ~UpdateCommit(r) /\ ~DeleteCommit(r)
    BY <1>1, <2>1 DEF Local, HasRead, UpdateCommit, DeleteCommit, At
  <2> QED BY <1>1, <1>10, <2>1, <2>2
<1> QED BY <1>2, <1>3, <1>4, <1>5, <1>6, <1>7, <1>8, <1>9, <1>10 DEF Step


\* The copy of the row a request holds: the one it held, the one in the cache,
\* or the row itself, with the version 0 if the row is gone.
LEMMA ReadMoves ==
  ASSUME TypeInv, NEW r \in Requests, Step(r), HasRead(reqs'[r])
  PROVE  \/ HasRead(reqs[r]) /\ reqs'[r].seen = reqs[r].seen
         \/ cache # NoUser /\ cache \in Columns /\ reqs'[r].seen = cache
         \/ reqs'[r].seen.ver \in {0, user.ver}
<1>1. Shape /\ Local(reqs[r], Len(tokens))
  BY DEF TypeInv
<1>2. reqs'[r] # Idle
  BY IdleFacts DEF HasRead
<1>3. CASE LoginUser(r) \/ ChangeUser(r) \/ AttemptRead(r)
  BY <1>1, <1>2, <1>3, LoginUserFacts, ChangeUserFacts, AttemptReadFacts DEF Stops, Becomes
<1>4. CASE RefreshUser(r)
  BY <1>1, <1>2, <1>4, RefreshUserFacts DEF Stops, Becomes
<1>5. CASE CallFetch(r)
  BY <1>1, <1>2, <1>5, CallFetchFacts DEF Stops, Becomes
<1>6. CASE CallLookup(r)
  <2>1. CASE cache # NoUser /\ reqs'[r].seen = cache
    BY <1>1, <2>1 DEF Shape
  <2>2. CASE reqs'[r].pc = "fetch" /\ reqs'[r].op = "call"
    BY <2>2 DEF HasRead
  <2> QED BY <1>1, <1>6, <2>1, <2>2, CallLookupFacts DEF Becomes
<1>7. CASE LoginKill(r)
  BY <1>1, <1>7, LoginKillFacts DEF Becomes, HasRead
<1>8. CASE ChangeKill(r)
  BY <1>1, <1>8, ChangeKillFacts DEF Becomes, HasRead
<1>9. CASE RefreshSession(r)
  <2>1. reqs[r].op = "refresh" /\ reqs[r].pc = "session" /\ reqs'[r].seen = reqs[r].seen
    BY <1>1, <1>2, <1>9, RefreshSessionFacts DEF Becomes, Stops
  <2> QED BY <2>1 DEF HasRead
<1>10. CASE CallStore(r) \/ CallJudge(r)
  <2>1. reqs[r].op = "call" /\ reqs[r].pc \in {"store", "judge"} /\ reqs'[r].seen = reqs[r].seen
    BY <1>1, <1>2, <1>10, CallStoreFacts, CallJudgeFacts DEF Becomes, Stops
  <2> QED BY <2>1 DEF HasRead
<1>11. CASE CallCheck(r) \/ ProfileWrite(r)
  <2>1. reqs'[r].op = "call" /\ reqs'[r].pc \in {"lookup", "uncache"}
    BY <1>1, <1>2, <1>11, CallCheckFacts, ProfileWriteFacts DEF Becomes, Stops
  <2> QED BY <2>1 DEF HasRead
<1>12. CASE \/ RefreshReuse(r) \/ LogoutClear(r) \/ UpdateClear(r) \/ DeleteCommit(r) \/ AuthenticatorKill(r)
            \/ ProfileUncache(r) \/ IssueAllow(r) \/ LogoutFails(r) \/ AttemptWrite(r)
  BY <1>1, <1>2, <1>12, RefreshReuseFacts, LogoutClearFacts, UpdateClearFacts, DeleteCommitFacts,
     AuthenticatorKillFacts, ProfileUncacheFacts, AllowMoves, LogoutFailsFacts, AttemptWriteFacts DEF Stops
<1>13. CASE LogoutSession(r) \/ UpdateUncache(r) \/ DeleteClear(r)
  <2>1. /\ reqs'[r].op \in {"logout", "change", "delete"} /\ reqs'[r].pc \in {"clear", "user"}
    BY <1>1, <1>13, LogoutSessionFacts, UpdateUncacheFacts, DeleteClearFacts DEF Becomes
  <2> QED BY <2>1 DEF HasRead
<1>14. CASE AuthenticatorBump(r) \/ InitialPassword(r) \/ InitialUncache(r)
  <2>1. \/ reqs'[r].op = "authenticator" /\ reqs'[r].pc = "sessions"
        \/ reqs'[r].op = "initial" /\ reqs'[r].pc = "uncache"
        \/ reqs'[r].op = "login" /\ reqs'[r].pc = "reissue"
    BY <1>1, <1>14, AuthenticatorBumpFacts, InitialPasswordFacts, InitialUncacheFacts DEF Becomes
  <2> QED BY <2>1 DEF HasRead
<1>15. CASE UpdateCommit(r)
  <2>1. reqs[r].seen \in Columns
    BY <1>1, <1>15 DEF Local, HasRead, UpdateCommit, At
  <2>2. reqs'[r].op = "change" /\ reqs'[r].pc = "uncache"
    BY <1>1, <1>15, <2>1, UpdateCommitFacts DEF Becomes
  <2> QED BY <2>2 DEF HasRead
<1>16. CASE IssueCommit(r)
  <2>1. reqs'[r].op \in Issuing /\ reqs'[r].pc = "allow"
    BY <1>16, CommitMoves DEF Becomes
  <2> QED BY <2>1 DEF HasRead, Issuing
<1> QED BY <1>3, <1>4, <1>5, <1>6, <1>7, <1>8, <1>9, <1>10, <1>11, <1>12, <1>13, <1>14, <1>15, <1>16
      DEF Step, IssueStep, UpdateStep, OwnStep, CallStep

LEMMA VersionsMoves ==
  ASSUME TypeInv, Versions, NEW r \in Requests, Step(r), "version" \notin spoiled'
  PROVE  Versions'
<1>1. user.ver \in Nat /\ user'.ver \in Nat /\ user.ver <= user'.ver /\ \A q \in Requests \ {r} : reqs'[q] = reqs[q]
  BY RowMoves, Kinds, CommitMoves, AllowMoves DEF Columns, Moves, Plain, Step
<1>2. \A q \in Requests : HasRead(reqs[q]) => reqs[q].seen \in Columns /\ reqs[q].seen.ver <= user.ver
  BY DEF TypeInv, Local, Versions
<1>3. ASSUME NEW u \in Columns, Copy(u)'
      PROVE  u.ver <= user'.ver
  <2>1. u.ver <= user.ver /\ u.ver \in Nat
    BY <1>1, <1>3, CopyMoves DEF Versions, Columns
  <2> QED BY <1>1, <2>1
<1>4. ASSUME NEW t \in Ids'
      PROVE  tokens'[t].ver <= user'.ver
  <2>1. \A i \in Ids : tokens[i].ver \in Nat
    <3>1. tokens \in Seq(Toks)
      BY DEF TypeInv, Shape
    <3>2. \A i \in Ids : tokens[i] \in Toks
      BY <3>1 DEF Ids
    <3> QED BY <3>2 DEF Toks
  <2>2. CASE Plain(r) \/ IssueAllow(r)
    <3>1. t \in Ids /\ tokens'[t].ver = tokens[t].ver
      BY <2>2, AllowMoves DEF Plain, Keeps, Ids
    <3> QED BY <1>1, <2>1, <3>1 DEF Versions
  <2>3. CASE IssueCommit(r)
    <3>1. CASE t \in Ids
      <4>1. tokens'[t].ver = tokens[t].ver
        BY <2>3, <3>1, CommitMoves
      <4> QED BY <1>1, <2>1, <3>1, <4>1 DEF Versions
    <3>2. CASE t \notin Ids
      <4>1. tokens'[t].ver = reqs[r].seen.ver /\ HasRead(reqs[r])
        BY <2>3, <3>2, CommitMoves DEF HasRead, Issuing
      <4>2. reqs[r].seen.ver \in Nat /\ reqs[r].seen.ver <= user.ver
        BY <1>2, <4>1 DEF Columns
      <4> QED BY <1>1, <4>1, <4>2
    <3> QED BY <3>1, <3>2
  <2> QED BY <2>2, <2>3, Kinds DEF Step
<1>5. ASSUME NEW q \in Requests, HasRead(reqs'[q])
      PROVE  reqs'[q].seen.ver <= user'.ver
  <2>1. CASE q # r
    <3>1. reqs[q].seen.ver \in Nat /\ reqs[q].seen.ver <= user.ver /\ reqs'[q] = reqs[q]
      BY <1>1, <1>2, <1>5, <2>1 DEF Columns
    <3> QED BY <1>1, <3>1
  <2>2. CASE q = r
    <3>1. CASE HasRead(reqs[r]) /\ reqs'[r].seen = reqs[r].seen
      <4>1. reqs[r].seen.ver \in Nat /\ reqs[r].seen.ver <= user.ver
        BY <1>2, <3>1 DEF Columns
      <4> QED BY <1>1, <2>2, <3>1, <4>1
    <3>2. CASE cache # NoUser /\ cache \in Columns /\ reqs'[r].seen = cache
      <4>1. Copy(cache)
        BY <3>2 DEF Copy
      <4>2. cache.ver \in Nat /\ cache.ver <= user.ver
        BY <3>2, <4>1 DEF Columns, Versions
      <4> QED BY <1>1, <2>2, <3>2, <4>2
    <3>3. CASE reqs'[r].seen.ver \in {0, user.ver}
      BY <1>1, <2>2, <3>3
    <3> QED BY <1>5, <2>2, <3>1, <3>2, <3>3, ReadMoves
  <2> QED BY <2>1, <2>2
<1> QED BY <1>3, <1>4, <1>5 DEF Versions


\* A step of a request that was there overlaps no other that is quiet.
LEMMA MoverAlone ==
  ASSUME TypeInv, QuietAlone, NEW r \in Requests, Step(r), NEW q \in Requests, reqs[q].quiet, reqs[q].pc # "idle"
  PROVE  q = r
BY Kinds, CommitMoves, AllowMoves DEF Plain, Step, Moves, QuietAlone

LEMMA DeletingMoves ==
  ASSUME TypeInv, QuietAlone, OneSole, Deciding, NEW r \in Requests, Step(r), "version" \notin spoiled'
  PROVE  Deleting'
<1>1. Shape /\ Moves(r) /\ Deleting /\ Local(reqs[r], Len(tokens))
  BY Kinds, CommitMoves, AllowMoves DEF Plain, Step, TypeInv, Deciding
<1>2. user.deleted /\ IssueCommit(r) => Soles' = {}
  <2> SUFFICES ASSUME user.deleted, IssueCommit(r) PROVE Soles' = {}
    OBVIOUS
  <2> DEFINE n == Len(tokens) + 1
  <2>1. Soles' \subseteq {n} /\ Soles = {}
    BY <1>1, SolesCommit DEF Deleting
  <2>2. /\ reqs[r].op \in Issuing /\ reqs[r].pc = "commit"
        /\ reqs[r].op = "refresh" => reqs[r].token \in Ids
        /\ tokens'[n].sole <=> reqs[r].quiet /\ (reqs[r].op = "refresh" => tokens[reqs[r].token].sole)
    BY CommitMoves
  <2> HIDE DEF n
  <2>3. ASSUME n \in Soles'
        PROVE  FALSE
    <3>1. reqs[r].quiet /\ (reqs[r].op = "refresh" => tokens[reqs[r].token].sole)
      BY <2>2, <2>3 DEF Soles
    <3>2. reqs[r].op # "login"
      BY <2>2, <3>1 DEF Deciding, Issues, HasRead
    <3>3. reqs[r].op = "refresh" => tokens[reqs[r].token].valid
      BY <2>2, <3>1 DEF OneSole, Replaces
    <3> QED BY <2>1, <2>2, <3>1, <3>2, <3>3 DEF Soles, Issuing
  <2> QED BY <2>1, <2>3
<1>3. user'.deleted => Soles' = {}
  <2>1. CASE DeleteCommit(r)
    <3>1. /\ Fewer(reqs[r].kill) /\ reqs[r].op = "delete" /\ reqs[r].pc = "commit"
      BY <1>1, <2>1, DeleteCommitFacts
    <3>2. \A t \in Soles : t \in reqs[r].kill
      BY <1>1, <3>1 DEF Deleting
    <3> QED BY <3>1, <3>2 DEF Fewer, Soles, Ids
  <2>2. CASE ~DeleteCommit(r)
    <3>1. user'.deleted = user.deleted
      BY <2>2, RowMoves
    <3>2. CASE IssueCommit(r)
      BY <1>2, <3>1, <3>2
    <3>3. CASE Plain(r) \/ IssueAllow(r)
      BY <1>1, <3>1, <3>3, SolesFewer DEF Deleting
    <3> QED BY <3>2, <3>3, Kinds DEF Step
  <2> QED BY <2>1, <2>2
<1>4. ASSUME NEW q \in Requests, q # r, reqs'[q].op = "delete", reqs'[q].pc \in {"user", "kill", "commit"}
      PROVE  /\ \A t \in allow' \ missed' : ~tokens'[t].sole
             /\ reqs'[q].pc = "commit" => \A t \in Soles' : t \in reqs'[q].kill
  <2>1. /\ reqs'[q] = reqs[q] /\ \A t \in allow : t \in Ids /\ (t \notin missed => ~tokens[t].sole)
        /\ reqs[q].pc = "commit" => \A t \in Soles : t \in reqs[q].kill
    BY <1>1, <1>4 DEF Moves, Deleting, Shape
  <2>2. ~reqs[r].quiet
    BY <1>1, <1>4, <2>1 DEF Moves, QuietAlone
  <2>3. CASE Plain(r)
    BY <2>1, <2>3, SolesFewer DEF Plain, Keeps
  <2>4. CASE IssueCommit(r)
    <3>1. Soles' \subseteq Soles
      <4>1. ~tokens'[Len(tokens) + 1].sole
        BY <2>2, <2>4, CommitMoves
      <4> QED BY <2>4, <4>1, SolesCommit DEF Soles
    <3> QED BY <2>1, <2>4, <3>1, CommitMoves
  <2>5. CASE IssueAllow(r)
    BY <2>1, <2>2, <2>5, AllowMoves, SolesFewer
  <2> QED BY <2>3, <2>4, <2>5, Kinds DEF Step
<1>5. ASSUME reqs'[r].op = "delete", reqs'[r].pc \in {"user", "kill", "commit"}
      PROVE  /\ \A t \in allow' \ missed' : ~tokens'[t].sole
             /\ reqs'[r].pc = "commit" => \A t \in Soles' : t \in reqs'[r].kill
  <2>1. reqs[r].op = "delete"
    BY <1>1, <1>5, IdleFacts DEF Moves
  <2>2. DeleteClear(r) \/ ChangeUser(r) \/ ChangeKill(r) \/ DeleteCommit(r)
    BY <2>1 DEF Step, IssueStep, UpdateStep, OwnStep, CallStep, LoginUser, LoginKill, RefreshUser, RefreshSession,
         RefreshReuse, IssueCommit, IssueAllow, Issuing, AuthenticatorBump, AuthenticatorKill, InitialPassword,
         InitialUncache, LogoutSession, LogoutFails, LogoutClear, UpdateCommit, UpdateUncache, UpdateClear,
         AttemptRead, AttemptWrite, CallCheck, CallLookup, CallFetch, CallStore, CallJudge, ProfileWrite,
         ProfileUncache, At
  <2>3. CASE DeleteClear(r)
    BY <1>1, <2>3, DeleteClearFacts DEF Becomes
  <2>4. CASE ChangeUser(r)
    <3>1. UNCHANGED <<tokens, allow, missed>> /\ reqs[r].pc = "user" /\ reqs'[r].pc = "kill"
      BY <1>1, <1>5, <2>1, <2>4, ChangeUserFacts, IdleFacts DEF Becomes, Stops
    <3> QED BY <1>1, <2>1, <3>1 DEF Deleting
  <2>5. CASE ChangeKill(r)
    <3>1. UNCHANGED <<tokens, allow, missed>> /\ reqs[r].pc = "kill" /\ reqs'[r].pc = "commit" /\ reqs'[r].kill = Live
      BY <1>1, <2>5, ChangeKillFacts DEF Becomes
    <3> QED BY <1>1, <2>1, <3>1 DEF Deleting, Soles, Live, Ids
  <2>6. CASE DeleteCommit(r)
    BY <1>1, <1>5, <2>6, DeleteCommitFacts, IdleFacts DEF Stops
  <2> QED BY <2>2, <2>3, <2>4, <2>5, <2>6
<1> QED BY <1>3, <1>4, <1>5 DEF Deleting

LEMMA IssuesMoves ==
  ASSUME TypeInv, QuietAlone, OneSole, Deciding, NEW r \in Requests, Step(r), "version" \notin spoiled',
         NEW q \in Requests
  PROVE  Issues(reqs[q])'
<1>1. Shape /\ Moves(r) /\ Deleting /\ Issues(reqs[r]) /\ Local(reqs[r], Len(tokens))
  BY Kinds, CommitMoves, AllowMoves DEF Plain, Step, TypeInv, Deciding
<1> SUFFICES ASSUME reqs'[q].quiet, reqs'[q].op \in Issuing
             PROVE  /\ HasRead(reqs'[q]) /\ reqs'[q].op = "login" => ~user'.deleted
                    /\ HasRead(reqs'[q]) /\ ~user'.deleted => reqs'[q].seen.ver = user'.ver
                    /\ reqs'[q].pc = "allow" /\ tokens'[reqs'[q].token].sole => tokens'[reqs'[q].token].ver = user'.ver
  BY DEF Issues
<1>2. q = r
  <2>1. CASE q # r
    <3>1. reqs'[q] = reqs[q] /\ Local(reqs[q], Len(tokens))
      BY <1>1, <2>1 DEF Moves, TypeInv
    <3>2. reqs[q].pc # "idle"
      BY <3>1, IdleFacts DEF Local, Issuing
    <3> QED BY <3>1, <3>2, MoverAlone
  <2> QED BY <2>1
<1>3. reqs'[r] # Idle /\ reqs[r].quiet
  BY <1>1, <1>2, IdleFacts DEF Moves, Issuing
<1>4. reqs[r].op \in Issuing \/ InitialUncache(r)
  <2>1. CASE reqs'[r].op = reqs[r].op
    BY <1>2, <2>1
  <2>2. CASE reqs[r].op = "initial" /\ reqs'[r].op = "login"
    <3>1. ~IssueStep(r) /\ ~CallStep(r) /\ ~LogoutSession(r) /\ ~LogoutFails(r) /\ ~LogoutClear(r)
          /\ ~AuthenticatorBump(r) /\ ~AuthenticatorKill(r) /\ ~AttemptRead(r) /\ ~AttemptWrite(r)
      BY <2>2, CallMoves DEF IssueStep, LoginUser, LoginKill, RefreshUser, RefreshSession,
         RefreshReuse, IssueCommit, IssueAllow, Issuing, AuthenticatorBump, AuthenticatorKill, LogoutSession, LogoutFails, LogoutClear,
         AttemptRead, AttemptWrite, At
    <3>2. ~ChangeUser(r) /\ ~InitialPassword(r)
      BY <1>1, <2>2, ChangeUserFacts, InitialPasswordFacts, IdleFacts DEF Becomes, Stops
    <3>3. ~ChangeKill(r) /\ ~UpdateCommit(r) /\ ~UpdateUncache(r) /\ ~UpdateClear(r) /\ ~DeleteClear(r) /\ ~DeleteCommit(r)
      BY <2>2 DEF ChangeKill, UpdateCommit, UpdateUncache, UpdateClear, DeleteClear, DeleteCommit, At
    <3> QED BY <3>1, <3>2, <3>3 DEF Step, UpdateStep, OwnStep
  <2> QED BY <1>1, <1>3, <2>1, <2>2 DEF Moves
<1>5. CASE InitialUncache(r)
  <2>1. reqs'[r].op = "login" /\ reqs'[r].pc = "reissue"
    BY <1>1, <1>5, InitialUncacheFacts DEF Becomes
  <2> QED BY <1>2, <2>1 DEF HasRead
<1>6. CASE reqs[r].op \in Issuing
  <2>1. IssueStep(r)
    BY <1>6 DEF Step, UpdateStep, OwnStep, CallStep, AuthenticatorBump, AuthenticatorKill, InitialPassword,
         InitialUncache, LogoutSession, LogoutFails, LogoutClear, AttemptRead, AttemptWrite, UpdateCommit, UpdateUncache,
         UpdateClear, ChangeUser, ChangeKill, DeleteClear, DeleteCommit, CallCheck, CallLookup, CallFetch, CallStore, CallJudge, ProfileWrite,
         ProfileUncache, At, Issuing
  <2>2. CASE LoginUser(r)
    <3>1. reqs'[r].pc = "kill" /\ ~user.deleted /\ reqs'[r].seen = user /\ UNCHANGED user
      BY <1>1, <1>3, <2>2, LoginUserFacts DEF Becomes, Stops
    <3> QED BY <1>2, <3>1
  <2>3. CASE LoginKill(r)
    <3>1. /\ reqs'[r].pc = "commit" /\ reqs[r].op = "login" /\ HasRead(reqs[r]) /\ reqs'[r].seen = reqs[r].seen
          /\ UNCHANGED user
      BY <1>1, <2>3, LoginKillFacts DEF Becomes, HasRead
    <3> QED BY <1>1, <1>2, <1>3, <1>6, <3>1 DEF Issues
  <2>4. CASE RefreshUser(r)
    <3>1. /\ reqs'[r].pc = "session" /\ reqs'[r].op = "refresh" /\ UNCHANGED user
          /\ reqs'[r].seen.ver = IF user.deleted THEN 0 ELSE user.ver
      BY <1>1, <1>3, <2>4, RefreshUserFacts DEF Becomes, Stops
    <3> QED BY <1>2, <3>1
  <2>5. CASE RefreshSession(r)
    <3>1. /\ reqs'[r].pc \in {"commit", "reuse"} /\ reqs'[r].op = "refresh" /\ UNCHANGED user
          /\ HasRead(reqs[r]) /\ reqs'[r].seen = reqs[r].seen
      BY <1>1, <1>3, <2>5, RefreshSessionFacts DEF Becomes, Stops, HasRead
    <3> QED BY <1>1, <1>2, <1>3, <1>6, <3>1 DEF Issues
  <2>6. CASE RefreshReuse(r) \/ IssueAllow(r)
    BY <1>1, <1>3, <2>6, RefreshReuseFacts, AllowMoves DEF Stops
  <2>7. CASE IssueCommit(r)
    <3> DEFINE n == Len(tokens) + 1
    <3>1. /\ reqs'[r].pc = "allow" /\ reqs'[r].token = n /\ UNCHANGED user
          /\ reqs[r].pc = "commit" /\ HasRead(reqs[r]) /\ tokens'[n].ver = reqs[r].seen.ver
          /\ tokens'[n].sole <=> reqs[r].quiet /\ (reqs[r].op = "refresh" => tokens[reqs[r].token].sole)
          /\ reqs[r].op = "refresh" => reqs[r].token \in Ids
      BY <2>7, CommitMoves DEF Becomes, HasRead, Issuing
    <3> HIDE DEF n
    <3>2. ~HasRead(reqs'[r])
      BY <3>1 DEF HasRead
    <3>3. ASSUME tokens'[n].sole
          PROVE  ~user.deleted
      <4>1. CASE reqs[r].op = "login"
        BY <1>1, <1>3, <1>6, <3>1, <4>1 DEF Issues
      <4>2. CASE reqs[r].op = "refresh"
        <5>1. tokens[reqs[r].token].valid
          BY <1>3, <3>1, <4>2 DEF OneSole, Replaces
        <5>2. reqs[r].token \in Soles
          BY <3>1, <3>3, <4>2, <5>1 DEF Soles
        <5> QED BY <1>1, <5>2 DEF Deleting
      <4> QED BY <1>6, <4>1, <4>2 DEF Issuing
    <3>4. tokens'[n].sole => tokens'[n].ver = user'.ver
      BY <1>1, <1>3, <1>6, <3>1, <3>3 DEF Issues
    <3> QED BY <1>2, <3>1, <3>2, <3>4
  <2> QED BY <2>1, <2>2, <2>3, <2>4, <2>5, <2>6, <2>7 DEF IssueStep
<1> QED BY <1>4, <1>5, <1>6


\* A new role or a deletion is a new decision: the version it gives to the row
\* is greater than that of every copy and every token.
LEMMA DecidesAnew ==
  ASSUME Inv, "version" \notin spoiled', NEW r \in Requests, UpdateCommit(r) \/ DeleteCommit(r),
         NEW v \in Nat, v = user'.ver
  PROVE  Decided(v)'
<1>1. TypeInv /\ QuietAlone /\ Shape /\ Local(reqs[r], Len(tokens)) /\ Step(r) /\ Moves(r)
  <2>1. UpdateStep(r)
    BY DEF UpdateStep, UpdateCommit, DeleteCommit, At, Changing
  <2> QED BY <2>1, Kinds, CommitMoves, AllowMoves DEF Plain, Step, Inv, TypeInv
<1>2. /\ "version" \notin spoiled /\ user.ver \in Nat /\ user'.ver = user.ver + 1
  BY <1>1, RowMoves DEF Columns
<1>3. Deciding
  BY <1>2 DEF Inv
<1>4. reqs[r].op \in {"change", "delete"} /\ reqs'[r].op \in {"change", "delete", "none"} /\ reqs[r].pc = "commit"
  BY <1>1, IdleFacts DEF UpdateCommit, DeleteCommit, At, Moves
<1>5. ASSUME NEW u \in Columns, Copy(u)'
      PROVE  ~(u.ver >= v)
  <2>1. ~CallFetch(r)
    BY <1>4 DEF CallFetch, At
  <2>2. u.ver <= user.ver /\ u.ver \in Nat
    BY <1>1, <1>3, <1>5, <2>1, CopyMoves DEF Deciding, Versions, Columns
  <2> QED BY <1>2, <2>2
<1>6. \/ \E q \in Requests : reqs'[q].op = "change" /\ reqs'[q].pc \in {"uncache", "clear"}
      \/ \A t \in allow' \ missed' : tokens'[t].sole => tokens'[t].ver >= v
  <2>1. CASE UpdateCommit(r)
    <3>1. reqs[r].seen \in Columns
      BY <1>1, <2>1 DEF Local, HasRead, UpdateCommit, At
    <3> QED BY <1>1, <2>1, <3>1, UpdateCommitFacts DEF Becomes
  <2>2. CASE DeleteCommit(r)
    <3>1. UNCHANGED <<allow, missed>> /\ Fewer(reqs[r].kill) /\ reqs[r].op = "delete"
      BY <1>1, <2>2, DeleteCommitFacts
    <3>2. \A t \in allow \ missed : t \in Ids /\ ~tokens[t].sole
      BY <1>1, <1>3, <1>4, <3>1 DEF Deciding, Deleting, Shape
    <3> QED BY <3>1, <3>2 DEF Fewer
  <2> QED BY <2>1, <2>2
<1>7. ASSUME NEW q \in Requests, reqs'[q].op = "call"
      PROVE  /\ reqs'[q].pc \notin {"check", "uncache"} => ~reqs'[q].quiet
             /\ reqs'[q].pc = "write" => tokens'[reqs'[q].token].ver = reqs'[q].seen.ver
  <2>1. q # r /\ reqs'[q] = reqs[q]
    BY <1>1, <1>4, <1>7 DEF Moves
  <2>2. Local(reqs[q], Len(tokens)) /\ reqs[q].pc # "idle"
    BY <1>1, <1>7, <2>1, IdleFacts DEF TypeInv, Local
  <2>3. reqs[q].token \in Ids
    BY <1>7, <2>1, <2>2 DEF Local, HasToken, Ids
  <2>4. ~reqs[q].quiet
    BY <1>1, <2>1, <2>2, MoverAlone
  <2>5. tokens'[reqs[q].token].ver = tokens[reqs[q].token].ver
    BY <1>1, <1>4, <2>3, PlainWrites DEF Plain, Keeps
  <2> QED BY <1>3, <1>7, <2>1, <2>4, <2>5 DEF Deciding, Decided
<1> QED BY <1>5, <1>6, <1>7 DEF Decided

\* Every other step keeps to the last decision.
LEMMA DecidedMoves ==
  ASSUME Inv, "version" \notin spoiled', NEW r \in Requests, Step(r), ~UpdateCommit(r), ~DeleteCommit(r),
         NEW v \in 0..user.ver, Decided(v)
  PROVE  Decided(v)'
<1>1. TypeInv /\ QuietAlone /\ Handed /\ Shape /\ Local(reqs[r], Len(tokens)) /\ Moves(r)
  BY Kinds, CommitMoves, AllowMoves DEF Plain, Step, Inv, TypeInv
<1>2. /\ "version" \notin spoiled /\ user \in Columns /\ user' \in Columns
      /\ "role" \in spoiled => "role" \in spoiled'
      /\ user'.role # user.role => ProfileWrite(r) \/ AttemptWrite(r)
      /\ v \in Nat
  BY <1>1, RowMoves
<1>3. Deciding
  BY <1>2 DEF Inv
<1>4. ASSUME ProfileWrite(r), "role" \notin spoiled'
      PROVE  user'.role = user.role
  <2>1. /\ reqs[r].op = "call" /\ reqs[r].pc = "write"
        /\ user' = [user EXCEPT !.role = reqs[r].seen.role, !.active = reqs[r].seen.active]
        /\ spoiled' = IF ~Undisturbed(r) /\ user'.role # user.role THEN spoiled \cup {"role"} ELSE spoiled
    BY <1>1, <1>4, ProfileWriteFacts
  <2>2. reqs[r].seen \in Columns
    BY <1>1, <2>1 DEF Local, HasRead
  <2>3. user'.role = reqs[r].seen.role
    BY <1>2, <2>1, <2>2, ProfileRow
  <2>4. CASE Undisturbed(r)
    <3>1. Copy(reqs[r].seen)
      BY <2>1 DEF Copy
    <3>2. tokens[reqs[r].token].ver >= v /\ tokens[reqs[r].token].ver = reqs[r].seen.ver
      BY <2>1, <2>4 DEF Decided, Undisturbed
    <3> QED BY <1>2, <1>4, <2>2, <2>3, <3>1, <3>2 DEF Decided
  <2>5. CASE ~Undisturbed(r)
    BY <1>4, <2>1, <2>5
  <2> QED BY <2>4, <2>5
<1>5. ASSUME "role" \notin spoiled', NEW u \in Columns, Copy(u)', u.ver >= v
      PROVE  u.role = user'.role
  <2>1. user'.role = user.role
    BY <1>1, <1>2, <1>4, <1>5, AttemptWriteFacts
  <2>2. Copy(u) \/ u = user
    BY <1>1, <1>5, CopyMoves
  <2> QED BY <1>2, <1>5, <2>1, <2>2 DEF Decided
<1>6. \/ \E q \in Requests : reqs'[q].op = "change" /\ reqs'[q].pc \in {"uncache", "clear"}
      \/ \A t \in allow' \ missed' : tokens'[t].sole => tokens'[t].ver >= v
  <2>1. CASE UpdateClear(r)
    BY <1>1, <2>1, UpdateClearFacts
  <2>2. CASE UpdateUncache(r)
    BY <1>1, <2>2, UpdateUncacheFacts DEF Becomes
  <2>3. CASE ~UpdateClear(r) /\ ~UpdateUncache(r)
    <3>1. CASE \E q \in Requests : reqs[q].op = "change" /\ reqs[q].pc \in {"uncache", "clear"}
      <4>1. PICK q \in Requests : reqs[q].op = "change" /\ reqs[q].pc \in {"uncache", "clear"}
        BY <3>1
      <4>2. q # r
        BY <2>3, <4>1 DEF Step, IssueStep, UpdateStep, OwnStep, CallStep, LoginUser, LoginKill, RefreshUser, RefreshSession,
         RefreshReuse, IssueCommit, IssueAllow, Issuing, AuthenticatorBump, AuthenticatorKill, InitialPassword,
         InitialUncache, LogoutSession, LogoutFails, LogoutClear, UpdateCommit, ChangeUser, ChangeKill, DeleteClear, DeleteCommit,
         AttemptRead, AttemptWrite, CallCheck, CallLookup, CallFetch, CallStore, CallJudge, ProfileWrite,
         ProfileUncache, At
      <4> QED BY <1>1, <4>1, <4>2 DEF Moves
    <3>2. CASE \A t \in allow \ missed : tokens[t].sole => tokens[t].ver >= v
      <4>1. CASE Plain(r)
        BY <1>1, <3>2, <4>1 DEF Plain, Keeps, Shape
      <4>2. CASE IssueCommit(r)
        BY <1>1, <3>2, <4>2, CommitMoves DEF Shape
      <4>3. CASE IssueAllow(r)
        <5>1. /\ UNCHANGED <<user, missed>> /\ reqs[r].op \in Issuing /\ reqs[r].pc = "allow" /\ reqs[r].token \in Ids
              /\ allow' = allow \cup {reqs[r].token}
              /\ \A t \in Ids : /\ tokens'[t].ver = tokens[t].ver
                                /\ tokens'[t].sole <=> tokens[t].sole /\ (t = reqs[r].token => reqs[r].quiet)
          BY <1>1, <4>3, AllowMoves
        <5>2. tokens'[reqs[r].token].sole => tokens[reqs[r].token].ver = user.ver
          BY <1>3, <5>1 DEF Deciding, Issues
        <5> QED BY <1>1, <1>2, <3>2, <5>1, <5>2 DEF Shape, Columns
      <4> QED BY <1>1, <4>1, <4>2, <4>3, Kinds DEF Step
    <3> QED BY <3>1, <3>2 DEF Decided
  <2> QED BY <2>1, <2>2, <2>3
<1>7. ASSUME NEW q \in Requests, reqs'[q].op = "call"
      PROVE  /\ reqs'[q].pc \notin {"check", "uncache"} /\ reqs'[q].quiet /\ tokens'[reqs'[q].token].sole
                  /\ reqs'[q].token \notin missed' => tokens'[reqs'[q].token].ver >= v
             /\ reqs'[q].pc = "write" => tokens'[reqs'[q].token].ver = reqs'[q].seen.ver
  <2>1. CASE q # r
    <3>1. reqs'[q] = reqs[q] /\ Local(reqs[q], Len(tokens))
      BY <1>1, <2>1 DEF Moves, TypeInv
    <3>2. reqs[q].token \in Ids /\ reqs[q].pc # "idle"
      BY <1>7, <3>1, IdleFacts DEF Local, HasToken, Ids
    <3>3. ~reqs[q].quiet
      BY <1>1, <2>1, <3>2, MoverAlone
    <3>4. tokens'[reqs[q].token].ver = tokens[reqs[q].token].ver
      BY <1>1, <3>2, Kinds, CommitMoves, AllowMoves DEF Plain, Keeps, Step
    <3> QED BY <1>7, <3>1, <3>3, <3>4 DEF Decided
  <2>2. CASE q = r
    <3>1. CallStep(r) /\ reqs'[r] # Idle
      BY <1>1, <1>7, <2>2, NotCall, IdleFacts
    <3>2. /\ UNCHANGED <<tokens, allow, missed>> /\ reqs[r].op = "call" /\ reqs[r].pc # "idle"
          /\ reqs'[r].token = reqs[r].token /\ reqs'[r].quiet = reqs[r].quiet
          /\ reqs[r].pc = "check" => reqs[r].token \in allow
          /\ reqs[r].pc # "uncache"
          /\ reqs'[r].pc = "write" => tokens[reqs[r].token].ver = reqs'[r].seen.ver
      BY <1>1, <3>1, CallMoves
    <3>3. ASSUME reqs[r].quiet, tokens[reqs[r].token].sole, reqs[r].token \notin missed, reqs[r].pc = "check"
          PROVE  tokens[reqs[r].token].ver >= v
      <4>1. \A p \in Requests : reqs[p].op = "change" /\ reqs[p].pc \in {"uncache", "clear"} => FALSE
        BY <1>1, <3>2, <3>3 DEF QuietAlone
      <4> QED BY <3>2, <3>3, <4>1 DEF Decided
    <3> QED BY <2>2, <3>2, <3>3 DEF Decided
  <2> QED BY <2>1, <2>2
<1> QED BY <1>5, <1>6, <1>7 DEF Decided

\* A request that is cut off takes nothing back, and what it has missed counts
\* no more.
LEMMA DecidingAborts ==
  ASSUME TypeInv, Deciding, NEW r \in Requests, Abort(r)
  PROVE  Deciding'
<1>1. /\ UNCHANGED <<user, tokens, allow, cache, spoiled>>
      /\ reqs'[r] = Idle /\ \A q \in Requests \ {r} : reqs'[q] = reqs[q]
      /\ missed \subseteq missed'
      /\ reqs[r].op = "change" /\ reqs[r].pc \in {"uncache", "clear"} => missed' = allow
  BY AbortFacts DEF TypeInv, Stops
<1>2. Soles' = Soles /\ Ids' = Ids
  BY <1>1 DEF Soles, Ids
<1>3. \A u : Copy(u)' => Copy(u)
  BY <1>1, IdleFacts DEF Copy
<1>4. Versions'
  <2>1. \A q \in Requests : HasRead(reqs'[q]) => HasRead(reqs[q]) /\ reqs'[q].seen = reqs[q].seen
    BY <1>1, IdleFacts DEF HasRead
  <2> QED BY <1>1, <1>2, <1>3, <2>1 DEF Deciding, Versions
<1>5. Deleting'
  BY <1>1, <1>2, IdleFacts DEF Deciding, Deleting
<1>6. ASSUME NEW q \in Requests
      PROVE  Issues(reqs[q])'
  BY <1>1, IdleFacts DEF Deciding, Issues, Issuing, HasRead
<1>7. PICK v \in 0..user.ver : Decided(v)
  BY DEF Deciding
<1>8. Decided(v)'
  <2>1. \/ \E q \in Requests : reqs'[q].op = "change" /\ reqs'[q].pc \in {"uncache", "clear"}
        \/ \A t \in allow' \ missed' : tokens'[t].sole => tokens'[t].ver >= v
    BY <1>1, <1>7 DEF Decided
  <2>2. \A q \in Requests :
          /\ reqs'[q].op = "call" /\ reqs'[q].pc \notin {"check", "uncache"}
               /\ reqs'[q].quiet /\ tokens'[reqs'[q].token].sole /\ reqs'[q].token \notin missed'
                 => tokens'[reqs'[q].token].ver >= v
          /\ reqs'[q].op = "call" /\ reqs'[q].pc = "write" => tokens'[reqs'[q].token].ver = reqs'[q].seen.ver
    BY <1>1, <1>7, IdleFacts DEF Decided
  <2> QED BY <1>1, <1>3, <1>7, <2>1, <2>2 DEF Decided
<1> QED BY <1>1, <1>4, <1>5, <1>6, <1>7, <1>8 DEF Deciding

LEMMA DecidingStep ==
  ASSUME Inv, [Next]_vars, "version" \notin spoiled'
  PROVE  Deciding'
<1>1. TypeInv /\ QuietAlone /\ OneSole
  BY DEF Inv
<1>2. ASSUME NEW r \in Requests, Step(r)
      PROVE  Deciding'
  <2>1. /\ "version" \notin spoiled /\ user.ver \in Nat /\ user'.ver \in Nat /\ user.ver <= user'.ver
    BY <1>1, <1>2, RowMoves DEF Columns
  <2>2. Deciding
    BY <2>1 DEF Inv
  <2>3. Versions' /\ Deleting' /\ \A q \in Requests : Issues(reqs[q])'
    BY <1>1, <1>2, <2>2, VersionsMoves, DeletingMoves, IssuesMoves DEF Deciding
  <2>4. \E v \in 0..user'.ver : Decided(v)'
    <3>1. CASE UpdateCommit(r) \/ DeleteCommit(r)
      <4>1. PICK v \in Nat : v = user'.ver
        BY <2>1
      <4>2. Decided(v)'
        BY <1>2, <3>1, <4>1, DecidesAnew
      <4> QED BY <4>1, <4>2
    <3>2. CASE ~UpdateCommit(r) /\ ~DeleteCommit(r)
      <4>1. PICK v \in 0..user.ver : Decided(v)
        BY <2>2 DEF Deciding
      <4>2. Decided(v)'
        BY <1>2, <3>2, <4>1, DecidedMoves
      <4> QED BY <2>1, <4>2
    <3> QED BY <3>1, <3>2
  <2> QED BY <2>3, <2>4 DEF Deciding
<1>3. ASSUME Background
      PROVE  Deciding'
  <2>1. Deciding
    BY <1>3 DEF Background, Inv
  <2> QED BY <1>1, <1>3, <2>1, DecidingRests
<1>4. ASSUME NEW r \in Requests, Abort(r)
      PROVE  Deciding'
  <2>1. Deciding
    BY <1>4 DEF Abort, Inv
  <2> QED BY <1>1, <1>4, <2>1, DecidingAborts
<1> QED BY <1>1, <1>2, <1>3, <1>4, BackgroundSteps DEF Next, Step

-----------------------------------------------------------------------------
(* The theorems.                                                            *)

LEMMA InitInv == Init => Inv
<1> SUFFICES ASSUME Init PROVE Inv
  OBVIOUS
<1>1. TypeInv
  BY InitTyped
<1>2. Ids = {} /\ \A r \in Requests : reqs[r] = Idle
  BY DEF Init, Ids
<1>3. QuietAlone /\ Handed /\ Revoking /\ OneSole
  BY <1>2, IdleFacts DEF Init, QuietAlone, Handed, Revoking, Revokes, OneSole, Soles, Replaces, Issuing
<1>4. \A u : ~Copy(u)
  BY <1>2, IdleFacts DEF Copy, Init
<1>5. Versions /\ Deleting /\ \A r \in Requests : Issues(reqs[r])
  BY <1>2, <1>4, IdleFacts DEF Versions, Deleting, Issues, HasRead, Soles, Issuing, Init
<1>6. Decided(0) /\ user.ver = 0
  BY <1>2, <1>4, IdleFacts DEF Decided, Init
<1> QED BY <1>1, <1>3, <1>5, <1>6 DEF Inv, Deciding

LEMMA StepInv ==
  ASSUME Inv, [Next]_vars
  PROVE  Inv'
BY TypeStep, QuietStep, HandedStep, RevokingStep, OneSoleStep, DecidingStep DEF Inv

LEMMA Invariance == Spec => []Inv
BY InitInv, StepInv, PTL DEF Spec


\* Type correctness: the sessions stay within their bound, whatever logins and
\* rotations are under way; only tokens that were handed out are allowlisted; a
\* request works with sessions that exist (auth/service, user_repository.py).
THEOREM TypeCorrect == Spec => []TypeOK
<1>1. Inv => TypeOK
  <2> SUFFICES ASSUME Inv PROVE TypeOK
    OBVIOUS
  <2>1. TypeInv /\ Shape /\ Handed
    BY DEF Inv, TypeInv
  <2>2. Len(tokens) <= MaxTokens
    <3>1. Cardinality(Inserting) \in Nat /\ Len(tokens) \in Nat /\ MaxTokens \in Nat
      BY <2>1, FiniteRequests, SessionsAssumption DEF Inserting, Shape, SessionsAssumption
    <3> QED BY <2>1, <3>1 DEF TypeInv
  <2>3. \A t \in Ids : tokens[t] \in Toks
    BY <2>1 DEF Shape, Ids
  <2>4. ASSUME NEW r \in Requests
        PROVE  /\ reqs[r].op \in Ops \cup {"none"} /\ reqs[r].token \in 0..Len(tokens)
               /\ reqs[r].seen \in {NoUser} \cup Columns /\ reqs[r].kill \cup reqs[r].known \subseteq Ids
    <3>1. reqs[r] \in Regs /\ Local(reqs[r], Len(tokens))
      BY <2>1 DEF TypeInv, Shape
    <3> QED BY <3>1 DEF Regs, Local, Ids
  <2> QED BY <2>1, <2>2, <2>3, <2>4 DEF TypeOK, Shape, Handed, Toks
<1> QED BY <1>1, Invariance, PTL

\* Once an update, a deletion or a logout has reported success, no session the
\* client held when it began is valid, and no access token of it is allowed but
\* one whose removal was swallowed, however it interleaved with logins,
\* rotations and requests that were cut off (admin_users_router.py update_user
\* and delete_user, auth_router.py logout, token_allowlist.py remove_by_user).
THEOREM RevokedIsOut == Spec => []RevokedStaysOut
<1>1. Inv => RevokedStaysOut
  BY DEF Inv, Revoking, RevokedStaysOut
<1> QED BY <1>1, Invariance, PTL

\* Of the sessions issued by logins and rotations that raced with nothing, one
\* at most is valid (_issue_tokens, refresh_service.py).
THEOREM AtMostOneSession == Spec => []OneLiveSession
<1>1. Inv => OneLiveSession
  <2> SUFFICES ASSUME Inv PROVE Cardinality(Soles) <= 1
    BY DEF OneLiveSession, Soles
  <2>1. CASE Soles = {}
    BY <2>1, FS_EmptySet
  <2>2. ASSUME NEW t \in Soles
        PROVE  Cardinality(Soles) <= 1
    <3>1. Soles = {t}
      BY DEF Inv, OneSole
    <3>2. Cardinality({t}) = 1
      BY FS_Singleton
    <3> QED BY <3>1, <3>2
  <2> QED BY <2>1, <2>2
<1> QED BY <1>1, Invariance, PTL

\* An undisturbed PATCH /auth/me never undoes an administrator's decision on
\* the role, however old the cache entry it was authenticated with and wherever
\* the request that decided was cut off, as long as its token is not one that
\* the removal missed, the row got no version twice and no login attempt wrote
\* an old role (profile_service.py update_me, user_cache.py, auth_middleware.py).
THEOREM ProfileRespectsRole == Spec => ProfileKeepsRole
<1>1. ASSUME Inv, [Next]_vars
      PROVE  [\A r \in Requests : ProfileWrite(r) /\ Undisturbed(r) /\ spoiled = {} => user'.role = user.role]_vars
  <2>1. ASSUME NEW r \in Requests, ProfileWrite(r), Undisturbed(r), spoiled = {}
        PROVE  user'.role = user.role
    <3>1. Shape /\ Local(reqs[r], Len(tokens)) /\ user \in Columns /\ Deciding
      BY <1>1, <2>1 DEF Inv, TypeInv, Shape
    <3>2. /\ reqs[r].op = "call" /\ reqs[r].pc = "write"
          /\ user' = [user EXCEPT !.role = reqs[r].seen.role, !.active = reqs[r].seen.active]
      BY <2>1, <3>1, ProfileWriteFacts
    <3>3. reqs[r].seen \in Columns /\ Copy(reqs[r].seen)
      BY <3>1, <3>2 DEF Local, HasRead, Copy
    <3>4. user'.role = reqs[r].seen.role
      BY <3>1, <3>2, <3>3, ProfileRow
    <3>5. PICK v \in 0..user.ver : Decided(v)
      BY <3>1 DEF Deciding
    <3>6. tokens[reqs[r].token].ver >= v /\ tokens[reqs[r].token].ver = reqs[r].seen.ver
      BY <2>1, <3>2, <3>5 DEF Decided, Undisturbed
    <3> QED BY <2>1, <3>3, <3>4, <3>5, <3>6 DEF Decided
  <2> QED BY <2>1
<1>2. ProfileKeepsRole <=> [][\A r \in Requests : ProfileWrite(r) /\ Undisturbed(r) /\ spoiled = {} => user'.role = user.role]_vars
  BY DEF ProfileKeepsRole
<1> QED BY <1>1, <1>2, Invariance, PTL DEF Spec


=============================================================================
