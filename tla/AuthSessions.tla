--------------------------- MODULE AuthSessions ---------------------------
(* The sessions of one (non-owner) user of a tenant, and what may end them. *)
(* core/modules/auth issues, rotates and checks tokens; core/modules/users  *)
(* changes the user row; the access-token allowlist, the user cache and the *)
(* permissions-changed flag live outside of the database and are updated    *)
(* after its commits.  A request takes one step per statement, commit or    *)
(* call that another request may come between (READ COMMITTED, no locks but *)
(* that of an UPDATE on the user row); at any step it may fail or die.      *)
EXTENDS Integers, Sequences, FiniteSets

CONSTANTS
  Requests,   \* request handlers
  NoUser,     \* stands beside the values of a user object
  MaxTokens,  \* bound on the sessions issued
  MaxChanges  \* bound on the changes of the user row

ASSUME SessionsAssumption == 
  /\ MaxTokens \in Nat /\ MaxChanges \in Nat
  /\ IsFiniteSet(Requests)

VARIABLES
  user,     \* the row of the user
  tokens,   \* per issued pair: its version, its session row, who holds it
  allow,    \* the allowlisted access tokens
  missed,   \* history: those of them that a removal should have taken out, and did not
  cache,    \* the entry of the user cache, or NoUser
  flagged,  \* the permissions-changed flag was set; it may have expired since
  reqs,     \* the locals of each request
  revoked,  \* history: tokens in hand when a revocation began that is now complete
  spoiled   \* history: "role", a login attempt or a disturbed profile update has changed the
            \* role since the last decision; "version", a version was given to the row twice

store == <<user, tokens, allow, missed, cache, flagged, revoked, spoiled>>
vars  == <<store, reqs>>

Roles   == {"admin", "user"}
Columns == [ver : Nat, role : Roles, active : BOOLEAN, deleted : BOOLEAN]
Ids     == 1..Len(tokens)

Issuing  == {"login", "refresh"}
Changing == {"change", "delete", "authenticator", "initial", "logout"}
Ops      == Issuing \cup Changing \cup {"attempt", "call"}

Idle == [op |-> "none", pc |-> "idle", token |-> 0, seen |-> NoUser,
         kill |-> {}, known |-> {}, quiet |-> TRUE]

TypeOK ==
  /\ user \in Columns
  /\ Len(tokens) <= MaxTokens
  /\ \A t \in Ids : tokens[t] \in [ver : Nat, valid : BOOLEAN, out : BOOLEAN, sole : BOOLEAN]
  /\ allow \subseteq {t \in Ids : tokens[t].out} /\ missed \subseteq allow
  /\ cache \in {NoUser} \cup {u \in Columns : u.active /\ ~u.deleted}
  /\ flagged \in BOOLEAN
  /\ \A r \in Requests :
       /\ reqs[r].op \in Ops \cup {"none"}
       /\ reqs[r].token \in 0..Len(tokens)
       /\ reqs[r].seen \in {NoUser} \cup Columns
       /\ reqs[r].kill \cup reqs[r].known \subseteq Ids
  /\ revoked \subseteq Ids /\ spoiled \subseteq {"role", "version"}

Init ==
  /\ user = [ver |-> 0, role |-> "admin", active |-> TRUE, deleted |-> FALSE]
  /\ tokens = <<>> /\ allow = {} /\ missed = {} /\ cache = NoUser /\ flagged = FALSE
  /\ reqs = [r \in Requests |-> Idle] /\ revoked = {} /\ spoiled = {}

-----------------------------------------------------------------------------
(* Helpers.                                                                 *)
At(r, op, pc)  == reqs[r].op = op /\ reqs[r].pc = pc
Goes(r, pc)    == reqs' = [reqs EXCEPT ![r].pc = pc]
Ends(r)        == reqs' = [reqs EXCEPT ![r] = Idle]
Live           == {t \in Ids : tokens[t].valid}
Killed(ts)     == [t \in Ids |-> [tokens[t] EXCEPT !.valid = @ /\ t \notin ts]]
\* get_by_id and get_by_email leave deleted rows out.
Present        == ~user.deleted
\* The version refresh compares with: 0 when the row is gone.
CurrentVersion == IF Present THEN user.ver ELSE 0
\* An UPDATE of the user row waits for a service.update that has written it.
RowLocked      == \E r \in Requests : At(r, "change", "commit")

InFlight(ops)  == Cardinality({r \in Requests : reqs[r].op \in ops})

\* Requests that overlap are "not quiet".
Disturbed == [r \in Requests |-> [reqs[r] EXCEPT !.quiet = @ /\ reqs[r].pc = "idle"]]

\* Where an operation begins, and the tokens it is to end.
FirstStep == [login |-> "user", refresh |-> "user", change |-> "user", delete |-> "clear",
              authenticator |-> "user", initial |-> "user", logout |-> "session", attempt |-> "user", call |-> "check"]
Ended(op, t) == CASE op = "logout"             -> {t}
                  [] op \in {"change", "delete"} -> {i \in Ids : tokens[i].out}
                  [] OTHER                      -> {}

\* A request comes in.
Start(r, op, t) ==
  /\ reqs[r].pc = "idle"
  /\ op \in {"refresh", "logout", "call"} => t \in Ids /\ tokens[t].out
  /\ op \in Ops \ {"refresh", "logout", "call"} => t = 0
  /\ op = "attempt" => Present /\ user.active
  /\ op \in Issuing => Len(tokens) + InFlight(Issuing) < MaxTokens
  /\ op \in Changing \ {"logout"} => user.ver + InFlight(Changing) < MaxChanges
  /\ reqs' = [Disturbed EXCEPT ![r] =
       [Idle EXCEPT !.op = op, !.pc = FirstStep[op], !.token = t, !.known = Ended(op, t),
                    !.quiet = \A q \in Requests : reqs[q].pc = "idle"]]
  /\ UNCHANGED store

-----------------------------------------------------------------------------
(* Issuing: login (the step that ends it), and the rotation of a refresh    *)
(* token.                                                                   *)
\* _login_step1/_login_step2: the user must be there and active;
\* issue_tokens_for_user, after an initial password, does not ask.
LoginUser(r) ==
  /\ reqs[r].op = "login" /\ reqs[r].pc \in {"user", "reissue"}
  /\ IF Present /\ (user.active \/ reqs[r].pc = "reissue")
     THEN reqs' = [reqs EXCEPT ![r].pc = "kill", ![r].seen = user]
     ELSE Ends(r)
  /\ UNCHANGED store

\* _issue_tokens: the UPDATE of the sessions it sees, before the INSERT.
LoginKill(r) ==
  /\ At(r, "login", "kill")
  /\ reqs' = [reqs EXCEPT ![r].pc = "commit", ![r].kill = Live]
  /\ UNCHANGED store

\* refresh: the version of the token against that of the row.
RefreshUser(r) ==
  /\ At(r, "refresh", "user")
  /\ IF tokens[reqs[r].token].ver = CurrentVersion
     THEN reqs' = [reqs EXCEPT ![r].pc = "session",
                               ![r].seen = [user EXCEPT !.ver = CurrentVersion]]
     ELSE Ends(r)
  /\ UNCHANGED store

\* A slip: the old session stays valid.
RotateKeeps(r) == {}
\* The session row is to be replaced by its successor.
Rotated(r) == {reqs[r].token}

\* refresh: a session that is no longer valid was used before; all go, unless
\* the permissions-changed flag explains it.
RefreshSession(r) ==
  /\ At(r, "refresh", "session")
  /\ IF tokens[reqs[r].token].valid
     THEN reqs' = [reqs EXCEPT ![r].pc = "commit", ![r].kill = Rotated(r)]
     ELSE \/ flagged /\ Ends(r)
          \/ reqs' = [reqs EXCEPT ![r].pc = "reuse", ![r].kill = Live]
  /\ UNCHANGED store

RefreshReuse(r) ==
  /\ At(r, "refresh", "reuse")
  /\ tokens' = Killed(reqs[r].kill)
  /\ Ends(r)
  /\ UNCHANGED <<user, allow, missed, cache, flagged, revoked, spoiled>>

\* The transaction of login or refresh commits: old sessions out, one in.
IssueCommit(r) ==
  /\ reqs[r].op \in Issuing /\ reqs[r].pc = "commit"
  /\ tokens' = Append(Killed(reqs[r].kill),
                 [ver |-> reqs[r].seen.ver, valid |-> TRUE, out |-> FALSE,
                  sole |-> reqs[r].quiet
                           /\ (reqs[r].op = "refresh" => tokens[reqs[r].token].sole)])
  /\ reqs' = [reqs EXCEPT ![r].pc = "allow", ![r].token = Len(tokens) + 1]
  /\ UNCHANGED <<user, allow, missed, cache, flagged, revoked, spoiled>>

\* The router registers the access token and answers.  (If it cannot, the
\* request ends: nobody holds what it may have registered.)
IssueAllow(r) ==
  /\ reqs[r].op \in Issuing /\ reqs[r].pc = "allow"
  /\ LET t == reqs[r].token IN
       /\ allow' = allow \cup {t}
       /\ tokens' = [tokens EXCEPT ![t] = [tokens[t] EXCEPT !.out = TRUE, !.sole = @ /\ reqs[r].quiet]]
  /\ Ends(r)
  /\ UNCHANGED <<user, missed, cache, flagged, revoked, spoiled>>

-----------------------------------------------------------------------------
(* Ending: logout, an administrator's update or deletion, the lockout, the  *)
(* switch of the authenticator.                                             *)
\* allowlist_remove_by_user: without Redis, or when it fails, it returns as if
\* all were done (token_allowlist.py:105-106, 112-113).
Removal ==
  \/ allow' = {} /\ missed' = {}
  \/ UNCHANGED allow /\ missed' = allow

\* LogoutService.logout; the router clears the allowlist of the user after it.
LogoutSession(r) ==
  /\ At(r, "logout", "session")
  /\ tokens' = Killed({reqs[r].token})
  /\ Goes(r, "clear")
  /\ UNCHANGED <<user, allow, missed, cache, flagged, revoked, spoiled>>

\* It fails; the router clears the allowlist all the same.
LogoutFails(r) ==
  /\ At(r, "logout", "session")
  /\ Removal
  /\ Ends(r)
  /\ UNCHANGED <<user, tokens, cache, flagged, revoked, spoiled>>

LogoutClear(r) ==
  /\ At(r, "logout", "clear")
  /\ Removal
  /\ revoked' = revoked \cup reqs[r].known
  /\ Ends(r)
  /\ UNCHANGED <<user, tokens, cache, flagged, spoiled>>

\* UserService.update, delete, set_initial_password_demo and
\* increment_security_version: the row is read.
ChangeUser(r) ==
  /\ reqs[r].op \in {"change", "delete", "authenticator", "initial"} /\ reqs[r].pc = "user"
  /\ IF Present
     THEN reqs' = [reqs EXCEPT ![r].seen = user,
                     ![r].pc = CASE reqs[r].op = "authenticator" -> "bump"
                                 [] reqs[r].op = "initial"       -> "password"
                                 [] OTHER                        -> "kill"]
     ELSE Ends(r)
  /\ UNCHANGED store

\* A slip: the sessions are left alone.
KillNothing(r) == {}
\* invalidate_all_for_user, as the transaction sees the sessions.
KillAll(r) == Live

\* An update has written the user row by now and holds its lock until it commits.
ChangeKill(r) ==
  /\ reqs[r].op \in {"change", "delete"} /\ reqs[r].pc = "kill"
  /\ reqs[r].op = "change" => ~RowLocked
  /\ reqs' = [reqs EXCEPT ![r].pc = "commit", ![r].kill = KillAll(r)]
  /\ UNCHANGED store

\* UserService.update with another role or activity: every column is written
\* from what was read; the sessions go and the version goes up.
UpdateCommit(r) ==
  /\ At(r, "change", "commit")
  /\ LET seen == reqs[r].seen IN
     \/ user' = [user EXCEPT !.ver = @ + 1, !.active = seen.active,
                             !.role = CHOOSE x \in Roles : x # seen.role]
     \/ user' = [user EXCEPT !.ver = @ + 1, !.role = seen.role, !.active = ~seen.active]
  /\ tokens' = Killed(reqs[r].kill)
  /\ spoiled' = spoiled \ {"role"}
  /\ Goes(r, "uncache")
  /\ UNCHANGED <<allow, missed, cache, flagged, revoked>>

\* The router after it: cache entry, allowlist, flag.
UpdateUncache(r) ==
  /\ At(r, "change", "uncache")
  /\ cache' = NoUser
  /\ Goes(r, "clear")
  /\ UNCHANGED <<user, tokens, allow, missed, flagged, revoked, spoiled>>

\* Setting the flag may fail, and the request with it.
UpdateClear(r) ==
  /\ At(r, "change", "clear")
  /\ Removal
  /\ \/ flagged' = TRUE /\ revoked' = revoked \cup reqs[r].known
     \/ UNCHANGED <<flagged, revoked>>
  /\ Ends(r)
  /\ UNCHANGED <<user, tokens, cache, spoiled>>

\* delete_user: the allowlist first, then the row; the cache entry stays.
DeleteClear(r) ==
  /\ At(r, "delete", "clear")
  /\ Removal
  /\ Goes(r, "user")
  /\ UNCHANGED <<user, tokens, cache, flagged, revoked, spoiled>>

DeleteCommit(r) ==
  /\ At(r, "delete", "commit") /\ ~RowLocked
  /\ user' = [ver |-> user.ver + 1, role |-> "user", active |-> FALSE, deleted |-> TRUE]
  /\ tokens' = Killed(reqs[r].kill)
  /\ revoked' = revoked \cup reqs[r].known
  /\ Ends(r)
  /\ UNCHANGED <<allow, missed, cache, flagged, spoiled>>

\* confirm_authenticator_setup, disable_authenticator: two transactions, and
\* neither cache nor allowlist is touched.  increment_security_version writes
\* what it read plus one, and the row may have changed since.
AuthenticatorBump(r) ==
  /\ At(r, "authenticator", "bump") /\ ~RowLocked
  /\ user' = [user EXCEPT !.ver = reqs[r].seen.ver + 1]
  /\ spoiled' = IF reqs[r].seen.ver # user.ver THEN spoiled \cup {"version"} ELSE spoiled
  /\ Goes(r, "sessions")
  /\ UNCHANGED <<tokens, allow, missed, cache, flagged, revoked>>

AuthenticatorKill(r) ==
  /\ At(r, "authenticator", "sessions")
  /\ tokens' = Killed(Live)
  /\ Ends(r)
  /\ UNCHANGED <<user, allow, missed, cache, flagged, revoked, spoiled>>

\* set_initial_password_demo, then the router's cache entry, then a login.
InitialPassword(r) ==
  /\ At(r, "initial", "password") /\ ~RowLocked
  /\ user' = [user EXCEPT !.ver = @ + 1]
  /\ Goes(r, "uncache")
  /\ UNCHANGED <<tokens, allow, missed, cache, flagged, revoked, spoiled>>

InitialUncache(r) ==
  /\ At(r, "initial", "uncache")
  /\ Len(tokens) + InFlight(Issuing) < MaxTokens
  /\ cache' = NoUser
  /\ reqs' = [reqs EXCEPT ![r].op = "login", ![r].pc = "reissue"]
  /\ UNCHANGED <<user, tokens, allow, missed, flagged, revoked, spoiled>>

\* record_failed_login and, when the password was right, reset_failed_login:
\* the row is read, and every column written from what was read; the failure
\* that reaches the threshold locks the account.
AttemptRead(r) ==
  /\ At(r, "attempt", "user")
  /\ IF Present
     THEN reqs' = [reqs EXCEPT ![r].pc = "mark", ![r].seen = user]
     ELSE Ends(r)
  /\ UNCHANGED store

AttemptWrite(r) ==
  /\ At(r, "attempt", "mark") /\ ~RowLocked
  /\ \E active \in {reqs[r].seen.active, FALSE} :
       user' = [user EXCEPT !.role = reqs[r].seen.role, !.active = active]
  /\ spoiled' = IF user'.role # user.role THEN spoiled \cup {"role"} ELSE spoiled
  /\ Ends(r)
  /\ UNCHANGED <<tokens, allow, missed, cache, flagged, revoked>>

\* InviteService.set_password with the link of forgot_password: active again.
SetPassword ==
  /\ Present /\ ~user.active /\ ~RowLocked
  /\ user' = [user EXCEPT !.active = TRUE]
  /\ reqs' = Disturbed
  /\ UNCHANGED <<tokens, allow, missed, cache, flagged, revoked, spoiled>>

\* Redis or the database fails, or the process dies: the request ends where it
\* is.  What it has committed stays; what was to follow a change of role or
\* activity (cache entry, allowlist, flag) is not made up for.
Abort(r) ==
  /\ reqs[r].pc # "idle"
  /\ missed' = IF reqs[r].op = "change" /\ reqs[r].pc \in {"uncache", "clear"} THEN allow ELSE missed
  /\ Ends(r)
  /\ UNCHANGED <<user, tokens, allow, cache, flagged, revoked, spoiled>>

\* The time to live of the cache entry.
CacheExpires ==
  /\ cache # NoUser
  /\ cache' = NoUser
  /\ UNCHANGED <<user, tokens, allow, missed, flagged, reqs, revoked, spoiled>>

-----------------------------------------------------------------------------
(* An authenticated request: AuthMiddleware, then perhaps PATCH /auth/me.   *)
CallCheck(r) ==
  /\ At(r, "call", "check")
  /\ IF reqs[r].token \in allow THEN Goes(r, "lookup") ELSE Ends(r)
  /\ UNCHANGED store

CallLookup(r) ==
  /\ At(r, "call", "lookup")
  /\ IF cache # NoUser
     THEN reqs' = [reqs EXCEPT ![r].pc = "judge", ![r].seen = cache]
     ELSE Goes(r, "fetch")
  /\ UNCHANGED store

\* A slip: an inactive user is handed on.
FoundAny == Present
\* _fetch_user_from_db: an inactive user counts as none.
Found == Present /\ user.active

CallFetch(r) ==
  /\ At(r, "call", "fetch")
  /\ IF Found
     THEN reqs' = [reqs EXCEPT ![r].pc = "store", ![r].seen = user]
     ELSE Ends(r)
  /\ UNCHANGED store

CallStore(r) ==
  /\ At(r, "call", "store")
  /\ cache' = reqs[r].seen
  /\ Goes(r, "judge")
  /\ UNCHANGED <<user, tokens, allow, missed, flagged, revoked, spoiled>>

\* A slip: the version of the token is not looked at.
AnyVersion(r) == TRUE
\* The token must carry the version of the user object found.  A request that
\* passes may be any; those but PATCH /auth/me end here.
SameVersion(r) == tokens[reqs[r].token].ver = reqs[r].seen.ver

CallJudge(r) ==
  /\ At(r, "call", "judge")
  /\ \/ SameVersion(r) /\ Goes(r, "write")
     \/ Ends(r)
  /\ UNCHANGED store

\* Neither the request nor the issue of its token overlapped anything, and no
\* removal missed the token.
Undisturbed(r) ==
  /\ reqs[r].quiet /\ tokens[reqs[r].token].sole
  /\ reqs[r].token \notin missed

\* update_me writes every column from the user object of the request, a
\* deleted row included; the router then drops the cache entry.
ProfileWrite(r) ==
  /\ At(r, "call", "write") /\ ~RowLocked
  /\ user' = [user EXCEPT !.role = reqs[r].seen.role, !.active = reqs[r].seen.active]
  /\ spoiled' = IF ~Undisturbed(r) /\ user'.role # user.role THEN spoiled \cup {"role"} ELSE spoiled
  /\ Goes(r, "uncache")
  /\ UNCHANGED <<tokens, allow, missed, cache, flagged, revoked>>

ProfileUncache(r) ==
  /\ At(r, "call", "uncache")
  /\ cache' = NoUser
  /\ Ends(r)
  /\ UNCHANGED <<user, tokens, allow, missed, flagged, revoked, spoiled>>

-----------------------------------------------------------------------------
IssueStep(r)  == /\ reqs[r].op \in Issuing
                 /\ \/ LoginUser(r) \/ LoginKill(r) \/ RefreshUser(r) \/ RefreshSession(r)
                    \/ RefreshReuse(r) \/ IssueCommit(r) \/ IssueAllow(r)
UpdateStep(r) == /\ reqs[r].op \in Changing
                 /\ \/ ChangeUser(r) \/ ChangeKill(r) \/ UpdateCommit(r) \/ UpdateUncache(r)
                    \/ UpdateClear(r) \/ DeleteClear(r) \/ DeleteCommit(r)
OwnStep(r)    == /\ reqs[r].op \in Changing \cup {"attempt"}
                 /\ \/ LogoutSession(r) \/ LogoutFails(r) \/ LogoutClear(r)
                    \/ AuthenticatorBump(r) \/ AuthenticatorKill(r) \/ InitialPassword(r)
                    \/ InitialUncache(r) \/ AttemptRead(r) \/ AttemptWrite(r)
CallStep(r)   == /\ reqs[r].op = "call"
                 /\ \/ CallCheck(r) \/ CallLookup(r) \/ CallFetch(r) \/ CallStore(r)
                    \/ CallJudge(r) \/ ProfileWrite(r) \/ ProfileUncache(r)

Next ==
  \/ \E r \in Requests :
       \/ reqs[r].pc = "idle" /\ \E op \in Ops, t \in 0..Len(tokens) : Start(r, op, t)
       \/ IssueStep(r) \/ UpdateStep(r) \/ OwnStep(r) \/ CallStep(r) \/ Abort(r)
  \/ SetPassword \/ CacheExpires

Spec == Init /\ [][Next]_vars

-----------------------------------------------------------------------------
(* Properties.                                                              *)
\* What a client held when an update, a deletion or a logout that has reported
\* success began opens nothing by then: no session of it can be refreshed, and
\* no access token is allowed but those whose removal from the allowlist was
\* swallowed.  It takes the allowlist, the sessions and the order in which
\* update_user, delete_user and logout touch them against racing requests and
\* requests that were cut off.
RevokedStaysOut == \A t \in revoked : ~tokens[t].valid /\ (t \in allow => t \in missed)

\* As remove_by_user has it ("a user összes access tokenjét érvénytelenítjük",
\* token_allowlist.py:102): no access token is allowed either.  (The swallowed
\* failures refute it: README, Findings.)
RevokedIsForgotten == \A t \in revoked : t \notin allow

\* Of the sessions issued by logins and rotations that raced with nothing, at
\* most one is valid: a login replaces all, a rotation its predecessor.
OneLiveSession == Cardinality({t \in Ids : tokens[t].valid /\ tokens[t].sole}) <= 1

\* PATCH /auth/me writes the role and the state of the whole user object it was
\* authenticated with, which may come from a stale cache entry.  It never
\* undoes what an administrator decided, also when the request that decided was
\* cut off after its commit, unless something overlaps the request itself or
\* the issue of its token, or the token is one that the removal after a change
\* missed: else a stale entry never meets a token that is both allowlisted and
\* of the entry's version.  (As long as no version was given twice, and no
\* login attempt wrote an old role back.)
ProfileKeepsRole ==
  [][\A r \in Requests : ProfileWrite(r) /\ Undisturbed(r) /\ spoiled = {} => user'.role = user.role]_vars

\* The same of every token that was not raced for.  (The change cut off between
\* its commit and its removal refutes it: README, Findings.)
RoleOutlivesCuts ==
  [][\A r \in Requests : ProfileWrite(r) /\ reqs[r].quiet /\ tokens[reqs[r].token].sole /\ spoiled = {}
                            => user'.role = user.role]_vars

\* An account that was locked out stays locked until an administrator or a new
\* password opens it (login_service.py:165, "5 után kilitjuk").  (PATCH /auth/me
\* opens it: README, Findings.)
LockoutHolds ==
  [][\A r \in Requests : ProfileWrite(r) /\ Undisturbed(r) => user'.active = user.active]_vars
=============================================================================
