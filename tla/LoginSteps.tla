----------------------------- MODULE LoginSteps -----------------------------
(* The two-step login of one user: step 1 stores a pending token and mails  *)
(* a code, step 2 shows the token and a code (mailed, or of the             *)
(* authenticator app).  Wrong codes are counted per token, user and IP in a *)
(* time window.  Each step is one database transaction (READ COMMITTED) and *)
(* one action per statement that depends on what others have committed; a   *)
(* counter row is locked from its UPDATE, DELETE or INSERT to the commit.   *)
EXTENDS Integers, Sequences, FiniteSets

CONSTANTS
  Requests,     \* login requests
  Tokens,       \* pending tokens; the code mailed with one goes by its name
  User, Ips,    \* the other two kinds of counters (None: the address is not known)
  Factors,      \* subset of {"email", "authenticator"}
  MaxAttempts,  \* two_fa_max_attempts
  MaxWrong,     \* bound on the wrong codes tried
  None          \* no row, no token, a wrong code

ASSUME LoginAssumption ==
  /\ IsFiniteSet(Requests) /\ IsFiniteSet(Tokens) /\ Factors \subseteq {"email", "authenticator"}
  /\ MaxAttempts \in Nat \ {0} /\ MaxWrong \in Nat
  /\ None \notin Requests \cup Tokens \cup {User} \cup [n : Nat, fresh : BOOLEAN]
  /\ User \notin Tokens \cup Ips /\ Tokens \cap Ips = {}

VARIABLES
  factor,   \* the second factor of the user
  issued,   \* per token: "no", or whether its first step ran "alone" or "crowded"
  pending,  \* those that step 2 accepts
  codes,    \* per token, its mailed code: "none", "valid", "used"
  count,    \* the counters: [n, fresh (its window runs)], or None
  lock,     \* who has a counter locked
  reqs,     \* the locals and uncommitted writes of each request
  wrong,    \* history: wrong codes tried, per counter, since it was cleared or expired
  calm,     \* history: those of requests that overlapped no other
  opened,   \* history: pending tokens that have completed a login
  entered   \* history: mailed codes that have

shared == <<issued, pending, codes, count, wrong, calm, opened, entered>>
vars   == <<factor, shared, lock, reqs>>

Scopes  == (Tokens \cup {User} \cup Ips) \ {None}
Counter == [n : 1..(MaxWrong + 1), fresh : BOOLEAN]
Idle    == [pc |-> "idle", token |-> None, ip |-> None, code |-> None, at |-> 1, loaded |-> None,
            mine |-> <<>>, gone |-> {}, kill |-> {}, tooMany |-> FALSE, quiet |-> TRUE]

Unused  == {t \in Tokens : issued[t] = "no"}

TypeOK ==
  /\ factor \in Factors /\ pending \subseteq Tokens \ Unused
  /\ issued \in [Tokens -> {"no", "alone", "crowded"}]
  /\ codes \in [Tokens -> {"none", "valid", "used"}]
  /\ count \in [Scopes -> {None} \cup Counter]
  /\ lock \in [Scopes -> {None} \cup Requests]
  /\ \A s \in Scopes : calm[s] \in 0..wrong[s] /\ wrong[s] <= MaxWrong
  /\ \A r \in Requests : DOMAIN reqs[r].mine \subseteq {s \in Scopes : lock[s] = r}

Init ==
  /\ factor \in Factors /\ issued = [t \in Tokens |-> "no"] /\ pending = {} /\ codes = [t \in Tokens |-> "none"]
  /\ count = [s \in Scopes |-> None] /\ lock = [s \in Scopes |-> None]
  /\ reqs = [r \in Requests |-> Idle]
  /\ wrong = [s \in Scopes |-> 0] /\ calm = wrong /\ opened = {} /\ entered = {}

-----------------------------------------------------------------------------
(* Helpers.                                                                 *)
\* The counters of a second step, in the order the code takes them.
ScopesOf(r) == <<reqs[r].token, User>> \o (IF reqs[r].ip = None THEN <<>> ELSE <<reqs[r].ip>>)
\* A slip: the reset takes them the other way round.
HereBack(r) == ScopesOf(r)[IF reqs[r].pc = "reset" THEN Len(ScopesOf(r)) + 1 - reqs[r].at ELSE reqs[r].at]
Here(r)     == ScopesOf(r)[reqs[r].at]
Mine(r)     == {ScopesOf(r)[i] : i \in DOMAIN ScopesOf(r)}
Failing(r)  == reqs[r].pc \in {"load", "write", "failed"}
Failers(s)  == Cardinality({r \in Requests : Failing(r) /\ s \in Mine(r)})

\* A slip: a row is written without a look at who has written it.
FreeAlways(r) == TRUE
\* The row lock of an UPDATE, DELETE or INSERT.
FreeFor(r)   == lock[Here(r)] \in {None, r}
\* A request that waits for another's lock.
Waits(r) == /\ reqs[r].pc = "write" \/ (reqs[r].pc = "reset" /\ count[Here(r)] # None)
            /\ ~FreeFor(r)

Blocked(row) == row # None /\ row.fresh /\ row.n >= MaxAttempts
Released(r)  == [s \in Scopes |-> IF lock[s] = r THEN None ELSE lock[s]]

\* From one counter to the next: "pc" until the last is done, then "next".
Advance(r, pc, next) ==
  LET last == Len(ScopesOf(r)) IN
  [reqs[r] EXCEPT !.at = (@ % last) + 1, !.pc = IF reqs[r].at < last THEN pc ELSE next]

\* The transaction of r ends: its locals go, its locks too.
Closes(r) == reqs' = [reqs EXCEPT ![r] = Idle] /\ lock' = Released(r)
Aborts(r) == Closes(r) /\ UNCHANGED shared

Disturbed == [r \in Requests |-> [reqs[r] EXCEPT !.quiet = @ /\ reqs[r].pc = "idle"]]
Quiet     == \A r \in Requests : reqs[r].pc = "idle"

-----------------------------------------------------------------------------
(* Step 1.                                                                  *)
\* A slip: earlier codes stay valid.
KillNone == {}
\* invalidate_user_codes, of the codes committed by now.
KillCodes == {t \in Tokens : codes[t] = "valid"}

\* The password was right.  Tokens are named when they are committed.
FirstStep(r) ==
  /\ reqs[r].pc = "idle" /\ Cardinality({q \in Requests : reqs[q].pc = "mail"}) < Cardinality(Unused)
  /\ reqs' = [Disturbed EXCEPT ![r] =
       [Idle EXCEPT !.pc = "mail", !.kill = KillCodes, !.quiet = Quiet]]
  /\ UNCHANGED <<shared, lock>>

\* The e-mail is on its way, or enqueued; the transaction commits.
FirstStepCommit(r) ==
  /\ reqs[r].pc = "mail"
  /\ \E t \in Unused :
       /\ issued' = [issued EXCEPT ![t] = IF reqs[r].quiet THEN "alone" ELSE "crowded"]
       /\ pending' = pending \cup {t}
       /\ codes' = IF factor = "email"
                   THEN [x \in Tokens |-> IF x = t THEN "valid" ELSE IF x \in reqs[r].kill THEN "used" ELSE codes[x]]
                   ELSE codes
  /\ Closes(r)
  /\ UNCHANGED <<count, wrong, calm, opened, entered>>

\* TwoFactorEmailError: nothing is kept, the earlier codes stay.
FirstStepFails(r) ==
  /\ reqs[r].pc = "mail" /\ factor = "email"
  /\ Aborts(r)

-----------------------------------------------------------------------------
(* Step 2.                                                                  *)
\* get_user_id finds the pending token.
SecondStep(r) ==
  /\ reqs[r].pc = "idle"
  /\ \A s \in Scopes : wrong[s] + Cardinality({q \in Requests : reqs[q].pc \in {"check", "judge"}}) < MaxWrong
  /\ \E t \in pending, ip \in Ips, c \in Tokens \cup {None} :
       reqs' = [Disturbed EXCEPT ![r] =
         [Idle EXCEPT !.pc = "check", !.token = t, !.ip = ip, !.code = c, !.quiet = Quiet]]
  /\ UNCHANGED <<shared, lock>>

\* A slip: one more attempt than the limit is let through.
BlockedLate(r) == Blocked(count[Here(r)]) /\ count[Here(r)].n > MaxAttempts
\* is_blocked, of the counter at hand.
BlockedHere(r) == Blocked(count[Here(r)])

\* One counter blocked is enough: TwoFactorTooManyAttemptsError, which rolls
\* back the consumption of the token as well.
Check(r) ==
  /\ reqs[r].pc = "check"
  /\ IF BlockedHere(r)
     THEN Aborts(r)
     ELSE /\ reqs' = [reqs EXCEPT ![r] = Advance(r, "check", "judge")]
          /\ UNCHANGED <<shared, lock>>

\* get_valid_code, which asks for a code of the user, whatever its token; or
\* the code of the authenticator, which has no memory.
CodeIsRight(r) ==
  IF factor = "email" THEN reqs[r].code # None /\ codes[reqs[r].code] = "valid"
                      ELSE reqs[r].code # None

Judge(r) ==
  /\ reqs[r].pc = "judge"
  /\ IF CodeIsRight(r)
     THEN /\ reqs' = [reqs EXCEPT ![r].pc = "reset"]
          /\ UNCHANGED wrong
     ELSE /\ reqs' = [reqs EXCEPT ![r].pc = "load"]
          /\ wrong' = [s \in Scopes |-> IF s \in Mine(r) THEN wrong[s] + 1 ELSE wrong[s]]
  /\ UNCHANGED <<issued, pending, codes, count, calm, opened, entered, lock>>

\* record_failed reads the counter ...
Load(r) ==
  /\ reqs[r].pc = "load"
  /\ reqs' = [reqs EXCEPT ![r].pc = "write", ![r].loaded = count[Here(r)]]
  /\ UNCHANGED <<shared, lock>>

\* A slip: the row is counted on although its window is over.
CountedOn(row) == row.n + 1
\* The number it will write: a window that is over starts again.
Counted(row) == IF row.fresh THEN row.n + 1 ELSE 1

\* What it has written then, with the limit reached or not.
Noted(r, row) ==
  LET s == Here(r) IN
  [Advance(r, "load", "failed") EXCEPT
     !.loaded = None,
     !.mine = [x \in DOMAIN reqs[r].mine \cup {s} |-> IF x = s THEN row ELSE reqs[r].mine[x]],
     !.tooMany = reqs[r].tooMany \/ (row.n >= MaxAttempts /\ (row.renew \/ count[s].fresh))]

\* ... and writes what it computed, if that is another number than it read; a
\* row that was inserted or deleted meanwhile is an error that ends the login.
Write(r) ==
  /\ reqs[r].pc = "write" /\ FreeFor(r)
  /\ LET s   == Here(r)
         row == reqs[r].loaded
         n   == IF row = None THEN 1
                ELSE IF Counted(row) # row.n THEN Counted(row) ELSE count[s].n
         renew == row = None \/ ~row.fresh
     IN IF (row = None) # (count[s] = None) \/ s \in reqs[r].gone
        THEN Aborts(r)
        ELSE /\ reqs' = [reqs EXCEPT ![r] = Noted(r, [n |-> n, renew |-> renew])]
             /\ lock' = [lock EXCEPT ![s] = r]
             /\ UNCHANGED shared

\* The counters a failed second step commits: all of them; none when the
\* authenticator's limit is reached by this very failure, since the exception
\* raised for it rolls the transaction back.
Kept(r) == IF factor = "authenticator" /\ reqs[r].tooMany THEN {} ELSE DOMAIN reqs[r].mine

Failed(r) ==
  /\ reqs[r].pc = "failed"
  /\ count' = [s \in Scopes |->
       IF s \in Kept(r) /\ s \in DOMAIN reqs[r].mine
       THEN [n |-> reqs[r].mine[s].n, fresh |-> reqs[r].mine[s].renew \/ count[s].fresh]
       ELSE count[s]]
  /\ calm' = [s \in Scopes |-> IF reqs[r].quiet /\ s \in Mine(r) THEN calm[s] + 1 ELSE calm[s]]
  /\ Closes(r)
  /\ UNCHANGED <<issued, pending, codes, wrong, opened, entered>>

\* reset_for_success deletes a committed row; it does not see an INSERT of
\* another transaction, and waits for an UPDATE or a DELETE.
Reset(r) ==
  /\ reqs[r].pc = "reset"
  /\ LET s == Here(r) IN
     /\ count[s] # None => FreeFor(r)
     /\ reqs' = [reqs EXCEPT ![r] = Advance(r, "reset", "done")]
     /\ lock' = IF count[s] # None THEN [lock EXCEPT ![s] = r] ELSE lock
  /\ UNCHANGED shared

\* A slip: the token may be used again.
Reusable(r) == {}
\* consume, whether the row is still there or not.
Consumed(r) == {reqs[r].token}

\* A slip: the code may be used again.
StillValid(r) == codes
\* mark_as_used; what shows the authenticator is nowhere kept.
Marked(r) == IF factor = "email" THEN [codes EXCEPT ![reqs[r].code] = "used"] ELSE codes

\* mark_as_used and consume; then the user is logged in, if active.
Done(r) ==
  /\ reqs[r].pc = "done"
  /\ LET deleted == {s \in Mine(r) : lock[s] = r} IN
     /\ count' = [s \in Scopes |-> IF s \in deleted THEN None ELSE count[s]]
     /\ wrong' = [s \in Scopes |-> IF s \in deleted THEN Failers(s) ELSE wrong[s]]
     /\ calm' = [s \in Scopes |-> IF s \in deleted THEN 0 ELSE calm[s]]
     /\ reqs' = [q \in Requests |->
          IF q = r THEN Idle
          ELSE IF reqs[q].pc = "write" /\ Here(q) \in deleted /\ reqs[q].loaded # None
               THEN [reqs[q] EXCEPT !.gone = {Here(q)}] ELSE reqs[q]]
  /\ lock' = Released(r)
  /\ pending' = pending \ Consumed(r)
  /\ codes' = Marked(r)
  /\ \/ UNCHANGED <<opened, entered>>
     \/ /\ opened' = opened \cup {reqs[r].token}
        /\ entered' = IF factor = "email" THEN entered \cup {reqs[r].code} ELSE entered
  /\ UNCHANGED issued

-----------------------------------------------------------------------------
(* Time.                                                                    *)
TokenExpires == \E t \in pending : pending' = pending \ {t}
                /\ UNCHANGED <<issued, codes, count, wrong, calm, opened, entered, lock, reqs>>
CodeExpires  == \E t \in Tokens : codes[t] = "valid" /\ codes' = [codes EXCEPT ![t] = "used"]
                /\ UNCHANGED <<issued, pending, count, wrong, calm, opened, entered, lock, reqs>>
\* A failure under way belongs to both windows.
WindowEnds(s) ==
  /\ count[s] # None /\ count[s].fresh
  /\ count' = [count EXCEPT ![s].fresh = FALSE]
  /\ wrong' = [wrong EXCEPT ![s] = IF Failers(s) > 0 THEN @ ELSE 0]
  /\ calm' = [calm EXCEPT ![s] = 0]
  /\ reqs' = Disturbed
  /\ UNCHANGED <<issued, pending, codes, opened, entered, lock>>

Step(r) == \/ FirstStep(r) \/ FirstStepCommit(r) \/ FirstStepFails(r)
           \/ SecondStep(r) \/ Check(r) \/ Judge(r) \/ Load(r) \/ Write(r) \/ Failed(r)
           \/ Reset(r) \/ Done(r)

Next == /\ (\E r \in Requests : Step(r)) \/ TokenExpires \/ CodeExpires \/ (\E s \in Scopes : WindowEnds(s))
        /\ UNCHANGED factor

Spec == Init /\ [][Next]_vars

-----------------------------------------------------------------------------
(* Properties.                                                              *)
\* The limit of attempts: of the wrong codes that came in requests of their
\* own, at most MaxAttempts are tried against a counter until it is cleared or
\* its window ends - also when overlapping requests, whose own counts may be
\* lost, come between.
LimitHolds == factor = "email" => \A s \in Scopes : calm[s] <= MaxAttempts

\* Nobody is blocked by counters that count more than there was: not through
\* increments of rows that were deleted, inserted or expired meanwhile.
BlockIsEarned == \A s \in Scopes : count[s] # None /\ count[s].fresh => count[s].n <= wrong[s]

\* Of the codes mailed by first steps that overlapped no other request, only the
\* last is good: what was mailed before never opens anything any more.
OneValidCode == Cardinality({t \in Tokens : codes[t] = "valid" /\ issued[t] = "alone"}) <= 1

\* Requests never wait for each other in a circle: a failure and a success
\* take the counters in one order.
NoStandoff == (\E r \in Requests : Waits(r)) => \E r \in Requests : reqs[r].pc # "idle" /\ ~Waits(r)

\* A pending token completes one login, and so does a mailed code, whatever
\* token it is shown with: a later second step never completes one with either
\* again.  (Two that overlap may both.)
NoReplay ==
  [][\A r \in Requests : Done(r) /\ reqs[r].quiet =>
       /\ reqs[r].token \notin opened
       /\ factor = "email" => reqs[r].code \notin entered]_vars

\* The same limit for the codes of an authenticator (login_service.py:225
\* and two_factor_service.py:97).  (It does not hold: README, Findings.)
AuthenticatorLimitHolds == factor = "authenticator" => \A s \in Scopes : calm[s] <= MaxAttempts
=============================================================================
