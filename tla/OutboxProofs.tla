---------------------------- MODULE OutboxProofs ----------------------------
(* Theorems about Outbox, for any number of rows and workers and any        *)
(* durations and bounds.                                                    *)
EXTENDS Outbox, FiniteSetTheorems, TLAPS

-----------------------------------------------------------------------------
(* What the writes of the repository's methods return.                      *)

\* A row stays a row under every write of the repository.

LEMMA ClaimedIsRow ==
  ASSUME NEW row \in Columns, NEW w \in Workers
  PROVE  MarkClaimed(row, w) \in Columns
<1>1. [row EXCEPT !.status = "processing"] \in Columns
  BY DEF Columns, Backlogged
<1>2. [row EXCEPT !.status = "processing", !.owner = w] \in Columns
  BY <1>1 DEF Columns
<1>3. [row EXCEPT !.status = "processing", !.owner = w, !.lock = 0] \in Columns
  BY <1>2 DEF Columns
<1>4. ClaimLease \in Int
  BY ConstantsAssumption DEF ConstantsAssumption
<1> QED
  BY <1>3, <1>4 DEF MarkClaimed, Columns

LEMMA ReleasedIsRow ==
  ASSUME NEW row \in Columns, NEW was \in LoadedRow
  PROVE  ReleaseLock(row, was) \in Columns
BY DEF ReleaseLock, Columns

LEMMA StatusIsRow ==
  ASSUME NEW row \in Columns, NEW was \in LoadedRow,
         NEW status \in Backlogged \cup Settled
  PROVE  WriteStatus(row, was, status) \in Columns
BY DEF WriteStatus, Columns

LEMMA SettledIsRow ==
  ASSUME NEW row \in Columns, NEW was \in LoadedRow
  PROVE  /\ MarkProcessed(row, was) \in Columns
         /\ MarkFailed(row, was) \in Columns
<1>1. MarkProcessed(row, was) \in Columns
  BY ReleasedIsRow, StatusIsRow DEF MarkProcessed, Settled
<1>2. MarkFailed(row, was) \in Columns
  <2> DEFINE n == was.attempts + 1
             released == [ReleaseLock(row, was) EXCEPT !.attempts = n]
  <2>1. n \in Nat
    BY DEF LoadedRow
  <2>2. released \in Columns
    BY <2>1, ReleasedIsRow DEF Columns
  <2>3. RetryDelay * n \in Nat
    BY <2>1, ConstantsAssumption DEF ConstantsAssumption
  <2>4. [released EXCEPT !.retry = RetryDelay * n] \in Columns
    BY <2>2, <2>3 DEF Columns
  <2> QED
    BY <2>2, <2>4, StatusIsRow DEF MarkFailed, Settled, Backlogged
<1> QED
  BY <1>1, <1>2

LEMMA RequeueIsRow ==
  ASSUME NEW row \in Columns, NEW was \in LoadedRow
  PROVE  Requeue(row, was) \in Columns
<1>1. [ReleaseLock(row, was) EXCEPT !.retry = 0] \in Columns
  BY ReleasedIsRow DEF Columns
<1> QED
  BY <1>1, StatusIsRow DEF Requeue, Backlogged

LEMMA OlderIsRow ==
  ASSUME NEW row \in Columns
  PROVE  Older(row) \in Columns
<1> DEFINE
      k == IF row.lock = None \/ row.lock > StaleAfter
           THEN row.lock ELSE row.lock + 1
      l == IF row.lease = None \/ row.lease < 0
           THEN row.lease ELSE row.lease - 1
      t == IF row.retry = 0 THEN row.retry ELSE row.retry - 1
<1>1. k \in Nat \cup {None}
  BY DEF Columns
<1>2. l \in Int \cup {None}
  BY DEF Columns
<1>3. t \in Nat
  BY DEF Columns
<1>4. Older(row) = [row EXCEPT !.lock = k, !.lease = l, !.retry = t]
  BY DEF Older, Columns
<1> HIDE DEF k, l, t
<1>5. [row EXCEPT !.lock = k] \in Columns
  BY <1>1 DEF Columns
<1>6. [row EXCEPT !.lock = k, !.lease = l] \in Columns
  BY <1>2, <1>5 DEF Columns
<1>7. [row EXCEPT !.lock = k, !.lease = l, !.retry = t] \in Columns
  BY <1>3, <1>6 DEF Columns
<1> QED
  BY <1>4, <1>7

\* Loading a row of the table yields what LoadedRow says.
LEMMA LoadedIsLoadedRow ==
  ASSUME NEW row \in Columns, row.status # "absent"
  PROVE  Loaded(row) \in LoadedRow
BY DEF Loaded, LoadedRow, Columns

\* What each write does to the two columns the invariants are about.

LEMMA ReleaseEffects ==
  ASSUME NEW row \in Columns, NEW was \in LoadedRow
  PROVE  /\ ReleaseLock(row, was) \in Columns
         /\ ReleaseLock(row, was).status = row.status
         /\ ReleaseLock(row, was).attempts = row.attempts
<1> DEFINE o == IF was.locked THEN None ELSE row.owner
           k == IF was.locked THEN None ELSE row.lock
           l == IF was.leased THEN None ELSE row.lease
<1>1. ReleaseLock(row, was) = [row EXCEPT !.owner = o, !.lock = k, !.lease = l]
  BY DEF ReleaseLock
<1> HIDE DEF o, k, l
<1> QED
  BY <1>1, ReleasedIsRow DEF Columns

LEMMA StatusEffects ==
  ASSUME NEW row \in Columns, NEW was, NEW status
  PROVE  /\ WriteStatus(row, was, status).status \in {row.status, status}
         /\ WriteStatus(row, was, status).attempts = row.attempts
BY DEF WriteStatus, Columns

LEMMA ProcessedEffects ==
  ASSUME NEW row \in Columns, NEW was \in LoadedRow
  PROVE  /\ MarkProcessed(row, was).status \in {row.status, "processed"}
         /\ MarkProcessed(row, was).attempts = row.attempts
BY ReleaseEffects, StatusEffects DEF MarkProcessed

LEMMA FailedEffects ==
  ASSUME NEW row \in Columns, NEW was \in LoadedRow
  PROVE  /\ MarkFailed(row, was).status \in {row.status, "retry", "dead_letter"}
         /\ MarkFailed(row, was).attempts = was.attempts + 1
         /\ MarkFailed(row, was).status = "dead_letter"
            => row.status = "dead_letter" \/ was.attempts + 1 >= MaxAttempts
<1> DEFINE n == was.attempts + 1
           released == [ReleaseLock(row, was) EXCEPT !.attempts = n]
           later == [released EXCEPT !.retry = RetryDelay * n]
<1>1. n \in Nat /\ RetryDelay * n \in Nat
  BY ConstantsAssumption DEF LoadedRow, ConstantsAssumption
<1>2. /\ released \in Columns
      /\ released.status = row.status /\ released.attempts = n
  BY <1>1, ReleaseEffects DEF Columns
<1>3. /\ later \in Columns
      /\ later.status = row.status /\ later.attempts = n
  BY <1>1, <1>2 DEF Columns
<1>4. MarkFailed(row, was) =
        IF n >= MaxAttempts THEN WriteStatus(released, was, "dead_letter")
                            ELSE WriteStatus(later, was, "retry")
  BY DEF MarkFailed
<1> HIDE DEF n, released, later
<1> QED
  BY <1>2, <1>3, <1>4, StatusEffects DEF n

LEMMA RequeueEffects ==
  ASSUME NEW row \in Columns, NEW was \in LoadedRow
  PROVE  /\ Requeue(row, was).status \in {row.status, "pending"}
         /\ Requeue(row, was).attempts = row.attempts
<1> DEFINE opened == [ReleaseLock(row, was) EXCEPT !.retry = 0]
<1>1. /\ opened \in Columns
      /\ opened.status = row.status
      /\ opened.attempts = row.attempts
  BY ReleaseEffects DEF Columns
<1>2. Requeue(row, was) = WriteStatus(opened, was, "pending")
  BY DEF Requeue
<1> HIDE DEF opened
<1> QED
  BY <1>1, <1>2, StatusEffects

LEMMA OlderEffects ==
  ASSUME NEW row \in Columns
  PROVE  /\ Older(row).status = row.status
         /\ Older(row).attempts = row.attempts
<1> DEFINE k == IF row.lock = None \/ row.lock > StaleAfter
                THEN row.lock ELSE row.lock + 1
           l == IF row.lease = None \/ row.lease < 0
                THEN row.lease ELSE row.lease - 1
           t == IF row.retry = 0 THEN row.retry ELSE row.retry - 1
<1>1. Older(row) = [row EXCEPT !.lock = k, !.lease = l, !.retry = t]
  BY DEF Older
<1> HIDE DEF k, l, t
<1> QED
  BY <1>1 DEF Columns

-----------------------------------------------------------------------------
(* Type correctness.                                                        *)

LEMMA InitTypeOK == Init => TypeOK
BY ConstantsAssumption
   DEF Init, TypeOK, NoRow, NewRow, Columns, PCs, ConstantsAssumption

\* A step of a worker's loop on its current row.
LEMMA ItemTypeOK ==
  ASSUME TypeOK, OnlyPresentRows, NEW w \in Workers, NEW r \in Rows,
         ItemStep(w, r)
  PROVE  TypeOK'
<1> USE DEF TypeOK
<1>1. rows[r] \in Columns /\ r \in batch[w] => rows[r].status # "absent"
  BY DEF OnlyPresentRows
<1>2. CASE StartHandler(w, r)
  BY <1>2 DEF StartHandler, Goto, PCs
<1>3. CASE HandlerReturns(w, r)
  BY <1>3 DEF HandlerReturns, Goto, PCs
<1>4. CASE HandlerRaises(w, r)
  BY <1>4 DEF HandlerRaises, Fails, Goto, PCs
<1>5. CASE HandlerTimesOut(w, r)
  BY <1>5 DEF HandlerTimesOut, Fails, Goto, PCs
<1>6. ASSUME NEW from, NEW to \in {"acking", "nacking"}, LoadRow(w, r, from, to)
      PROVE  TypeOK'
  <2>1. Loaded(rows[r]) \in LoadedRow
    BY <1>1, <1>6, LoadedIsLoadedRow DEF LoadRow, IsCurrent
  <2>2. Loaded(rows[r]) # None
    BY <2>1, ConstantsAssumption DEF ConstantsAssumption
  <2> QED
    BY <1>6, <2>1, <2>2 DEF LoadRow, Goto, PCs
<1>7. ASSUME NEW from, NEW row \in Columns, CommitRow(w, r, from, row)
      PROVE  TypeOK'
  BY <1>7 DEF CommitRow, Goto, PCs
<1>8. CASE AckLoad(w, r)
  BY <1>6, <1>8 DEF AckLoad
<1>9. CASE NackLoad(w, r)
  BY <1>6, <1>9 DEF NackLoad
<1>10. pc[w] \in {"acking", "nacking"} => seen[w] \in LoadedRow
  OBVIOUS
<1>11. CASE AckCommit(w, r)
  BY <1>7, <1>10, <1>11, SettledIsRow DEF AckCommit, CommitRow, Goto
<1>12. CASE NackCommit(w, r)
  BY <1>7, <1>10, <1>12, SettledIsRow DEF NackCommit, CommitRow, Goto
<1> QED
  BY <1>2, <1>3, <1>4, <1>5, <1>8, <1>9, <1>11, <1>12 DEF ItemStep

LEMMA DueIsRows == Due \subseteq Rows
BY DEF Due, FirstOf

LEMMA FaultTypeOK ==
  ASSUME TypeOK, Fault
  PROVE  spent' \in [crashes : 0..MaxCrashes, faults : 0..MaxFaults,
                     requeues : 0..MaxRequeues]
BY ConstantsAssumption DEF TypeOK, Fault, ConstantsAssumption

LEMMA NextTypeOK ==
  ASSUME TypeOK, OnlyPresentRows, [Next]_vars
  PROVE  TypeOK'
<1> USE DEF TypeOK
<1>1. CASE Tick
  <2>1. \A r \in Rows : Older(rows[r]) \in Columns
    BY OlderIsRow
  <2> QED
    BY <1>1, <2>1 DEF Tick
<1>2. CASE RequeueCommit
  <2>1. operator \in [row : Rows, was : LoadedRow]
    BY <1>2 DEF RequeueCommit
  <2>2. Requeue(rows[operator.row], operator.was) \in Columns
    BY <2>1, RequeueIsRow
  <2> QED
    BY <1>2, <2>1, <2>2 DEF RequeueCommit, workerVars
<1>3. ASSUME NEW r \in Rows, Append(r)
      PROVE  TypeOK'
  <2>1. NewRow \in Columns
    BY DEF NewRow, Columns, Backlogged
  <2> QED
    BY <1>3, <2>1 DEF Append, workerVars
<1>4. ASSUME NEW r \in Rows, RequeueLoad(r)
      PROVE  TypeOK'
  <2>1. Loaded(rows[r]) \in LoadedRow
    BY <1>4, LoadedIsLoadedRow DEF RequeueLoad
  <2>2. spent'.requeues \in 0..MaxRequeues /\ spent' \in
          [crashes : 0..MaxCrashes, faults : 0..MaxFaults,
           requeues : 0..MaxRequeues]
    BY <1>4, ConstantsAssumption DEF RequeueLoad, ConstantsAssumption
  <2> QED
    BY <1>4, <2>1, <2>2 DEF RequeueLoad, workerVars
<1>5. ASSUME NEW w \in Workers, LoopStep(w) \/ ClaimFault(w)
      PROVE  TypeOK'
  <2> DEFINE claimed == [r \in Rows |-> IF r \in Due THEN MarkClaimed(rows[r], w)
                                                    ELSE rows[r]]
  <2>5. claimed \in [Rows -> Columns]
    BY ClaimedIsRow
  <2>1. CASE Claim(w)
    BY <2>1, <2>5, DueIsRows DEF Claim, ClaimRows, Goto, PCs
  <2>2. CASE BatchDone(w)
    BY <2>2 DEF BatchDone, Goto, PCs
  <2>3. CASE \E r \in Rows : ItemStep(w, r)
    BY <2>3, ItemTypeOK
  <2>4. CASE ClaimFault(w)
    <3>1. spent' \in [crashes : 0..MaxCrashes, faults : 0..MaxFaults,
                      requeues : 0..MaxRequeues]
      BY <2>4, FaultTypeOK DEF ClaimFault
    <3> QED
      BY <2>4, <2>5, <3>1 DEF ClaimFault, ClaimRows, workerVars
  <2> QED
    BY <1>5, <2>1, <2>2, <2>3, <2>4 DEF LoopStep
<1>6. ASSUME NEW w \in Workers, Crash(w)
      PROVE  TypeOK'
  <2>1. spent' \in [crashes : 0..MaxCrashes, faults : 0..MaxFaults,
                    requeues : 0..MaxRequeues]
    BY <1>6, ConstantsAssumption DEF Crash, ConstantsAssumption
  <2> QED
    BY <1>6, <2>1 DEF Crash, PCs
<1>7. ASSUME NEW w \in Workers, Restart(w)
      PROVE  TypeOK'
  BY <1>7 DEF Restart, Goto, PCs
<1>8. ASSUME NEW w \in Workers, NEW r \in Rows, SideStep(w, r)
      PROVE  TypeOK'
  <2>1. CASE HeartbeatLoad(w, r)
    BY <2>1 DEF HeartbeatLoad
  <2>2. CASE HeartbeatCommit(w, r)
    <3>1. Lease[r] \in Int
      BY ConstantsAssumption DEF ConstantsAssumption
    <3>2. [rows[r] EXCEPT !.lease = Lease[r]] \in Columns
      BY <3>1 DEF Columns
    <3> QED
      BY <2>2, <3>2 DEF HeartbeatCommit
  <2>3. CASE ZombieEnds(w, r)
    BY <2>3 DEF ZombieEnds
  <2>4. Fault => spent' \in [crashes : 0..MaxCrashes, faults : 0..MaxFaults,
                             requeues : 0..MaxRequeues]
    BY FaultTypeOK
  <2>5. pc[w] \in {"acking", "nacking"}
        => /\ MarkProcessed(rows[r], seen[w]) \in Columns
           /\ MarkFailed(rows[r], seen[w]) \in Columns
    BY SettledIsRow
  <2>6. CASE AckFault(w, r)
    BY <2>4, <2>5, <2>6 DEF AckFault, Fails, Goto, PCs
  <2>7. CASE NackFault(w, r)
    BY <2>4, <2>5, <2>7 DEF NackFault, Goto, PCs
  <2> QED
    BY <1>8, <2>1, <2>2, <2>3, <2>6, <2>7 DEF SideStep
<1>9. CASE UNCHANGED vars
  BY <1>9 DEF vars
<1> QED
  BY <1>1, <1>2, <1>3, <1>4, <1>5, <1>6, <1>7, <1>8, <1>9 DEF Next

-----------------------------------------------------------------------------
(* Rows and their events.                                                   *)

\* What a step may do to one row: nothing the invariants see, insert it,
\* claim it, requeue it, or write it for the worker whose current item it is.
RowStep(r) ==
  \/ /\ rows'[r].status = rows[r].status
     /\ rows'[r].attempts = rows[r].attempts
  \/ /\ rows[r].status = "absent"
     /\ rows'[r] = NewRow
  \/ /\ rows[r].status # "absent"
     /\ rows'[r].status \in {rows[r].status, "processing", "pending"}
     /\ rows'[r].attempts = rows[r].attempts
  \/ \E w \in Workers :
       /\ pc[w] = "acking" /\ IsCurrent(w, r)
       /\ rows'[r] = MarkProcessed(rows[r], seen[w])
  \/ \E w \in Workers :
       /\ pc[w] = "nacking" /\ pc'[w] # "nacking" /\ IsCurrent(w, r)
       /\ rows'[r] = MarkFailed(rows[r], seen[w])

LEMMA DueRowStep ==
  ASSUME TypeOK, NEW w \in Workers, ClaimRows(w), NEW r \in Rows
  PROVE  RowStep(r)
<1>1. CASE r \in Due
  <2>1. rows[r].status # "absent"
    BY <1>1 DEF Due, FirstOf, Eligible
  <2>2. rows'[r] = MarkClaimed(rows[r], w)
    BY <1>1 DEF ClaimRows
  <2>3. MarkClaimed(rows[r], w).status = "processing"
        /\ MarkClaimed(rows[r], w).attempts = rows[r].attempts
    BY DEF MarkClaimed, TypeOK, Columns
  <2> QED
    BY <2>1, <2>2, <2>3 DEF RowStep
<1>2. CASE r \notin Due
  BY <1>2 DEF ClaimRows, RowStep
<1> QED
  BY <1>1, <1>2

LEMMA NextRowStep ==
  ASSUME TypeOK, OnlyPresentRows, [Next]_vars, NEW r \in Rows
  PROVE  RowStep(r)
<1>1. /\ rows \in [Rows -> Columns] /\ rows[r] \in Columns
      /\ pc \in [Workers -> PCs]
  BY DEF TypeOK
<1>2. CASE UNCHANGED rows
  BY <1>2 DEF RowStep
<1>3. CASE Tick
  <2>1. rows'[r] = Older(rows[r])
    BY <1>3 DEF Tick
  <2>2. /\ Older(rows[r]).status = rows[r].status
        /\ Older(rows[r]).attempts = rows[r].attempts
    BY <1>1, OlderEffects
  <2> QED
    BY <2>1, <2>2 DEF RowStep
<1>4. CASE RequeueCommit
  <2>1. operator.row \in Rows /\ operator.was \in LoadedRow
    BY <1>4 DEF RequeueCommit, TypeOK
  <2>2. CASE operator.row = r
    <3>1. rows'[r] = Requeue(rows[r], operator.was)
      BY <1>1, <1>4, <2>2 DEF RequeueCommit
    <3>2. /\ Requeue(rows[r], operator.was).status
              \in {rows[r].status, "pending"}
          /\ Requeue(rows[r], operator.was).attempts = rows[r].attempts
      BY <1>1, <2>1, RequeueEffects
    <3>3. rows[r].status # "absent"
      BY <1>4, <2>2 DEF RequeueCommit, OnlyPresentRows
    <3> QED
      BY <3>1, <3>2, <3>3 DEF RowStep
  <2>3. CASE operator.row # r
    BY <1>1, <1>4, <2>3 DEF RequeueCommit, RowStep
  <2> QED
    BY <2>2, <2>3
<1>5. ASSUME NEW q \in Rows, Append(q)
      PROVE  RowStep(r)
  BY <1>1, <1>5 DEF Append, RowStep
<1>6. ASSUME NEW w \in Workers, ClaimRows(w)
      PROVE  RowStep(r)
  BY <1>6, DueRowStep
<1>7. ASSUME NEW w \in Workers, NEW q \in Rows, IsCurrent(w, q),
             \/ /\ pc[w] = "acking"
                /\ rows' = [rows EXCEPT ![q] = MarkProcessed(rows[q], seen[w])]
             \/ /\ pc[w] = "nacking" /\ pc'[w] # "nacking"
                /\ rows' = [rows EXCEPT ![q] = MarkFailed(rows[q], seen[w])]
      PROVE  RowStep(r)
  <2>1. CASE q = r
    BY <1>1, <1>7, <2>1 DEF RowStep
  <2>2. CASE q # r
    BY <1>1, <1>7, <2>2 DEF RowStep
  <2> QED
    BY <2>1, <2>2
<1>8. ASSUME NEW w \in Workers, LoopStep(w)
      PROVE  RowStep(r)
  <2>1. CASE Claim(w)
    BY <1>6, <2>1 DEF Claim
  <2>2. CASE BatchDone(w)
    BY <1>2, <2>2 DEF BatchDone
  <2>3. ASSUME NEW q \in Rows, ItemStep(w, q)
        PROVE  RowStep(r)
    <3>1. CASE AckCommit(w, q)
      BY <1>7, <3>1 DEF AckCommit, CommitRow, Goto
    <3>2. CASE NackCommit(w, q)
      BY <1>1, <1>7, <3>2 DEF NackCommit, CommitRow, Goto
    <3>3. CASE UNCHANGED rows
      BY <1>2, <3>3
    <3> QED
      BY <2>3, <3>1, <3>2, <3>3
         DEF ItemStep, StartHandler, HandlerReturns, HandlerRaises,
             HandlerTimesOut, AckLoad, NackLoad, LoadRow
  <2> QED
    BY <1>8, <2>1, <2>2, <2>3 DEF LoopStep
<1>9. ASSUME NEW w \in Workers, NEW q \in Rows, SideStep(w, q)
      PROVE  RowStep(r)
  <2>1. CASE HeartbeatCommit(w, q)
    BY <1>1, <2>1 DEF HeartbeatCommit, RowStep, Columns
  <2>2. CASE AckFault(w, q)
    BY <1>2, <1>7, <2>2 DEF AckFault, Fails, Goto
  <2>3. CASE NackFault(w, q)
    BY <1>1, <1>2, <1>7, <2>3 DEF NackFault, Goto
  <2>4. CASE UNCHANGED rows
    BY <1>2, <2>4
  <2> QED
    BY <1>9, <2>1, <2>2, <2>3, <2>4 DEF SideStep, HeartbeatLoad, ZombieEnds
<1> QED
  BY <1>2, <1>3, <1>4, <1>5, <1>6, <1>8, <1>9
     DEF Next, vars, RequeueLoad, ClaimFault, Crash, Restart

LEMMA RowsStayPresent ==
  ASSUME TypeOK, OnlyPresentRows, [Next]_vars, NEW r \in Rows,
         rows[r].status # "absent"
  PROVE  rows'[r].status # "absent"
<1>1. RowStep(r)
  BY NextRowStep
<1>2. rows[r] \in Columns
  BY DEF TypeOK
<1>3. ASSUME NEW w \in Workers, pc[w] \in {"acking", "nacking"}
      PROVE  /\ MarkProcessed(rows[r], seen[w]).status # "absent"
             /\ MarkFailed(rows[r], seen[w]).status # "absent"
  <2>1. seen[w] \in LoadedRow
    BY <1>3 DEF TypeOK
  <2> QED
    BY <1>2, <2>1, ProcessedEffects, FailedEffects
<1> QED
  BY <1>1, <1>3 DEF RowStep

\* Batches, heartbeats, zombie threads and requeue requests keep referring to
\* rows of the table, since no row is ever deleted.
LEMMA NextOnlyPresentRows ==
  ASSUME TypeOK, OnlyPresentRows, [Next]_vars
  PROVE  OnlyPresentRows'
<1> DEFINE Present(r) == rows[r].status # "absent"
           Refers(w, r) == r \in batch[w] \/ <<w, r>> \in beating \cup zombies
<1>1. \A r \in Rows : Present(r) => Present(r)'
  BY RowsStayPresent
<1>2. \A w \in Workers, r \in Rows : Refers(w, r) => Present(r)
  BY DEF OnlyPresentRows
<1>3. \A w \in Workers, r \in Rows :
        Refers(w, r)' => Refers(w, r) \/ r \in Due
  <2> SUFFICES ASSUME NEW w \in Workers, NEW r \in Rows, Refers(w, r)'
               PROVE  Refers(w, r) \/ r \in Due
    OBVIOUS
  <2> USE DEF TypeOK
  <2>1. CASE UNCHANGED workerVars
    BY <2>1 DEF workerVars
  <2>2. CASE Tick
    BY <2>2 DEF Tick
  <2>3. ASSUME NEW v \in Workers, LoopStep(v)
        PROVE  Refers(w, r) \/ r \in Due
    <3>1. CASE Claim(v)
      BY <3>1 DEF Claim
    <3>2. CASE BatchDone(v)
      BY <3>2 DEF BatchDone
    <3>3. ASSUME NEW q \in Rows, ItemStep(v, q)
          PROVE  Refers(w, r)
      <4>1. CASE HandlerTimesOut(v, q)
        BY <4>1 DEF HandlerTimesOut, Fails, IsCurrent
      <4>2. CASE AckCommit(v, q) \/ NackCommit(v, q)
        BY <4>2 DEF AckCommit, NackCommit, CommitRow
      <4> QED
        BY <3>3, <4>1, <4>2
           DEF ItemStep, StartHandler, HandlerReturns, HandlerRaises, AckLoad,
               NackLoad, LoadRow
    <3> QED
      BY <2>3, <3>1, <3>2, <3>3 DEF LoopStep
  <2>4. ASSUME NEW v \in Workers, Crash(v)
        PROVE  Refers(w, r)
    BY <2>4 DEF Crash
  <2>5. ASSUME NEW v \in Workers, Restart(v)
        PROVE  Refers(w, r)
    BY <2>5 DEF Restart
  <2>6. ASSUME NEW v \in Workers, NEW q \in Rows, SideStep(v, q)
        PROVE  Refers(w, r) \/ r \in Due
    <3>1. CASE HeartbeatLoad(v, q)
      BY <3>1 DEF HeartbeatLoad, IsCurrent
    <3>2. CASE HeartbeatCommit(v, q) \/ ZombieEnds(v, q)
      BY <3>2 DEF HeartbeatCommit, ZombieEnds
    <3>3. CASE AckFault(v, q) \/ NackFault(v, q)
      BY <3>3 DEF AckFault, NackFault
    <3> QED
      BY <2>6, <3>1, <3>2, <3>3 DEF SideStep
  <2> QED
    BY <2>1, <2>2, <2>3, <2>4, <2>5, <2>6
       DEF Next, vars, workerVars, RequeueCommit, Append, RequeueLoad, ClaimFault
<1>4. \A r \in Due : Present(r)
  BY DEF Due, FirstOf, Eligible
<1>5. \A w \in Workers, r \in Rows : Refers(w, r)' => Present(r)'
  BY <1>1, <1>2, <1>3, <1>4
<1>6. (operator # None => Present(operator.row))'
  <2>1. CASE UNCHANGED operator
    <3>1. operator # None => operator.row \in Rows
      BY DEF TypeOK
    <3> QED
      BY <1>1, <2>1, <3>1 DEF OnlyPresentRows
  <2>2. ASSUME NEW r \in Rows, RequeueLoad(r)
        PROVE  (operator # None => Present(operator.row))'
    <3>1. operator'.row = r /\ Present(r)
      BY <2>2 DEF RequeueLoad
    <3> QED
      BY <1>1, <3>1
  <2>3. CASE RequeueCommit
    BY <2>3 DEF RequeueCommit
  <2>4. ASSUME NEW w \in Workers, LoopStep(w)
        PROVE  UNCHANGED operator
    BY <2>4 DEF LoopStep, Claim, BatchDone, ItemStep, StartHandler,
                HandlerReturns, HandlerRaises, HandlerTimesOut, AckLoad,
                AckCommit, NackLoad, NackCommit, LoadRow, CommitRow
  <2>5. ASSUME NEW w \in Workers, NEW r \in Rows, SideStep(w, r)
        PROVE  UNCHANGED operator
    BY <2>5 DEF SideStep, HeartbeatLoad, HeartbeatCommit, ZombieEnds,
                AckFault, NackFault
  <2> QED
    BY <2>1, <2>2, <2>3, <2>4, <2>5
       DEF Next, vars, Tick, Append, ClaimFault, Crash, Restart
<1>7. \A r \in handled' : Present(r)'
  <2>1. CASE UNCHANGED handled
    BY <1>1, <2>1 DEF OnlyPresentRows, TypeOK
  <2>2. ASSUME NEW w \in Workers, NEW r \in Rows, Refers(w, r),
               handled' \in {handled, handled \cup {r}}
        PROVE  \A q \in handled' : Present(q)'
    BY <1>1, <1>2, <2>2 DEF OnlyPresentRows, TypeOK
  <2>3. ASSUME NEW w \in Workers, NEW r \in Rows, ItemStep(w, r)
        PROVE  UNCHANGED handled \/ HandlerReturns(w, r)
    BY <2>3 DEF ItemStep, StartHandler, HandlerRaises, HandlerTimesOut,
                AckLoad, AckCommit, NackLoad, NackCommit, LoadRow, CommitRow
  <2>4. ASSUME NEW w \in Workers, LoopStep(w)
        PROVE  \A q \in handled' : Present(q)'
    <3>1. ASSUME NEW r \in Rows, HandlerReturns(w, r)
          PROVE  \A q \in handled' : Present(q)'
      BY <2>2, <3>1 DEF HandlerReturns, IsCurrent
    <3> QED
      BY <2>1, <2>3, <2>4, <3>1 DEF LoopStep, Claim, BatchDone
  <2>5. ASSUME NEW w \in Workers, NEW r \in Rows, SideStep(w, r)
        PROVE  \A q \in handled' : Present(q)'
    <3>1. CASE ZombieEnds(w, r)
      BY <2>2, <3>1 DEF ZombieEnds
    <3> QED
      BY <2>1, <2>5, <3>1
         DEF SideStep, HeartbeatLoad, HeartbeatCommit, AckFault, NackFault
  <2> QED
    BY <2>1, <2>4, <2>5
       DEF Next, vars, Tick, RequeueCommit, Append, RequeueLoad, ClaimFault,
           Crash, Restart
<1> QED
  <2>1. \A w \in Workers, r \in Rows :
          (Refers(w, r) => rows[r].status # "absent")'
    BY <1>5
  <2> QED
    BY <1>6, <1>7, <2>1 DEF OnlyPresentRows

-----------------------------------------------------------------------------
(* A processed event was handled.                                           *)

LEMMA HandledGrows ==
  ASSUME [Next]_vars
  PROVE  handled \subseteq handled'
<1>1. ASSUME NEW w \in Workers, LoopStep(w)
      PROVE  handled \subseteq handled'
  BY <1>1 DEF LoopStep, Claim, BatchDone, ItemStep, StartHandler,
              HandlerReturns, HandlerRaises, HandlerTimesOut, AckLoad,
              AckCommit, NackLoad, NackCommit, LoadRow, CommitRow
<1>2. ASSUME NEW w \in Workers, NEW r \in Rows, SideStep(w, r)
      PROVE  handled \subseteq handled'
  BY <1>2 DEF SideStep, HeartbeatLoad, HeartbeatCommit, ZombieEnds, AckFault,
              NackFault
<1> QED
  BY <1>1, <1>2 DEF Next, vars, Tick, RequeueCommit, Append, RequeueLoad,
                    ClaimFault, Crash, Restart

\* A worker has one current item.
LEMMA CurrentIsUnique ==
  ASSUME NEW w \in Workers, NEW q \in Rows, NEW r \in Rows,
         IsCurrent(w, q), IsCurrent(w, r)
  PROVE  q = r
<1>1. q \in Int /\ r \in Int
  BY ConstantsAssumption DEF Rows, ConstantsAssumption
<1>2. q <= r /\ r <= q
  BY DEF IsCurrent
<1> QED
  BY <1>1, <1>2

LEMMA NextAckWasHandled ==
  ASSUME TypeOK, AckWasHandled, [Next]_vars
  PROVE  AckWasHandled'
<1> SUFFICES ASSUME NEW w \in Workers, NEW r \in Rows,
                    pc'[w] \in {"ack", "acking"}, IsCurrent(w, r)'
             PROVE  r \in handled'
  BY DEF AckWasHandled
<1>1. pc \in [Workers -> PCs] /\ batch \in [Workers -> SUBSET Rows]
  BY DEF TypeOK
<1>2. CASE pc[w] \in {"ack", "acking"} /\ IsCurrent(w, r)
  BY <1>2, HandledGrows DEF AckWasHandled
<1>3. CASE pc'[w] = pc[w] /\ batch'[w] = batch[w]
  BY <1>2, <1>3 DEF IsCurrent
<1>4. ASSUME NEW v \in Workers, LoopStep(v)
      PROVE  r \in handled'
  <2>1. CASE Claim(v) \/ BatchDone(v)
    BY <1>1, <1>3, <2>1 DEF Claim, BatchDone, Goto
  <2>2. ASSUME NEW q \in Rows, ItemStep(v, q)
        PROVE  r \in handled'
    <3>1. CASE HandlerReturns(v, q)
      <4>1. CASE v = w
        <5>1. IsCurrent(w, r)
          BY <3>1 DEF HandlerReturns, IsCurrent
        <5>2. q = r
          BY <3>1, <4>1, <5>1, CurrentIsUnique DEF HandlerReturns
        <5> QED
          BY <3>1, <5>2 DEF HandlerReturns
      <4>2. CASE v # w
        BY <1>1, <1>3, <3>1, <4>2 DEF HandlerReturns, Goto
      <4> QED
        BY <4>1, <4>2
    <3>2. CASE AckLoad(v, q)
      <4>1. pc[w] \in {"ack", "acking"} /\ IsCurrent(w, r)
        BY <1>1, <3>2 DEF AckLoad, LoadRow, Goto, IsCurrent
      <4> QED
        BY <1>2, <4>1
    <3>3. CASE StartHandler(v, q) \/ NackLoad(v, q)
      BY <1>1, <1>3, <3>3 DEF StartHandler, NackLoad, LoadRow, Goto
    <3>4. CASE HandlerRaises(v, q) \/ HandlerTimesOut(v, q)
      BY <1>1, <1>3, <3>4 DEF HandlerRaises, HandlerTimesOut, Fails, Goto
    <3>5. CASE AckCommit(v, q) \/ NackCommit(v, q)
      BY <1>1, <1>3, <3>5 DEF AckCommit, NackCommit, CommitRow, Goto
    <3> QED
      BY <2>2, <3>1, <3>2, <3>3, <3>4, <3>5 DEF ItemStep
  <2> QED
    BY <1>4, <2>1, <2>2 DEF LoopStep
<1>5. ASSUME NEW v \in Workers, NEW q \in Rows, SideStep(v, q)
      PROVE  r \in handled'
  BY <1>1, <1>3, <1>5
     DEF SideStep, HeartbeatLoad, HeartbeatCommit, ZombieEnds, AckFault,
         NackFault, Fails, Goto
<1>6. ASSUME NEW v \in Workers, Crash(v) \/ Restart(v)
      PROVE  r \in handled'
  BY <1>1, <1>3, <1>6 DEF Crash, Restart, Goto
<1> QED
  BY <1>3, <1>4, <1>5, <1>6
     DEF Next, vars, workerVars, Tick, RequeueCommit, Append, RequeueLoad,
         ClaimFault

LEMMA NextProcessedWasHandled ==
  ASSUME TypeOK, OnlyPresentRows, AckWasHandled, ProcessedWasHandled,
         [Next]_vars
  PROVE  ProcessedWasHandled'
<1> SUFFICES ASSUME NEW r \in Rows, rows'[r].status = "processed"
             PROVE  r \in handled'
  BY DEF ProcessedWasHandled
<1>1. RowStep(r) /\ rows[r] \in Columns
  BY NextRowStep DEF TypeOK
<1>2. CASE rows[r].status = "processed"
  BY <1>2, HandledGrows DEF ProcessedWasHandled
<1>3. ASSUME NEW w \in Workers, pc[w] = "acking", IsCurrent(w, r)
      PROVE  r \in handled'
  BY <1>3, HandledGrows DEF AckWasHandled
<1>4. ASSUME NEW w \in Workers, pc[w] = "nacking",
             rows'[r] = MarkFailed(rows[r], seen[w])
      PROVE  rows[r].status = "processed"
  <2>1. seen[w] \in LoadedRow
    BY <1>4 DEF TypeOK
  <2> QED
    BY <1>1, <1>4, <2>1, FailedEffects
<1> QED
  BY <1>1, <1>2, <1>3, <1>4 DEF RowStep, NewRow

-----------------------------------------------------------------------------
(* The attempt counter never runs ahead of the failures.                    *)

LEMMA FailingIsFinite ==
  ASSUME NEW r \in Rows
  PROVE  /\ IsFiniteSet(Failing(r)) /\ IsFiniteSet(Failing(r)')
         /\ Cardinality(Failing(r)) \in Nat
         /\ Cardinality(Failing(r)') \in Nat
<1>1. IsFiniteSet(Workers)
  BY ConstantsAssumption DEF ConstantsAssumption
<1>2. Failing(r) \subseteq Workers /\ Failing(r)' \subseteq Workers
  BY DEF Failing
<1> QED
  BY <1>1, <1>2, FS_Subset, FS_CardinalityType

\* The numbers AttemptsCounted compares are natural numbers.
LEMMA CountsAreNat ==
  ASSUME TypeOK, TypeOK', NEW r \in Rows
  PROVE  /\ rows[r].attempts \in Nat /\ rows'[r].attempts \in Nat
         /\ failures[r] \in Nat /\ failures'[r] \in Nat
         /\ \A w \in Failing(r) :
              pc[w] = "nacking" => seen[w].attempts \in Nat
         /\ \A w \in Failing(r)' :
              pc'[w] = "nacking" => seen'[w].attempts \in Nat
BY DEF TypeOK, Columns, LoadedRow, Failing

\* Nobody starts to fail, and the counter does not move.
LEMMA CountKept ==
  ASSUME TypeOK, TypeOK', NEW r \in Rows, AttemptsCounted(r),
         Failing(r)' \subseteq Failing(r), failures'[r] = failures[r],
         rows'[r].attempts \in {rows[r].attempts, 0},
         \A w \in Failing(r)' :
           pc'[w] = "nacking"
           => \/ pc[w] = "nacking" /\ seen'[w] = seen[w]
              \/ seen'[w].attempts = rows[r].attempts
  PROVE  AttemptsCounted(r)'
<1>1. Cardinality(Failing(r)') <= Cardinality(Failing(r))
  BY FailingIsFinite, FS_Subset
<1> QED
  BY <1>1, FailingIsFinite, CountsAreNat DEF AttemptsCounted

\* w starts to fail on r, and its failure is recorded.
LEMMA CountFails ==
  ASSUME TypeOK, TypeOK', NEW r \in Rows, NEW w \in Workers,
         AttemptsCounted(r), w \notin Failing(r),
         Failing(r)' = Failing(r) \cup {w}, failures'[r] = failures[r] + 1,
         rows'[r].attempts \in {rows[r].attempts, 0}, pc'[w] # "nacking",
         \A v \in Failing(r) : pc'[v] = pc[v] /\ seen'[v] = seen[v]
  PROVE  AttemptsCounted(r)'
<1>1. Cardinality(Failing(r)') = Cardinality(Failing(r)) + 1
  BY FailingIsFinite, FS_AddElement
<1>2. rows'[r].attempts + Cardinality(Failing(r)') <= failures'[r]
  BY <1>1, FailingIsFinite, CountsAreNat DEF AttemptsCounted
<1>3. ASSUME NEW v \in Failing(r)', pc'[v] = "nacking"
      PROVE  seen'[v].attempts + Cardinality(Failing(r)') <= failures'[r]
  <2>1. v \in Failing(r) /\ pc[v] = "nacking" /\ seen'[v] = seen[v]
    BY <1>3
  <2>2. seen[v].attempts + Cardinality(Failing(r)) <= failures[r]
    BY <2>1 DEF AttemptsCounted
  <2>3. seen[v].attempts \in Nat
    BY <2>1, CountsAreNat
  <2> QED
    BY <1>1, <2>1, <2>2, <2>3, FailingIsFinite, CountsAreNat
<1> QED
  BY <1>2, <1>3 DEF AttemptsCounted

\* w leaves mark_failed, having counted its attempt.
LEMMA CountCommits ==
  ASSUME TypeOK, TypeOK', NEW r \in Rows, NEW w \in Failing(r),
         AttemptsCounted(r), pc[w] = "nacking",
         Failing(r)' = Failing(r) \ {w}, failures'[r] = failures[r],
         rows'[r].attempts = seen[w].attempts + 1,
         \A v \in Failing(r)' : pc'[v] = pc[v] /\ seen'[v] = seen[v]
  PROVE  AttemptsCounted(r)'
<1>1. Cardinality(Failing(r)') = Cardinality(Failing(r)) - 1
  BY FailingIsFinite, FS_RemoveElement
<1>2. Failing(r)' \subseteq Failing(r)
  OBVIOUS
<1>3. seen[w].attempts + Cardinality(Failing(r)) <= failures[r]
  BY DEF AttemptsCounted
<1>4. rows'[r].attempts + Cardinality(Failing(r)') <= failures'[r]
  BY <1>1, <1>3, FailingIsFinite, CountsAreNat
<1>5. ASSUME NEW v \in Failing(r)', pc'[v] = "nacking"
      PROVE  seen'[v].attempts + Cardinality(Failing(r)') <= failures'[r]
  <2>1. v \in Failing(r) /\ pc[v] = "nacking" /\ seen'[v] = seen[v]
    BY <1>2, <1>5
  <2>2. seen[v].attempts + Cardinality(Failing(r)) <= failures[r]
    BY <2>1 DEF AttemptsCounted
  <2>3. seen[v].attempts \in Nat
    BY <2>1, CountsAreNat
  <2> QED
    BY <1>1, <2>1, <2>2, <2>3, FailingIsFinite, CountsAreNat
<1> QED
  BY <1>4, <1>5 DEF AttemptsCounted

\* Only mark_failed raises the counter of a row.
LEMMA AttemptsMove ==
  ASSUME TypeOK, OnlyPresentRows, [Next]_vars, NEW r \in Rows,
         \A w \in Workers : pc[w] = "nacking" => pc'[w] = "nacking"
  PROVE  rows'[r].attempts \in {rows[r].attempts, 0}
<1>1. RowStep(r) /\ rows[r] \in Columns
  BY NextRowStep DEF TypeOK
<1>2. ASSUME NEW w \in Workers, pc[w] = "acking"
      PROVE  MarkProcessed(rows[r], seen[w]).attempts = rows[r].attempts
  <2>1. seen[w] \in LoadedRow
    BY <1>2 DEF TypeOK
  <2> QED
    BY <1>1, <2>1, ProcessedEffects
<1> QED
  BY <1>1, <1>2 DEF RowStep, NewRow

LEMMA NextAttemptsCounted ==
  ASSUME TypeOK, OnlyPresentRows, AttemptsAreFailures, [Next]_vars,
         NEW r \in Rows
  PROVE  AttemptsCounted(r)'
<1>1. TypeOK' /\ AttemptsCounted(r)
  BY NextTypeOK DEF AttemptsAreFailures
<1>2. /\ pc \in [Workers -> PCs] /\ batch \in [Workers -> SUBSET Rows]
      /\ seen \in [Workers -> LoadedRow \cup {None}]
      /\ failures \in [Rows -> Nat] /\ rows \in [Rows -> Columns]
  BY DEF TypeOK
<1>3. ASSUME UNCHANGED <<pc, batch, seen, failures>>
      PROVE  AttemptsCounted(r)'
  <2>1. Failing(r)' = Failing(r)
    BY <1>3 DEF Failing, IsCurrent
  <2>2. rows'[r].attempts \in {rows[r].attempts, 0}
    BY <1>3, AttemptsMove
  <2> QED
    BY <1>1, <1>3, <2>1, <2>2, CountKept
\* A step of worker v that neither enters nor leaves mark_failed.
<1>4. ASSUME NEW v \in Workers,
             pc[v] \notin {"nack", "nacking"}, pc'[v] \notin {"nack", "nacking"},
             \A w \in Workers \ {v} :
               pc'[w] = pc[w] /\ batch'[w] = batch[w] /\ seen'[w] = seen[w],
             UNCHANGED failures
      PROVE  AttemptsCounted(r)'
  <2>1. Failing(r)' = Failing(r) /\ v \notin Failing(r)
    BY <1>4 DEF Failing, IsCurrent
  <2>2. rows'[r].attempts \in {rows[r].attempts, 0}
    BY <1>4, AttemptsMove
  <2>3. \A w \in Failing(r) : pc'[w] = pc[w] /\ seen'[w] = seen[w]
    BY <1>4, <2>1 DEF Failing
  <2> QED
    BY <1>1, <1>4, <2>1, <2>2, <2>3, CountKept
\* Worker v leaves mark_failed of another row, or without a write.
<1>5. ASSUME NEW v \in Workers, pc'[v] \notin {"nack", "nacking"},
             \A w \in Workers \ {v} :
               pc'[w] = pc[w] /\ batch'[w] = batch[w] /\ seen'[w] = seen[w],
             UNCHANGED failures, rows'[r] = rows[r]
      PROVE  AttemptsCounted(r)'
  <2>1. Failing(r)' \subseteq Failing(r) /\ v \notin Failing(r)'
    BY <1>5 DEF Failing, IsCurrent
  <2>2. \A w \in Failing(r)' : pc'[w] = pc[w] /\ seen'[w] = seen[w]
    BY <1>5, <2>1 DEF Failing
  <2> QED
    BY <1>1, <1>5, <2>1, <2>2, CountKept
\* Worker v commits mark_failed of r.
<1>6. ASSUME NEW v \in Workers, pc[v] = "nacking", IsCurrent(v, r),
             pc'[v] \notin {"nack", "nacking"},
             \A w \in Workers \ {v} :
               pc'[w] = pc[w] /\ batch'[w] = batch[w] /\ seen'[w] = seen[w],
             UNCHANGED failures, rows'[r] = MarkFailed(rows[r], seen[v])
      PROVE  AttemptsCounted(r)'
  <2>1. v \in Failing(r) /\ Failing(r)' = Failing(r) \ {v}
    BY <1>6 DEF Failing, IsCurrent
  <2>2. rows[r] \in Columns /\ seen[v] \in LoadedRow
    BY <1>6 DEF TypeOK
  <2>3. rows'[r].attempts = seen[v].attempts + 1
    BY <1>6, <2>2, FailedEffects
  <2>4. \A w \in Failing(r)' : pc'[w] = pc[w] /\ seen'[w] = seen[w]
    BY <1>6, <2>1 DEF Failing
  <2> QED
    BY <1>1, <1>6, <2>1, <2>3, <2>4, CountCommits
\* The dispatch of v for q fails.
<1>7. ASSUME NEW v \in Workers, NEW q \in Rows, IsCurrent(v, q),
             pc[v] \in {"run", "acking"}, pc' = [pc EXCEPT ![v] = "nack"],
             UNCHANGED batch, seen' = [seen EXCEPT ![v] = seen'[v]],
             failures' = [failures EXCEPT ![q] = @ + 1]
      PROVE  AttemptsCounted(r)'
  <2>1. rows'[r].attempts \in {rows[r].attempts, 0}
    BY <1>2, <1>7, AttemptsMove
  <2>2. v \notin Failing(r)
    BY <1>7 DEF Failing
  <2>3. \A w \in Failing(r) : pc'[w] = pc[w] /\ seen'[w] = seen[w]
    BY <1>2, <1>7, <2>2 DEF Failing
  <2>4. CASE q = r
    <3>1. Failing(r)' = Failing(r) \cup {v}
      BY <1>2, <1>7, <2>4 DEF Failing, IsCurrent
    <3>2. failures'[r] = failures[r] + 1
      BY <1>2, <1>7, <2>4
    <3>3. pc'[v] # "nacking"
      BY <1>2, <1>7
    <3> QED
      BY <1>1, <2>1, <2>2, <2>3, <3>1, <3>2, <3>3, CountFails
  <2>5. CASE q # r
    <3>1. ~ IsCurrent(v, r)
      BY <1>7, <2>5, CurrentIsUnique
    <3>2. Failing(r)' = Failing(r)
      BY <1>2, <1>7, <3>1 DEF Failing, IsCurrent
    <3> QED
      BY <1>1, <1>2, <1>7, <2>1, <2>3, <2>5, <3>2, CountKept
  <2> QED
    BY <2>4, <2>5
<1>8. ASSUME NEW v \in Workers, LoopStep(v)
      PROVE  AttemptsCounted(r)'
  <2>1. CASE Claim(v)
    BY <1>2, <1>4, <2>1 DEF Claim, Goto
  <2>2. CASE BatchDone(v)
    BY <1>2, <1>4, <2>2 DEF BatchDone, Goto
  <2>3. ASSUME NEW q \in Rows, ItemStep(v, q)
        PROVE  AttemptsCounted(r)'
    <3>1. CASE StartHandler(v, q)
      BY <1>2, <1>4, <3>1 DEF StartHandler, Goto
    <3>2. CASE HandlerReturns(v, q)
      BY <1>2, <1>4, <3>2 DEF HandlerReturns, Goto
    <3>3. CASE HandlerRaises(v, q)
      BY <1>2, <1>7, <3>3 DEF HandlerRaises, Fails, Goto
    <3>4. CASE HandlerTimesOut(v, q)
      BY <1>2, <1>7, <3>4 DEF HandlerTimesOut, Fails, Goto
    <3>5. CASE AckLoad(v, q)
      BY <1>2, <1>4, <3>5 DEF AckLoad, LoadRow, Goto
    <3>6. CASE AckCommit(v, q)
      BY <1>2, <1>4, <3>6 DEF AckCommit, CommitRow, Goto
    <3>7. CASE NackLoad(v, q)
      <4>1. Failing(r)' = Failing(r)
        BY <1>2, <3>7 DEF NackLoad, LoadRow, Goto, Failing, IsCurrent
      <4>2. rows' = rows /\ failures' = failures
        BY <3>7 DEF NackLoad, LoadRow
      <4>3. \A w \in Failing(r)' :
              pc'[w] = "nacking"
              => \/ pc[w] = "nacking" /\ seen'[w] = seen[w]
                 \/ seen'[w].attempts = rows[r].attempts
        <5> SUFFICES ASSUME NEW w \in Failing(r), pc'[w] = "nacking"
                     PROVE  \/ pc[w] = "nacking" /\ seen'[w] = seen[w]
                            \/ seen'[w].attempts = rows[r].attempts
          BY <4>1
        <5>1. CASE w = v
          <6>1. q = r
            BY <3>7, <5>1, CurrentIsUnique DEF NackLoad, LoadRow, Failing
          <6> QED
            BY <1>2, <3>7, <5>1, <6>1 DEF NackLoad, LoadRow, Loaded
        <5>2. CASE w # v
          BY <1>2, <3>7, <5>2 DEF NackLoad, LoadRow, Goto, Failing
        <5> QED
          BY <5>1, <5>2
      <4> QED
        BY <1>1, <4>1, <4>2, <4>3, CountKept
    <3>8. CASE NackCommit(v, q)
      <4>1. CASE q = r
        BY <1>2, <1>6, <3>8, <4>1 DEF NackCommit, CommitRow, Goto
      <4>2. CASE q # r
        BY <1>2, <1>5, <3>8, <4>2 DEF NackCommit, CommitRow, Goto
      <4> QED
        BY <4>1, <4>2
    <3> QED
      BY <2>3, <3>1, <3>2, <3>3, <3>4, <3>5, <3>6, <3>7, <3>8 DEF ItemStep
  <2> QED
    BY <1>8, <2>1, <2>2, <2>3 DEF LoopStep
<1>9. ASSUME NEW v \in Workers, NEW q \in Rows, SideStep(v, q)
      PROVE  AttemptsCounted(r)'
  <2>1. CASE HeartbeatLoad(v, q) \/ HeartbeatCommit(v, q) \/ ZombieEnds(v, q)
    BY <1>3, <2>1 DEF HeartbeatLoad, HeartbeatCommit, ZombieEnds
  <2>2. CASE AckFault(v, q)
    BY <1>2, <1>7, <2>2 DEF AckFault, Fails, Goto
  <2>3. CASE NackFault(v, q)
    <3>1. CASE rows'[r] = rows[r]
      BY <1>2, <1>5, <2>3, <3>1 DEF NackFault, Goto
    <3>2. CASE rows'[r] # rows[r]
      <4>1. q = r /\ rows'[r] = MarkFailed(rows[r], seen[v])
        BY <1>2, <2>3, <3>2 DEF NackFault
      <4> QED
        BY <1>2, <1>6, <2>3, <4>1 DEF NackFault, Goto
    <3> QED
      BY <3>1, <3>2
  <2> QED
    BY <1>9, <2>1, <2>2, <2>3 DEF SideStep
<1>10. ASSUME NEW v \in Workers, Crash(v)
       PROVE  AttemptsCounted(r)'
  BY <1>2, <1>5, <1>10 DEF Crash
<1>11. ASSUME NEW v \in Workers, Restart(v)
       PROVE  AttemptsCounted(r)'
  BY <1>2, <1>4, <1>11 DEF Restart, Goto
<1> QED
  BY <1>3, <1>8, <1>9, <1>10, <1>11
     DEF Next, vars, workerVars, Tick, RequeueCommit, Append, RequeueLoad,
         ClaimFault

LEMMA FailuresGrow ==
  ASSUME TypeOK, [Next]_vars, NEW r \in Rows
  PROVE  failures'[r] >= failures[r]
<1>1. failures \in [Rows -> Nat] /\ failures[r] \in Nat
  BY DEF TypeOK
<1>2. CASE UNCHANGED failures
  BY <1>1, <1>2
<1>3. ASSUME NEW w \in Workers, NEW q \in Rows, NEW from, Fails(w, q, from)
      PROVE  failures'[r] >= failures[r]
  BY <1>1, <1>3 DEF Fails
<1>4. ASSUME NEW w \in Workers, LoopStep(w)
      PROVE  failures'[r] >= failures[r]
  BY <1>2, <1>3, <1>4
     DEF LoopStep, Claim, BatchDone, ItemStep, StartHandler, HandlerReturns,
         HandlerRaises, HandlerTimesOut, AckLoad, AckCommit, NackLoad,
         NackCommit, LoadRow, CommitRow
<1>5. ASSUME NEW w \in Workers, NEW q \in Rows, SideStep(w, q)
      PROVE  failures'[r] >= failures[r]
  BY <1>2, <1>3, <1>5
     DEF SideStep, HeartbeatLoad, HeartbeatCommit, ZombieEnds, AckFault,
         NackFault
<1> QED
  BY <1>2, <1>4, <1>5 DEF Next, vars, Tick, RequeueCommit, Append,
                          RequeueLoad, ClaimFault, Crash, Restart

LEMMA NextDeadLetterEarned ==
  ASSUME TypeOK, OnlyPresentRows, AttemptsAreFailures, DeadLetterEarned,
         [Next]_vars
  PROVE  DeadLetterEarned'
<1> SUFFICES ASSUME NEW r \in Rows, rows'[r].status = "dead_letter"
             PROVE  failures'[r] >= MaxAttempts
  BY DEF DeadLetterEarned
<1>1. RowStep(r) /\ rows[r] \in Columns
  BY NextRowStep DEF TypeOK
<1>2. failures[r] \in Nat /\ failures'[r] \in Nat /\ failures'[r] >= failures[r]
      /\ MaxAttempts \in Nat
  BY FailuresGrow, NextTypeOK, ConstantsAssumption
     DEF TypeOK, ConstantsAssumption
<1>3. CASE rows[r].status = "dead_letter"
  BY <1>2, <1>3 DEF DeadLetterEarned
<1>4. ASSUME NEW w \in Workers, pc[w] = "acking",
             rows'[r] = MarkProcessed(rows[r], seen[w])
      PROVE  rows[r].status = "dead_letter"
  <2>1. seen[w] \in LoadedRow
    BY <1>4 DEF TypeOK
  <2> QED
    BY <1>1, <1>4, <2>1, ProcessedEffects
<1>5. ASSUME NEW w \in Workers, pc[w] = "nacking", IsCurrent(w, r),
             rows'[r] = MarkFailed(rows[r], seen[w]),
             rows[r].status # "dead_letter"
      PROVE  failures'[r] >= MaxAttempts
  <2>1. seen[w] \in LoadedRow /\ seen[w].attempts \in Nat
    BY <1>5 DEF TypeOK, LoadedRow
  <2>2. seen[w].attempts + 1 >= MaxAttempts
    BY <1>1, <1>5, <2>1, FailedEffects
  <2>3. w \in Failing(r)
    BY <1>5 DEF Failing
  <2>4. Cardinality(Failing(r)) >= 1
    BY <2>3, FailingIsFinite, FS_EmptySet
  <2>5. seen[w].attempts + Cardinality(Failing(r)) <= failures[r]
    BY <1>5, <2>3 DEF AttemptsAreFailures, AttemptsCounted
  <2> QED
    BY <1>2, <2>1, <2>2, <2>4, <2>5, FailingIsFinite
<1> QED
  BY <1>1, <1>3, <1>4, <1>5 DEF RowStep, NewRow

LEMMA NextRequeueWasRequested ==
  ASSUME TypeOK, RequeueWasRequested, [Next]_vars
  PROVE  RequeueWasRequested'
<1>1. /\ spent.requeues \in Nat
      /\ spent \in [crashes : 0..MaxCrashes, faults : 0..MaxFaults,
                     requeues : 0..MaxRequeues]
  BY ConstantsAssumption DEF TypeOK, ConstantsAssumption
<1>2. CASE UNCHANGED <<operator, spent>>
  BY <1>2 DEF RequeueWasRequested
<1>3. ASSUME UNCHANGED operator, Fault
      PROVE  RequeueWasRequested'
  BY <1>1, <1>3 DEF Fault, RequeueWasRequested
<1>4. CASE RequeueCommit
  BY <1>4 DEF RequeueCommit, RequeueWasRequested
<1>5. ASSUME NEW r \in Rows, RequeueLoad(r)
      PROVE  RequeueWasRequested'
  BY <1>1, <1>5 DEF RequeueLoad, RequeueWasRequested
<1>6. ASSUME NEW w \in Workers, LoopStep(w)
      PROVE  UNCHANGED <<operator, spent>>
  BY <1>6
     DEF LoopStep, Claim, BatchDone, ItemStep, StartHandler, HandlerReturns,
         HandlerRaises, HandlerTimesOut, AckLoad, AckCommit, NackLoad,
         NackCommit, LoadRow, CommitRow
<1>7. ASSUME NEW w \in Workers, NEW r \in Rows, SideStep(w, r)
      PROVE  RequeueWasRequested'
  BY <1>2, <1>3, <1>7
     DEF SideStep, HeartbeatLoad, HeartbeatCommit, ZombieEnds, AckFault,
         NackFault
<1>8. ASSUME NEW w \in Workers, Crash(w)
      PROVE  RequeueWasRequested'
  BY <1>1, <1>8 DEF Crash, RequeueWasRequested
<1> QED
  BY <1>2, <1>3, <1>4, <1>5, <1>6, <1>7, <1>8
     DEF Next, vars, Tick, Append, ClaimFault, Restart

-----------------------------------------------------------------------------
(* The theorems.                                                            *)

LEMMA InitIInv == Init => IInv
<1> SUFFICES ASSUME Init PROVE IInv
  OBVIOUS
<1>1. OnlyPresentRows
  BY DEF Init, OnlyPresentRows
<1>2. AckWasHandled /\ ProcessedWasHandled /\ DeadLetterEarned
  BY DEF Init, AckWasHandled, ProcessedWasHandled, DeadLetterEarned, NoRow,
         NewRow
<1>3. AttemptsAreFailures
  <2>1. \A r \in Rows : Failing(r) = {}
    BY DEF Init, Failing
  <2>2. \A r \in Rows : rows[r].attempts = 0 /\ failures[r] = 0
    BY DEF Init, NoRow, NewRow
  <2> QED
    BY <2>1, <2>2, FS_EmptySet DEF AttemptsAreFailures, AttemptsCounted
<1>4. RequeueWasRequested
  BY DEF Init, RequeueWasRequested
<1> QED
  BY <1>1, <1>2, <1>3, <1>4, InitTypeOK DEF IInv

\* The inductive invariant: the types, what refers to a row finds it, an
\* acknowledgement follows a success, and failures on their way to the table
\* are counted once.
THEOREM InvariantHolds == Spec => []IInv
<1>1. IInv /\ [Next]_vars => IInv'
  <2> SUFFICES ASSUME IInv, [Next]_vars PROVE IInv'
    OBVIOUS
  <2>1. TypeOK' /\ OnlyPresentRows'
    BY NextTypeOK, NextOnlyPresentRows DEF IInv
  <2>2. AckWasHandled' /\ ProcessedWasHandled'
    BY NextAckWasHandled, NextProcessedWasHandled DEF IInv
  <2>3. AttemptsAreFailures'
    BY NextAttemptsCounted DEF IInv, AttemptsAreFailures
  <2>4. DeadLetterEarned'
    BY NextDeadLetterEarned DEF IInv
  <2>5. RequeueWasRequested'
    BY NextRequeueWasRequested DEF IInv
  <2> QED
    BY <2>1, <2>2, <2>3, <2>4, <2>5 DEF IInv
<1> QED
  BY <1>1, InitIInv, PTL DEF Spec

\* The columns and the poll loops stay within their types.
THEOREM TypeCorrect == Spec => []TypeOK
<1>1. IInv => TypeOK
  BY DEF IInv
<1> QED
  BY <1>1, InvariantHolds, PTL

\* No event is lost: no interleaving of claims, late acknowledgements,
\* retries, faults, crashes and requeues marks a row processed whose handlers
\* never all ran.
THEOREM NoEventIsLost == Spec => []ProcessedWasHandled
<1>1. IInv => ProcessedWasHandled
  BY DEF IInv
<1> QED
  BY <1>1, InvariantHolds, PTL

\* Nothing is dead-lettered early: the attempt counter, which racing
\* mark_failed transactions read and write, never exceeds the failures.
THEOREM NothingIsBuriedEarly == Spec => []DeadLetterEarned
<1>1. IInv => DeadLetterEarned
  BY DEF IInv
<1> QED
  BY <1>1, InvariantHolds, PTL

-----------------------------------------------------------------------------
(* One worker, and no requeues.                                             *)

\* A single process runs the poll loop, as in docker-compose.vps.yml, and the
\* operator leaves the table alone.
SoleWorker ==
  /\ \A v, w \in Workers : v = w
  /\ MaxRequeues = 0

\* What mark_* loaded is what the row still says when it commits: nobody else
\* writes it.
SeesItsRow ==
  \A w \in Workers, r \in Rows :
    pc[w] \in {"acking", "nacking"} /\ IsCurrent(w, r)
    => seen[w].status = rows[r].status

\* A claimed row keeps its lock, which goes with the status.
ClaimIsLocked ==
  \A r \in Rows : rows[r].status = "processing" => rows[r].lock # None

\* A commit over the row it loaded moves the row out of "processing".
LEMMA SettledEffects ==
  ASSUME NEW row \in Columns, NEW was \in LoadedRow, was.status = row.status
  PROVE  /\ MarkProcessed(row, was).status = "processed"
         /\ MarkFailed(row, was).status \in {"retry", "dead_letter"}
<1>1. /\ ReleaseLock(row, was) \in Columns
      /\ ReleaseLock(row, was).status = row.status
  BY ReleaseEffects
<1>2. MarkProcessed(row, was).status = "processed"
  BY <1>1 DEF MarkProcessed, WriteStatus, Columns
<1>3. MarkFailed(row, was).status \in {"retry", "dead_letter"}
  <2> DEFINE n == was.attempts + 1
             released == [ReleaseLock(row, was) EXCEPT !.attempts = n]
             later == [released EXCEPT !.retry = RetryDelay * n]
  <2>1. n \in Nat /\ RetryDelay * n \in Nat
    BY ConstantsAssumption DEF LoadedRow, ConstantsAssumption
  <2>2. released \in Columns /\ released.status = row.status
    BY <1>1, <2>1 DEF Columns
  <2>3. later \in Columns /\ later.status = row.status
    BY <2>1, <2>2 DEF Columns
  <2>4. MarkFailed(row, was) =
          IF n >= MaxAttempts THEN WriteStatus(released, was, "dead_letter")
                              ELSE WriteStatus(later, was, "retry")
    BY DEF MarkFailed
  <2> HIDE DEF n, released, later
  <2> QED
    BY <2>2, <2>3, <2>4 DEF WriteStatus, Columns
<1> QED
  BY <1>2, <1>3

\* What a step of a sole worker may do to one row: leave status and lock (a
\* tick makes the lock older), insert or claim it, or settle it for the worker
\* whose current item it is, which then has left the transaction.
SoleStep(r) ==
  \/ /\ rows'[r].status = rows[r].status
     /\ rows[r].lock # None => rows'[r].lock # None
  \/ /\ rows[r].status = "absent"
     /\ rows'[r].status = "pending"
  \/ /\ \A w \in Workers : pc[w] = "poll"
     /\ rows'[r].status = "processing" /\ rows'[r].lock # None
  \/ /\ \A w \in Workers : pc'[w] \notin {"acking", "nacking"}
     /\ rows'[r].status \in {"processed", "retry", "dead_letter"}

LEMMA SoleClaim ==
  ASSUME SoleWorker, TypeOK, NEW w \in Workers, pc[w] = "poll", ClaimRows(w),
         NEW r \in Rows
  PROVE  SoleStep(r)
<1>1. CASE r \in Due
  <2>1. rows'[r] = MarkClaimed(rows[r], w)
    BY <1>1 DEF ClaimRows
  <2>2. rows'[r].status = "processing" /\ rows'[r].lock # None
    BY <2>1, ConstantsAssumption
       DEF MarkClaimed, TypeOK, Columns, ConstantsAssumption
  <2>3. \A v \in Workers : pc[v] = "poll"
    BY DEF SoleWorker
  <2> QED
    BY <2>2, <2>3 DEF SoleStep
<1>2. CASE r \notin Due
  BY <1>2 DEF ClaimRows, SoleStep
<1> QED
  BY <1>1, <1>2

\* A commit, one that raises afterwards among them, by the sole worker.
LEMMA SoleCommit ==
  ASSUME SoleWorker, TypeOK, SeesItsRow,
         NEW w \in Workers, NEW q \in Rows, NEW r \in Rows,
         pc[w] \in {"acking", "nacking"}, IsCurrent(w, q),
         pc'[w] \notin {"acking", "nacking"},
         \/ rows' = rows
         \/ rows' = [rows EXCEPT ![q] = MarkProcessed(rows[q], seen[w])]
         \/ rows' = [rows EXCEPT ![q] = MarkFailed(rows[q], seen[w])]
  PROVE  SoleStep(r)
<1>1. /\ rows \in [Rows -> Columns] /\ rows[q] \in Columns
      /\ seen[w] \in LoadedRow /\ seen[w].status = rows[q].status
  BY DEF TypeOK, SeesItsRow
<1>2. \A v \in Workers : pc'[v] \notin {"acking", "nacking"}
  BY DEF SoleWorker
<1>3. CASE rows' = rows \/ r # q
  BY <1>1, <1>3 DEF SoleStep
<1>4. CASE r = q /\ rows'[q] \in {MarkProcessed(rows[q], seen[w]),
                                  MarkFailed(rows[q], seen[w])}
  <2>1. rows'[r].status \in {"processed", "retry", "dead_letter"}
    BY <1>1, <1>4, SettledEffects
  <2> QED
    BY <1>2, <2>1 DEF SoleStep
<1> QED
  BY <1>1, <1>3, <1>4

LEMMA NextSoleStep ==
  ASSUME SoleWorker, IInv, SeesItsRow, [Next]_vars, NEW r \in Rows
  PROVE  SoleStep(r)
<1>1. /\ TypeOK /\ rows \in [Rows -> Columns] /\ rows[r] \in Columns
      /\ pc \in [Workers -> PCs]
  BY DEF IInv, TypeOK
<1>2. CASE UNCHANGED rows
  BY <1>2 DEF SoleStep
<1>3. CASE Tick
  <2>1. rows'[r] = Older(rows[r])
    BY <1>3 DEF Tick
  <2>2. Older(rows[r]).status = rows[r].status
    BY <1>1, OlderEffects
  <2>3. rows[r].lock # None => Older(rows[r]).lock # None
    BY <1>1, ConstantsAssumption DEF Older, Columns, ConstantsAssumption
  <2> QED
    BY <2>1, <2>2, <2>3 DEF SoleStep
<1>4. ~ RequeueCommit
  BY ConstantsAssumption
     DEF RequeueCommit, IInv, RequeueWasRequested, TypeOK, SoleWorker,
         ConstantsAssumption
<1>5. ASSUME NEW q \in Rows, Append(q)
      PROVE  SoleStep(r)
  <2>1. NewRow.status = "pending"
    BY DEF NewRow
  <2> QED
    BY <1>1, <1>5, <2>1 DEF Append, SoleStep
<1>6. ASSUME NEW q \in Rows, RequeueLoad(q)
      PROVE  SoleStep(r)
  BY <1>2, <1>6 DEF RequeueLoad
<1>7. ASSUME NEW w \in Workers, LoopStep(w)
      PROVE  SoleStep(r)
  <2>1. CASE Claim(w)
    BY <1>1, <2>1, SoleClaim DEF Claim, Goto
  <2>2. CASE BatchDone(w)
    BY <1>2, <2>2 DEF BatchDone
  <2>3. ASSUME NEW q \in Rows, ItemStep(w, q)
        PROVE  SoleStep(r)
    <3>1. CASE \/ StartHandler(w, q) \/ HandlerReturns(w, q)
               \/ HandlerRaises(w, q) \/ HandlerTimesOut(w, q)
               \/ AckLoad(w, q) \/ NackLoad(w, q)
      BY <1>2, <3>1
         DEF StartHandler, HandlerReturns, HandlerRaises, HandlerTimesOut,
             AckLoad, NackLoad, LoadRow
    <3>2. CASE AckCommit(w, q) \/ NackCommit(w, q)
      <4>1. /\ pc[w] \in {"acking", "nacking"} /\ IsCurrent(w, q)
            /\ pc'[w] = "next"
            /\ \/ rows' = [rows EXCEPT ![q] = MarkProcessed(rows[q], seen[w])]
               \/ rows' = [rows EXCEPT ![q] = MarkFailed(rows[q], seen[w])]
        BY <1>1, <3>2 DEF AckCommit, NackCommit, CommitRow, Goto
      <4> QED
        BY <1>1, <4>1, SoleCommit
    <3> QED
      BY <2>3, <3>1, <3>2 DEF ItemStep
  <2> QED
    BY <1>7, <2>1, <2>2, <2>3 DEF LoopStep
<1>8. ASSUME NEW w \in Workers, ClaimFault(w) \/ Crash(w) \/ Restart(w)
      PROVE  SoleStep(r)
  <2>1. CASE ClaimFault(w)
    BY <1>1, <2>1, SoleClaim DEF ClaimFault
  <2>2. CASE Crash(w) \/ Restart(w)
    BY <1>2, <2>2 DEF Crash, Restart
  <2> QED
    BY <1>8, <2>1, <2>2
<1>9. ASSUME NEW w \in Workers, NEW q \in Rows, SideStep(w, q)
      PROVE  SoleStep(r)
  <2>1. CASE HeartbeatLoad(w, q) \/ ZombieEnds(w, q)
    BY <1>2, <2>1 DEF HeartbeatLoad, ZombieEnds
  <2>2. CASE HeartbeatCommit(w, q)
    <3>1. /\ rows'[r].status = rows[r].status
          /\ rows'[r].lock = rows[r].lock
      BY <1>1, <2>2 DEF HeartbeatCommit, Columns
    <3> QED
      BY <3>1 DEF SoleStep
  <2>3. CASE AckFault(w, q) \/ NackFault(w, q)
    <3>1. /\ pc[w] \in {"acking", "nacking"} /\ IsCurrent(w, q)
          /\ pc'[w] \in {"nack", "poll"}
          /\ \/ rows' = rows
             \/ rows' = [rows EXCEPT ![q] = MarkProcessed(rows[q], seen[w])]
             \/ rows' = [rows EXCEPT ![q] = MarkFailed(rows[q], seen[w])]
      BY <1>1, <2>3 DEF AckFault, NackFault, Fails, Goto
    <3> QED
      BY <1>1, <3>1, SoleCommit
  <2> QED
    BY <1>9, <2>1, <2>2, <2>3 DEF SideStep
<1>10. CASE UNCHANGED vars
  BY <1>2, <1>10 DEF vars
<1> QED
  BY <1>3, <1>4, <1>5, <1>6, <1>7, <1>8, <1>9, <1>10 DEF Next

\* A worker in the middle of a mark_* transaction loaded its row in this very
\* step, or was there already, with the same batch and the same loaded row.
LEMMA LoadsOrStays ==
  ASSUME TypeOK, [Next]_vars, NEW w \in Workers, NEW r \in Rows,
         pc'[w] \in {"acking", "nacking"}, IsCurrent(w, r)'
  PROVE  \/ UNCHANGED rows /\ seen'[w] = Loaded(rows[r])
         \/ /\ pc[w] = pc'[w] /\ IsCurrent(w, r)
            /\ seen'[w] = seen[w]
<1>1. /\ pc \in [Workers -> PCs] /\ batch \in [Workers -> SUBSET Rows]
      /\ seen \in [Workers -> LoadedRow \cup {None}]
  BY DEF TypeOK
<1>2. CASE UNCHANGED <<pc, batch, seen>>
  BY <1>2 DEF IsCurrent
<1>3. ASSUME NEW v \in Workers, v # w,
             \/ LoopStep(v) \/ Crash(v) \/ Restart(v)
             \/ \E q \in Rows : SideStep(v, q)
      PROVE  /\ pc[w] = pc'[w] /\ batch'[w] = batch[w]
             /\ seen'[w] = seen[w]
  BY <1>1, <1>3
     DEF LoopStep, Claim, BatchDone, ItemStep, StartHandler, HandlerReturns,
         HandlerRaises, HandlerTimesOut, AckLoad, AckCommit, NackLoad,
         NackCommit, LoadRow, CommitRow, Crash, Restart, SideStep,
         HeartbeatLoad, HeartbeatCommit, ZombieEnds, AckFault, NackFault,
         Fails, Goto
<1>4. ASSUME NEW q \in Rows, AckLoad(w, q) \/ NackLoad(w, q)
      PROVE  UNCHANGED rows /\ seen'[w] = Loaded(rows[r])
  <2>1. /\ UNCHANGED <<rows, batch>> /\ IsCurrent(w, q)
        /\ seen'[w] = Loaded(rows[q])
    BY <1>1, <1>4 DEF AckLoad, NackLoad, LoadRow
  <2>2. IsCurrent(w, r)
    BY <2>1 DEF IsCurrent
  <2> QED
    BY <1>1, <2>1, <2>2, CurrentIsUnique
<1>5. ASSUME \/ LoopStep(w) \/ Crash(w) \/ Restart(w)
             \/ \E q \in Rows : SideStep(w, q),
             ~ \E q \in Rows : AckLoad(w, q) \/ NackLoad(w, q)
      PROVE  UNCHANGED <<pc, batch, seen>>
  BY <1>1, <1>5
     DEF LoopStep, Claim, BatchDone, ItemStep, StartHandler, HandlerReturns,
         HandlerRaises, HandlerTimesOut, AckCommit,
         NackCommit, CommitRow, Crash, Restart, SideStep,
         HeartbeatLoad, HeartbeatCommit, ZombieEnds, AckFault, NackFault,
         Fails, Goto, PCs
<1>6. CASE \/ Tick \/ RequeueCommit \/ UNCHANGED vars
           \/ \E q \in Rows : Append(q) \/ RequeueLoad(q)
           \/ \E v \in Workers : ClaimFault(v)
  BY <1>2, <1>6
     DEF Tick, RequeueCommit, Append, RequeueLoad, ClaimFault, workerVars, vars
<1>7. CASE \E v \in Workers : \/ LoopStep(v) \/ Crash(v) \/ Restart(v)
                              \/ \E q \in Rows : SideStep(v, q)
  BY <1>2, <1>3, <1>4, <1>5, <1>7 DEF IsCurrent
<1> QED
  BY <1>6, <1>7 DEF Next

\* The one worker sees what it writes over.
LEMMA NextSole ==
  ASSUME SoleWorker, IInv, SeesItsRow, ClaimIsLocked, [Next]_vars
  PROVE  SeesItsRow' /\ ClaimIsLocked'
<1>1. ClaimIsLocked'
  <2> SUFFICES ASSUME NEW r \in Rows, rows'[r].status = "processing"
               PROVE  rows'[r].lock # None
    BY DEF ClaimIsLocked
  <2>1. SoleStep(r)
    BY NextSoleStep
  <2> QED
    BY <2>1 DEF SoleStep, ClaimIsLocked
<1>2. SeesItsRow'
  <2> SUFFICES ASSUME NEW w \in Workers, NEW r \in Rows,
                      pc'[w] \in {"acking", "nacking"}, IsCurrent(w, r)'
               PROVE  seen'[w].status = rows'[r].status
    BY DEF SeesItsRow
  <2>1. CASE UNCHANGED rows /\ seen'[w] = Loaded(rows[r])
    BY <2>1 DEF Loaded
  <2>2. CASE pc[w] = pc'[w] /\ IsCurrent(w, r) /\ seen'[w] = seen[w]
    <3>1. seen[w].status = rows[r].status
      BY <2>2 DEF SeesItsRow
    <3>2. rows[r].status # "absent"
      BY <2>2 DEF IInv, OnlyPresentRows, IsCurrent
    <3>3. rows'[r].status = rows[r].status
      BY <2>2, <3>2, NextSoleStep DEF SoleStep
    <3> QED
      BY <2>2, <3>1, <3>3
  <2> QED
    BY <2>1, <2>2, LoadsOrStays DEF IInv
<1> QED
  BY <1>1, <1>2

\* A claimed row can be claimed again after its worker dies, when one process
\* runs the loop and nobody requeues: mark_* then writes over the very row it
\* loaded, so that the status goes whenever the lock does.  (With more workers
\* it does not: README, Findings.)
THEOREM SoleWorkerRecovers ==
  ASSUME SoleWorker
  PROVE  Spec => []ProcessingIsRecoverable
<1>1. Init => SeesItsRow /\ ClaimIsLocked
  BY DEF Init, SeesItsRow, ClaimIsLocked, NoRow, NewRow
<1>2. IInv /\ SeesItsRow /\ ClaimIsLocked /\ [Next]_vars
      => (SeesItsRow /\ ClaimIsLocked)'
  BY SoleWorker, NextSole
<1>3. ClaimIsLocked => ProcessingIsRecoverable
  BY DEF ClaimIsLocked, ProcessingIsRecoverable
<1> QED
  BY <1>1, <1>2, <1>3, InvariantHolds, PTL DEF Spec

-----------------------------------------------------------------------------
(* The outbox implements EventQueue.                                        *)

\* The state EventQueue sees depends on the status alone, and is kept by a
\* change of status within the backlog.
LEMMA QueueStates ==
  ASSUME NEW row \in Columns
  PROVE  /\ QueueState(row) = "queued" <=> row.status \in Backlogged
         /\ QueueState(row) = "done" <=> row.status = "processed"
         /\ QueueState(row) = "dead" <=> row.status = "dead_letter"
         /\ QueueState(row) = "absent" <=> row.status = "absent"
BY DEF QueueState, Columns, Backlogged, Settled

LEMMA InitQueue == Init => Queue!Init
BY DEF Init, Queue!Init, NoRow, NewRow, QueueState, Backlogged

\* A step no publisher can see.
LEMMA QueueStutters ==
  ASSUME \A q \in Rows : QueueState(rows'[q]) = QueueState(rows[q]),
         UNCHANGED <<handled, failures>>, spent'.requeues = spent.requeues
  PROVE  [Queue!Next]_(Queue!queueVars)
<1>1. [q \in Rows |-> QueueState(rows[q])]' = [q \in Rows |-> QueueState(rows[q])]
  OBVIOUS
<1> QED
  BY <1>1 DEF Queue!queueVars

\* A claim moves rows within the backlog.
LEMMA ClaimStutters ==
  ASSUME TypeOK, NEW w \in Workers, ClaimRows(w)
  PROVE  \A q \in Rows : QueueState(rows'[q]) = QueueState(rows[q])
<1> SUFFICES ASSUME NEW q \in Rows
             PROVE  QueueState(rows'[q]) = QueueState(rows[q])
  OBVIOUS
<1>1. rows[q] \in Columns
  BY DEF TypeOK
<1>2. CASE q \in Due
  <2>1. rows[q].status \in Backlogged
    BY <1>2 DEF Due, FirstOf, Eligible, Backlogged
  <2>2. rows'[q] = MarkClaimed(rows[q], w) /\ rows'[q] \in Columns
    BY <1>1, <1>2, ClaimedIsRow DEF ClaimRows
  <2>3. rows'[q].status \in Backlogged
    BY <1>1, <2>2 DEF MarkClaimed, Backlogged, Columns
  <2> QED
    BY <1>1, <2>1, <2>2, <2>3, QueueStates
<1>3. CASE q \notin Due
  BY <1>3 DEF ClaimRows
<1> QED
  BY <1>2, <1>3

\* mark_failed retries the event, buries it, or reopens one that another
\* worker has settled.
LEMMA FailedMaps ==
  ASSUME IInv, NEW w \in Workers, NEW r \in Rows,
         pc[w] = "nacking", IsCurrent(w, r),
         rows' = [rows EXCEPT ![r] = MarkFailed(rows[r], seen[w])],
         UNCHANGED <<handled, failures>>, spent'.requeues = spent.requeues
  PROVE  [Queue!Next]_(Queue!queueVars)
<1> DEFINE row == MarkFailed(rows[r], seen[w])
           st == [q \in Rows |-> QueueState(rows[q])]
<1>1. /\ rows \in [Rows -> Columns] /\ rows[r] \in Columns
      /\ seen[w] \in LoadedRow /\ row \in Columns
  BY SettledIsRow DEF IInv, TypeOK
<1>2. /\ row.status \in {rows[r].status, "retry", "dead_letter"}
      /\ row.status = "dead_letter"
         => rows[r].status = "dead_letter" \/ seen[w].attempts + 1 >= MaxAttempts
  BY <1>1, FailedEffects
<1>3. seen[w].attempts + 1 <= failures[r]
  <2>1. w \in Failing(r)
    BY DEF Failing
  <2>2. Cardinality(Failing(r)) >= 1
    BY <2>1, FailingIsFinite, FS_EmptySet
  <2>3. seen[w].attempts + Cardinality(Failing(r)) <= failures[r]
    BY <2>1 DEF IInv, AttemptsAreFailures, AttemptsCounted
  <2>4. seen[w].attempts \in Nat /\ failures[r] \in Nat
    BY <1>1 DEF LoadedRow, IInv, TypeOK
  <2> QED
    BY <2>2, <2>3, <2>4, FailingIsFinite
<1>4. seen[w].attempts \in Nat /\ failures[r] \in Nat /\ MaxAttempts \in Nat
  BY <1>1, ConstantsAssumption DEF LoadedRow, IInv, TypeOK, ConstantsAssumption
<1>5. rows[r].status # "absent"
  BY DEF IInv, OnlyPresentRows, IsCurrent
<1> HIDE DEF row
<1>6. st' = [st EXCEPT ![r] = QueueState(row)]
  BY <1>1 DEF row
<1>7. CASE QueueState(row) = QueueState(rows[r])
  <2>1. st' = st
    BY <1>6, <1>7
  <2> QED
    BY <2>1 DEF Queue!queueVars
<1>8. CASE row.status = "dead_letter" /\ rows[r].status # "dead_letter"
  <2>1. QueueState(row) = "dead" /\ QueueState(rows[r]) # "absent"
    BY <1>1, <1>5, <1>8, QueueStates
  <2>2. failures[r] >= MaxAttempts
    BY <1>2, <1>3, <1>4, <1>8
  <2>3. Queue!Bury(r)
    BY <1>6, <2>1, <2>2 DEF Queue!Bury
  <2> QED
    BY <2>3 DEF Queue!Next
<1>9. CASE row.status = "retry" /\ rows[r].status \in Settled
  <2>1. QueueState(row) = "queued"
    BY <1>1, <1>9, QueueStates DEF Backlogged
  <2>2. QueueState(rows[r]) \in {"done", "dead"}
    BY <1>1, <1>9, QueueStates DEF Settled
  <2>3. Queue!Reopen(r)
    BY <1>3, <1>4, <1>6, <2>1, <2>2 DEF Queue!Reopen
  <2> QED
    BY <2>3 DEF Queue!Next
<1>10. CASE row.status \in Backlogged /\ rows[r].status \in Backlogged
  BY <1>1, <1>7, <1>10, QueueStates
<1>11. CASE row.status = rows[r].status
  BY <1>7, <1>11 DEF QueueState
<1> QED
  <2>1. rows[r].status \in Backlogged \cup Settled
    BY <1>1, <1>5 DEF Columns
  <2>2. CASE row.status = "retry"
    BY <1>9, <1>10, <2>1, <2>2 DEF Backlogged
  <2> QED
    BY <1>2, <1>8, <1>11, <2>2

\* mark_processed finishes the event, or leaves the status another worker
\* wrote.
LEMMA ProcessedMaps ==
  ASSUME IInv, NEW w \in Workers, NEW r \in Rows,
         pc[w] = "acking", IsCurrent(w, r),
         rows' \in {rows, [rows EXCEPT ![r] = MarkProcessed(rows[r], seen[w])]}
  PROVE  /\ r \in handled
         /\ QueueState(rows[r]) # "absent"
         /\ \/ [q \in Rows |-> QueueState(rows[q])]'
                  = [q \in Rows |-> QueueState(rows[q])]
            \/ [q \in Rows |-> QueueState(rows[q])]'
                  = [[q \in Rows |-> QueueState(rows[q])] EXCEPT ![r] = "done"]
<1> DEFINE row == MarkProcessed(rows[r], seen[w])
           st == [q \in Rows |-> QueueState(rows[q])]
<1>1. /\ rows \in [Rows -> Columns] /\ rows[r] \in Columns
      /\ seen[w] \in LoadedRow /\ row \in Columns
  BY SettledIsRow DEF IInv, TypeOK
<1>2. row.status \in {rows[r].status, "processed"}
  BY <1>1, ProcessedEffects
<1>3. r \in handled
  BY DEF IInv, AckWasHandled
<1>4. QueueState(rows[r]) # "absent"
  BY <1>1, QueueStates DEF IInv, OnlyPresentRows, IsCurrent
<1> HIDE DEF row
<1>5. CASE rows' = rows
  BY <1>3, <1>4, <1>5
<1>6. CASE rows' = [rows EXCEPT ![r] = row]
  <2>1. st' = [st EXCEPT ![r] = QueueState(row)]
    BY <1>1, <1>6
  <2>2. QueueState(row) \in {QueueState(rows[r]), "done"}
    BY <1>1, <1>2, QueueStates DEF QueueState
  <2>3. st' = st \/ st' = [st EXCEPT ![r] = "done"]
    BY <2>1, <2>2
  <2> QED
    BY <1>3, <1>4, <2>3
<1> QED
  BY <1>5, <1>6 DEF row

LEMMA NextQueue ==
  ASSUME IInv, [Next]_vars
  PROVE  [Queue!Next]_(Queue!queueVars)
<1> DEFINE st == [q \in Rows |-> QueueState(rows[q])]
<1>1. /\ rows \in [Rows -> Columns]
      /\ failures \in [Rows -> Nat]
      /\ spent \in [crashes : 0..MaxCrashes, faults : 0..MaxFaults,
                     requeues : 0..MaxRequeues]
      /\ spent.requeues \in Nat
  BY ConstantsAssumption DEF IInv, TypeOK, ConstantsAssumption
<1>2. CASE UNCHANGED <<rows, handled, failures, spent>>
  BY <1>2, QueueStutters
<1>3. Fault => spent'.requeues = spent.requeues
  BY <1>1 DEF Fault
<1>4. CASE Tick
  <2>1. ASSUME NEW q \in Rows
        PROVE  QueueState(rows'[q]) = QueueState(rows[q])
    <3>1. rows'[q] = Older(rows[q]) /\ rows[q] \in Columns
      BY <1>1, <1>4 DEF Tick
    <3> QED
      BY <3>1, OlderIsRow, OlderEffects, QueueStates DEF QueueState
  <2> QED
    BY <1>4, <2>1, QueueStutters DEF Tick
<1>5. ASSUME NEW r \in Rows, Append(r)
      PROVE  [Queue!Next]_(Queue!queueVars)
  <2>1. st[r] = "absent" /\ QueueState(NewRow) = "queued"
    BY <1>1, <1>5, QueueStates
       DEF Append, QueueState, NewRow, Backlogged
  <2>2. st' = [st EXCEPT ![r] = "queued"]
    BY <1>1, <1>5, <2>1 DEF Append
  <2>3. Queue!Publish(r)
    BY <1>5, <2>1, <2>2 DEF Queue!Publish, Append
  <2> QED
    BY <2>3 DEF Queue!Next
<1>6. ASSUME NEW r \in Rows, RequeueLoad(r)
      PROVE  [Queue!Next]_(Queue!queueVars)
  <2>1. Queue!Request
    BY <1>1, <1>6 DEF Queue!Request, RequeueLoad
  <2> QED
    BY <2>1 DEF Queue!Next
<1>7. CASE RequeueCommit
  <2> DEFINE r == operator.row
             row == Requeue(rows[r], operator.was)
  <2>1. /\ r \in Rows /\ rows[r] \in Columns /\ operator.was \in LoadedRow
        /\ row \in Columns /\ rows[r].status # "absent"
        /\ spent.requeues > 0
    BY <1>1, <1>7, RequeueIsRow
       DEF RequeueCommit, IInv, TypeOK, OnlyPresentRows, RequeueWasRequested
  <2>2. row.status \in {rows[r].status, "pending"}
    BY <2>1, RequeueEffects
  <2>3. UNCHANGED <<handled, failures, spent>> /\ rows' = [rows EXCEPT ![r] = row]
    BY <1>7 DEF RequeueCommit
  <2> HIDE DEF r, row
  <2>4. st' = [st EXCEPT ![r] = QueueState(row)]
    BY <1>1, <2>1, <2>3
  <2>5. CASE QueueState(row) = QueueState(rows[r])
    <3>1. st' = st
      BY <2>1, <2>4, <2>5
    <3> QED
      BY <2>3, <3>1 DEF Queue!queueVars
  <2>6. CASE row.status = "pending" /\ rows[r].status \in Settled
    <3>1. QueueState(row) = "queued" /\ QueueState(rows[r]) \in {"done", "dead"}
      BY <2>1, <2>6, QueueStates DEF Backlogged, Settled
    <3>2. Queue!Reopen(r)
      BY <2>1, <2>3, <2>4, <3>1 DEF Queue!Reopen
    <3> QED
      BY <2>1, <3>2 DEF Queue!Next
  <2>7. CASE row.status = "pending" /\ rows[r].status \in Backlogged
    BY <2>1, <2>5, <2>7, QueueStates DEF Backlogged
  <2>8. CASE row.status = rows[r].status
    BY <2>5, <2>8 DEF QueueState
  <2>9. rows[r].status \in Backlogged \cup Settled
    BY <2>1 DEF Columns
  <2> QED
    BY <2>2, <2>6, <2>7, <2>8, <2>9
\* A dispatch runs every handler.
<1>8. ASSUME NEW r \in Rows, rows[r].status # "absent",
             handled' \in {handled, handled \cup {r}},
             UNCHANGED <<rows, failures, spent>>
      PROVE  [Queue!Next]_(Queue!queueVars)
  <2>1. CASE handled' = handled
    BY <1>2, <1>8, <2>1
  <2>2. CASE handled' = handled \cup {r}
    <3>1. QueueState(rows[r]) # "absent"
      BY <1>1, <1>8, QueueStates
    <3>2. Queue!Deliver(r)
      BY <1>8, <2>2, <3>1 DEF Queue!Deliver
    <3> QED
      BY <3>2 DEF Queue!Next
  <2> QED
    BY <1>8, <2>1, <2>2
\* A dispatch fails.
<1>9. ASSUME NEW w \in Workers, NEW r \in Rows, IsCurrent(w, r),
             failures' = [failures EXCEPT ![r] = @ + 1],
             UNCHANGED <<rows, handled, spent>>
      PROVE  [Queue!Next]_(Queue!queueVars)
  <2>1. QueueState(rows[r]) # "absent"
    BY <1>1, <1>9, QueueStates DEF IInv, OnlyPresentRows, IsCurrent
  <2>2. st' = st
    BY <1>9
  <2>3. Queue!Fail(r)
    BY <1>9, <2>1, <2>2 DEF Queue!Fail
  <2> QED
    BY <2>3 DEF Queue!Next
<1>10. ASSUME NEW w \in Workers, LoopStep(w)
       PROVE  [Queue!Next]_(Queue!queueVars)
  <2>1. CASE Claim(w)
    BY <2>1, ClaimStutters, QueueStutters DEF Claim, IInv
  <2>2. CASE BatchDone(w)
    BY <1>2, <2>2 DEF BatchDone
  <2>3. ASSUME NEW r \in Rows, ItemStep(w, r)
        PROVE  [Queue!Next]_(Queue!queueVars)
    <3>1. CASE StartHandler(w, r)
      BY <1>2, <3>1 DEF StartHandler
    <3>2. CASE HandlerReturns(w, r)
      <4>1. rows[r].status # "absent"
        BY <3>2 DEF HandlerReturns, IInv, OnlyPresentRows, IsCurrent
      <4> QED
        BY <1>8, <3>2, <4>1 DEF HandlerReturns
    <3>3. CASE HandlerRaises(w, r)
      BY <1>9, <3>3 DEF HandlerRaises, Fails
    <3>4. CASE HandlerTimesOut(w, r)
      BY <1>9, <3>4 DEF HandlerTimesOut, Fails
    <3>5. CASE AckLoad(w, r) \/ NackLoad(w, r)
      BY <1>2, <3>5 DEF AckLoad, NackLoad, LoadRow
    <3>6. CASE AckCommit(w, r)
      <4>1. /\ pc[w] = "acking" /\ IsCurrent(w, r)
            /\ rows' = [rows EXCEPT ![r] = MarkProcessed(rows[r], seen[w])]
            /\ UNCHANGED <<handled, failures, spent>>
        BY <3>6 DEF AckCommit, CommitRow, Goto
      <4>2. /\ r \in handled /\ QueueState(rows[r]) # "absent"
            /\ st' = st \/ st' = [st EXCEPT ![r] = "done"]
        BY <4>1, ProcessedMaps
      <4>3. CASE st' = st
        BY <4>1, <4>3 DEF Queue!queueVars
      <4>4. CASE st' = [st EXCEPT ![r] = "done"]
        <5>1. Queue!Finish(r)
          BY <4>1, <4>2, <4>4 DEF Queue!Finish
        <5> QED
          BY <5>1 DEF Queue!Next
      <4> QED
        BY <4>2, <4>3, <4>4
    <3>7. CASE NackCommit(w, r)
      BY <3>7, FailedMaps DEF NackCommit, CommitRow, Goto
    <3> QED
      BY <2>3, <3>1, <3>2, <3>3, <3>4, <3>5, <3>6, <3>7 DEF ItemStep
  <2> QED
    BY <1>10, <2>1, <2>2, <2>3 DEF LoopStep
<1>11. ASSUME NEW w \in Workers, NEW r \in Rows, SideStep(w, r)
       PROVE  [Queue!Next]_(Queue!queueVars)
  <2>1. CASE HeartbeatLoad(w, r)
    BY <1>2, <2>1 DEF HeartbeatLoad
  <2>2. CASE HeartbeatCommit(w, r)
    <3>1. ASSUME NEW q \in Rows
          PROVE  rows'[q].status = rows[q].status
      BY <1>1, <2>2 DEF HeartbeatCommit, Columns
    <3>2. \A q \in Rows : QueueState(rows'[q]) = QueueState(rows[q])
      BY <3>1 DEF QueueState
    <3> QED
      BY <2>2, <3>2, QueueStutters DEF HeartbeatCommit
  <2>3. CASE ZombieEnds(w, r)
    <3>1. rows[r].status # "absent"
      BY <2>3 DEF ZombieEnds, IInv, OnlyPresentRows
    <3> QED
      BY <1>8, <2>3, <3>1 DEF ZombieEnds
  <2>4. CASE AckFault(w, r)
    <3>1. /\ r \in handled /\ QueueState(rows[r]) # "absent"
          /\ st' = st \/ st' = [st EXCEPT ![r] = "done"]
      BY <2>4, ProcessedMaps DEF AckFault, Fails, Goto
    <3>2. Queue!Fail(r)
      BY <1>3, <2>4, <3>1 DEF Queue!Fail, AckFault, Fails
    <3> QED
      BY <3>2 DEF Queue!Next
  <2>5. CASE NackFault(w, r)
    <3>1. CASE rows' = rows
      BY <1>3, <2>5, <3>1, QueueStutters DEF NackFault
    <3>2. CASE rows' = [rows EXCEPT ![r] = MarkFailed(@, seen[w])]
      BY <1>3, <2>5, <3>2, FailedMaps DEF NackFault, Goto
    <3> QED
      BY <2>5, <3>1, <3>2 DEF NackFault
  <2> QED
    BY <1>11, <2>1, <2>2, <2>3, <2>4, <2>5 DEF SideStep
<1>12. ASSUME NEW w \in Workers, ClaimFault(w)
       PROVE  [Queue!Next]_(Queue!queueVars)
  BY <1>3, <1>12, ClaimStutters, QueueStutters DEF ClaimFault, IInv
<1>13. ASSUME NEW w \in Workers, Crash(w)
       PROVE  [Queue!Next]_(Queue!queueVars)
  <2>1. spent'.requeues = spent.requeues
    BY <1>1, <1>13 DEF Crash
  <2> QED
    BY <1>13, <2>1, QueueStutters DEF Crash
<1>14. ASSUME NEW w \in Workers, Restart(w)
       PROVE  [Queue!Next]_(Queue!queueVars)
  BY <1>2, <1>14 DEF Restart
<1> QED
  BY <1>2, <1>4, <1>5, <1>6, <1>7, <1>10, <1>11, <1>12, <1>13, <1>14
     DEF Next, vars

\* The outbox keeps its promise to publishers: whatever the workers, the
\* clock, crashes and faults do, each event moves as EventQueue says.
THEOREM OutboxImplementsQueue == Spec => ImplementsQueue
<1>1. IInv /\ [Next]_vars => [Queue!Next]_(Queue!queueVars)
  BY NextQueue
<1> QED
  BY <1>1, InitQueue, InvariantHolds, PTL DEF Spec, ImplementsQueue, Queue!Spec

=============================================================================
