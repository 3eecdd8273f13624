---------------------------- MODULE AttemptProofs ----------------------------
(***************************************************************************)
(* Proof about the attempts of a job when everybody writes it: the tick,   *)
(* detached calls, callbacks and requests, over crashes, locks and timers  *)
(* that run out while a commit waits.                                      *)
(*                                                                         *)
(* Such writes may undo each other's status (run CallbacksFinal), and a    *)
(* retry that commits late gives a job of max_attempts one more (the end   *)
(* of run LateRetryOfLost).  How many more?  Once a job has used its       *)
(* attempts nobody opens a retry of it any more, so what can still come    *)
(* are the retries that were read before, one per call or callback of the  *)
(* job, and each of them is worth at most one claim.                       *)
(***************************************************************************)
EXTENDS LifecycleProofs

\* A pending write that makes job j wait for a claim again.
Rewaits(t, j) == "status" \in t.cols[j] /\ t.set[j].status \in Claimable

\* A pending write that counts an attempt of job j.
Counts(t, j) == "attempts" \in t.cols[j]

(***************************************************************************)
(* A pending write by p, over these rows: only the calls and callbacks of  *)
(* a job and the tick make it wait again, the tick with attempts left;     *)
(* only the tick's claim counts an attempt, one more than there are.       *)
(***************************************************************************)
CountedAt(p, t, j, r) ==
  /\ Rewaits(t, j) => p \in Appliers(j) \/ (p = Worker /\ r.attempts < MaxAttempts)
  /\ Counts(t, j) => /\ p = Worker /\ "status" \in t.cols[j]
                     /\ t.set[j].status = "SUBMITTING"
                     /\ t.set[j].attempts = r.attempts + 1
                     /\ r.status # "ABSENT"

Counted(p, t, rows) ==
  /\ \A j \in Job : CountedAt(p, t, j, rows[j])
  /\ t.insert.status # "ABSENT" => t.insert.attempts = 0

AllCounted == \A p \in Proc : Counted(p, tx[p], job)

(***************************************************************************)
(* What is still to come of a job that has used its attempts: the claim it *)
(* waits for or is under, and one for every retry that is pending.         *)
(***************************************************************************)
Ripe(j) ==
  IF job[j].status \in Claimable \/ Counts(tx[Worker], j) THEN 1 ELSE 0

Late(j) == {p \in Appliers(j) : Rewaits(tx[p], j)}

Within ==
  \A j \in Job : job[j].attempts >= MaxAttempts =>
    job[j].attempts + Ripe(j) + Cardinality(Late(j))
      <= MaxAttempts + Cardinality(Appliers(j))

----------------------------------------------------------------------------
(***************************************************************************)
(* What a handler opens: it is counted, it makes a job wait again only     *)
(* when attempts are left, and it claims only what waits.                  *)
(***************************************************************************)
Opened(p, t) ==
  /\ t \in Transaction /\ Counted(p, t, job)
  /\ \A j \in Job : /\ Rewaits(t, j) => job[j].attempts < MaxAttempts
                    /\ Counts(t, j) => job[j].status \in Claimable

CountedStep ==
  \/ UNCHANGED storeVars
  \/ \E p \in Proc : \E t : Opened(p, t) /\ Open(p, t)
  \/ Ends \/ Elapses \/ Restarts

\* A closed transaction, and one that writes no job, count nothing.
LEMMA RequestCounted ==
  ASSUME NEW p \in Proc, NEW t, Requested(t) \/ t = Closed, NEW rows
  PROVE  Counted(p, t, rows) /\ \A j \in Job : ~Rewaits(t, j) /\ ~Counts(t, j)
<1>1. /\ \A j \in Job : t.cols[j] = {}
      /\ t.insert.status # "ABSENT" => t.insert.attempts = 0
  BY ClosedWritesNothing DEF Requested
<1> QED
  BY <1>1 DEF Counted, CountedAt, Rewaits, Counts

\* Nor does the answer to a job in flight, which makes it wait again only with
\* attempts left.
LEMMA AnswerOpened ==
  ASSUME TypeOK, NEW p \in Proc, NEW j \in Job, NEW t,
         p \in Appliers(j) \cup {Worker},
         job[j].status \in InFlight, Writes(t, {j}), SubmitsNone(t)
  PROVE  Opened(p, t)
<1>1. ASSUME NEW i \in Job
      PROVE  ~Counts(t, i) /\ (Rewaits(t, i) => i = j /\ job[j].attempts < MaxAttempts)
  <2>1. CASE t.cols[i] = {}
    BY <2>1 DEF Counts, Rewaits
  <2>2. CASE t.cols[i] # {}
    <3>1. i = j /\ Legal(job[j], t.set[j], t.cols[j])
      BY <2>2 DEF Writes, Lawful
    <3> QED
      BY <3>1 DEF Counts, Rewaits, Legal, InFlight, Claimable
  <2> QED
    BY <2>1, <2>2
<1> QED
  BY <1>1 DEF Opened, Counted, CountedAt, Writes

\* The claim counts the jobs it submits, and makes none wait.
LEMMA ClaimOpened ==
  ASSUME TypeOK
  PROVE  Opened(Worker, ClaimTx)
<1> DEFINE orphans == {j \in Visited : Orphaned(j)}
           ready == {j \in Visited : Ready(j)}
           want(j) == IF j \in orphans THEN Failed(job[j]) ELSE Claimed(j)
           cols == [j \in Job |-> IF j \in orphans \cup ready
                                  THEN Dirty(job[j], want(j)) ELSE {}]
           set == [j \in Job |-> IF j \in orphans \cup ready
                                 THEN want(j) ELSE NoRow]
<1>1. ClaimTx = [Closed EXCEPT !.open = TRUE, !.cols = cols, !.set = set]
  BY Zenon DEF ClaimTx
<1>2. /\ ClaimTx.cols = cols /\ ClaimTx.set = set /\ ClaimTx.insert.status = "ABSENT"
  <2> HIDE DEF cols, set
  <2> QED
    BY <1>1 DEF Closed, NoRow
<1>3. ClaimTx \in Transaction
  BY ClaimSound DEF TypeOK
<1>4. ASSUME NEW j \in Job
      PROVE  /\ ~ ("status" \in cols[j] /\ set[j].status \in Claimable)
             /\ "attempts" \in cols[j] =>
                  /\ "status" \in cols[j] /\ set[j].status = "SUBMITTING"
                  /\ set[j].attempts = job[j].attempts + 1
                  /\ job[j].status \in Claimable
  <2>1. CASE j \notin orphans \cup ready
    BY <2>1
  <2>2. CASE j \in orphans \cup ready
    <3>1. job[j] \in Row /\ job[j].status \in Claimable /\ job[j].attempts \in Nat
      BY <2>2 DEF Visited, Due, TypeOK, StoreTypeOK, Row
    <3>2. set[j] = want(j) /\ cols[j] = Dirty(job[j], want(j))
      BY <2>2
    <3>3. /\ Failed(job[j]).status = "FAILED"
          /\ Failed(job[j]).attempts = job[j].attempts
          /\ Claimed(j).status = "SUBMITTING"
          /\ Claimed(j).attempts = job[j].attempts + 1
      BY <3>1 DEF Failed, Claimed, Row
    <3>4. \/ want(j).status = "FAILED" /\ want(j).attempts = job[j].attempts
          \/ want(j).status = "SUBMITTING" /\ want(j).attempts = job[j].attempts + 1
      BY <3>3
    <3> HIDE DEF want, cols, set
    <3> QED
      BY <3>1, <3>2, <3>4 DEF Dirty, Claimable, Column
  <2> QED
    BY <2>1, <2>2
<1> HIDE DEF cols, set
<1>5. ASSUME NEW j \in Job
      PROVE  CountedAt(Worker, ClaimTx, j, job[j])
  BY <1>2, <1>4 DEF CountedAt, Rewaits, Counts, Claimable
<1> QED
  BY <1>2, <1>3, <1>4, <1>5 DEF Opened, Counted, Rewaits, Counts

\* A call that comes back answers for a job in flight, its own.
LEMMA CallOpens ==
  ASSUME TypeOK, NEW c \in Call, CallReturns(c)
  PROVE  UNCHANGED storeVars \/ \E t : Opened(c, t) /\ Open(c, t)
<1>0. JobOf(c) \in Job /\ c \in Proc /\ c \in Appliers(JobOf(c))
  BY CallJob DEF Appliers
<1>1. ASSUME NEW t, NEW expected, call[c] # None, ReadThen(c, expected, t),
             \/ /\ t \in {ProcessingTx(JobOf(c), call[c]), RetryTx(JobOf(c)),
                          FailTx(JobOf(c))}
                /\ expected = "SUBMITTING"
             \/ /\ t \in {RescheduleTx(JobOf(c)), FailTx(JobOf(c)),
                          RetryTx(JobOf(c)), CompleteTx(JobOf(c))}
                /\ expected = "PROCESSING"
      PROVE  UNCHANGED storeVars \/ \E u : Opened(c, u) /\ Open(c, u)
  <2>1. CASE job[JobOf(c)].status # expected
    BY <1>1, <2>1 DEF ReadThen
  <2>2. CASE job[JobOf(c)].status = expected
    <3>1. Open(c, t) /\ job[JobOf(c)].status \in InFlight
      BY <1>1, <2>2 DEF ReadThen, InFlight
    <3>2. Writes(t, {JobOf(c)}) /\ SubmitsNone(t)
      BY <1>1, <2>2, CallWrites
    <3> QED
      BY <1>0, <3>1, <3>2, AnswerOpened
  <2> QED
    BY <2>1, <2>2
<1>2. CASE SubmitAccepted(c)
  <2>1. /\ ReadThen(c, "SUBMITTING", ProcessingTx(JobOf(c), call[c]))
        /\ call[c] # None
    BY <1>2 DEF SubmitAccepted, Returning
  <2> QED
    BY <1>1, <2>1
<1>3. CASE SubmitRejected(c)
  <2>1. ReadThen(c, "SUBMITTING", RetryTx(JobOf(c))) /\ call[c] # None
    BY <1>3 DEF SubmitRejected, Returning
  <2> QED
    BY <1>1, <2>1
<1>4. CASE SubmitRefused(c)
  <2>1. ReadThen(c, "SUBMITTING", FailTx(JobOf(c))) /\ call[c] # None
    BY <1>4 DEF SubmitRefused, Returning
  <2> QED
    BY <1>1, <2>1
<1>5. CASE PollUnsettled(c) \/ PollFailed(c) \/ PollRetryable(c) \/ PollSucceeded(c)
  <2>1. PICK t \in {RescheduleTx(JobOf(c)), FailTx(JobOf(c)), RetryTx(JobOf(c)),
                    CompleteTx(JobOf(c))} :
          ReadThen(c, "PROCESSING", t)
    BY <1>5 DEF PollUnsettled, PollFailed, PollRetryable, PollSucceeded
  <2>2. call[c] # None
    BY <1>5 DEF PollUnsettled, PollFailed, PollRetryable, PollSucceeded, Returning
  <2> QED
    BY <1>1, <2>1, <2>2
<1>6. CASE Unroutable(c)
  BY <1>6 DEF Unroutable
<1> QED
  BY <1>2, <1>3, <1>4, <1>5, <1>6 DEF CallReturns

\* So does a callback that finds its job still processing.
LEMMA HookOpens ==
  ASSUME TypeOK, NEW h \in Hook, HookStep(h)
  PROVE  \/ UNCHANGED storeVars
         \/ Commit(h) \/ Conflict(h) \/ LockedOut(h)
         \/ \E t : Opened(h, t) /\ Open(h, t)
<1>0. StoreTypeOK /\ h \in Proc
  BY WebhookAssumption DEF TypeOK
<1>1. CASE Receive(h) \/ HookCommit(h) \/ HookRollback(h)
  BY <1>1 DEF Receive, HookCommit, HookRollback
<1>2. CASE Apply(h)
  <2> DEFINE j == hook[h].job
  <2>1. j \in Job /\ h \in Appliers(j)
    BY <1>2 DEF Apply, TypeOK, HookTypeOK, Found, Appliers
  <2>2. CASE ~StillProcessing(h)
    BY <1>2, <2>2 DEF Apply
  <2>3. CASE StillProcessing(h)
    <3>1. Open(h, OutcomeTx(h)) /\ job[j].status = "PROCESSING"
      BY <1>2, <2>3 DEF Apply, StillProcessing
    <3>2. OutcomeTx(h) \in {CompleteTx(j), RetryTx(j), FailTx(j)}
      BY DEF OutcomeTx
    <3>3. job[j].status \in InFlight /\ job[j].status \in Active
      BY <3>1 DEF InFlight, Active
    <3>4. Writes(OutcomeTx(h), {j}) /\ SubmitsNone(OutcomeTx(h))
      BY <1>0, <2>1, <3>1, <3>2, <3>3, CompleteWrites, RetryWrites, FailWrites
    <3>5. Opened(h, OutcomeTx(h))
      BY <1>0, <2>1, <3>3, <3>4, AnswerOpened
    <3> QED
      BY <3>1, <3>5
  <2> QED
    BY <2>2, <2>3
<1> QED
  BY <1>1, <1>2 DEF HookStep

\* The tick recovers and expires jobs in flight.
LEMMA TickOpens ==
  ASSUME TypeOK, RecoverRead \/ ExpireRead
  PROVE  \E t : Opened(Worker, t) /\ Open(Worker, t)
<1>0. StoreTypeOK /\ Worker \in Proc
  BY WorkerAssumption DEF TypeOK
<1>1. CASE RecoverRead
  <2> DEFINE j == First(Submitting)
  <2>1. j \in Submitting /\ j \in Job
    BY <1>1, FirstJob DEF RecoverRead, Submitting
  <2>2. job[j].status \in InFlight /\ job[j].status \in Active
    BY <2>1 DEF Submitting, InFlight, Active
  <2>3. Open(Worker, FailTx(j))
    BY <1>1 DEF RecoverRead
  <2> HIDE DEF j
  <2>4. Writes(FailTx(j), {j}) /\ SubmitsNone(FailTx(j))
    BY <1>0, <2>1, <2>2, FailWrites
  <2> QED
    BY <1>0, <2>1, <2>2, <2>3, <2>4, AnswerOpened
<1>2. CASE ExpireRead
  <2>1. PICK j \in Overdue : Open(Worker, RetryTx(j))
    BY <1>2 DEF ExpireRead
  <2>2. job[j].status \in InFlight /\ j \in Job
    BY <2>1 DEF Overdue, InFlight
  <2>3. Writes(RetryTx(j), {j}) /\ SubmitsNone(RetryTx(j))
    BY <1>0, <2>2, RetryWrites
  <2> QED
    BY <1>0, <2>1, <2>2, <2>3, AnswerOpened
<1> QED
  BY <1>1, <1>2

\* Every step is one of these.
LEMMA NextIsCountedStep ==
  ASSUME TypeOK, [Next]_vars
  PROVE  CountedStep
<1>0. Worker \in Proc
  BY WorkerAssumption
<1>1. ASSUME NEW p \in Proc, NEW t, Opened(p, t), Open(p, t)
      PROVE  CountedStep
  BY <1>1 DEF CountedStep
<1>2. CASE Tick
  <2>1. CASE \/ NothingToRecover \/ NothingToClaim \/ NothingToExpire
             \/ NothingToPoll \/ PollStart
    BY <2>1 DEF NothingToRecover, NothingToClaim, NothingToExpire,
       NothingToPoll, PollStart, CountedStep
  <2>2. CASE \/ RecoverCommit \/ ClaimCommit \/ ClaimOnlyOrphans
             \/ ExpireCommit \/ WorkerRollback
    BY <1>0, <2>2 DEF RecoverCommit, ClaimCommit, ClaimOnlyOrphans,
       ExpireCommit, WorkerRollback, CountedStep, Ends
  <2>3. CASE RecoverRead \/ ExpireRead
    BY <1>0, <1>1, <2>3, TickOpens
  <2>4. CASE ClaimRead
    BY <1>0, <1>1, <2>4, ClaimOpened DEF ClaimRead
  <2> QED
    BY <1>2, <2>1, <2>2, <2>3, <2>4 DEF Tick, TickStep
<1>3. ASSUME NEW c \in Call, CallActs(c)
      PROVE  CountedStep
  <2>0. c \in Proc
    BY WorkerAssumption
  <2>1. CASE CallReturns(c)
    BY <1>1, <2>0, <2>1, CallOpens DEF CountedStep
  <2>2. CASE CallCommit(c) \/ CallRollback(c)
    BY <2>0, <2>2 DEF CallCommit, CallRollback, CountedStep, Ends
  <2> QED
    BY <1>3, <2>1, <2>2 DEF CallActs, CallStep
<1>4. ASSUME NEW h \in Hook, HookActs(h)
      PROVE  CountedStep
  <2>1. h \in Proc /\ HookStep(h)
    BY <1>4, WebhookAssumption DEF HookActs
  <2> QED
    BY <1>1, <2>1, HookOpens DEF CountedStep, Ends
<1>5. ASSUME NEW p \in Client, ClientActs(p)
      PROVE  CountedStep
  <2>1. p \in Proc
    BY ApiAssumption
  <2>2. ASSUME NEW t, Requested(t), Open(p, t)
        PROVE  CountedStep
    BY <1>1, <2>1, <2>2, RequestCounted DEF Requested, Opened
  <2> QED
    BY <1>5, <2>1, <2>2, ClientShape DEF CountedStep, Ends
<1>6. CASE \/ Switch \/ UNCHANGED vars
           \/ \E j \in Job, a \in Attempt : Provider(j, a)
  BY <1>6 DEF Switch, vars, Provider, ProviderFinishes, CountedStep
<1>7. CASE \E j \in Job : Wakes(j) \/ Expires(j)
  BY <1>7 DEF Wakes, Expires, CountedStep, Elapses
<1>8. CASE Crash
  BY <1>8 DEF Crash, CountedStep, Restarts
<1> QED
  BY <1>2, <1>3, <1>4, <1>5, <1>6, <1>7, <1>8 DEF Next

----------------------------------------------------------------------------
(***************************************************************************)
(* What a commit does to a row.                                            *)
(***************************************************************************)
LEMMA CommitCounts ==
  ASSUME TypeOK, Integrity, AllCounted, NEW q \in Proc, Commit(q), NEW j \in Job
  PROVE  LET t == tx[q] IN
         \/ job[j].status = "ABSENT" /\ job'[j].status = "QUEUED" /\ job'[j].attempts = 0
         \/ /\ Counts(t, j) /\ q = Worker
            /\ job'[j].status = "SUBMITTING" /\ job'[j].attempts = job[j].attempts + 1
         \/ /\ ~Counts(t, j) /\ job'[j].attempts = job[j].attempts
            /\ job'[j].status = IF "status" \in t.cols[j] THEN t.set[j].status
                                                         ELSE job[j].status
            /\ job[j].status # "ABSENT" => job'[j].status # "ABSENT"
<1> DEFINE t == tx[q]
<1>0. /\ job[j] \in Row /\ t.set[j] \in Row /\ t.cols[j] \in SUBSET Column
      /\ CountedAt(q, t, j, job[j]) /\ Sound(t)
      /\ t.insert.status # "ABSENT" => t.insert.attempts = 0
  BY DEF TypeOK, StoreTypeOK, Transaction, AllCounted, Counted, Integrity
<1>1. CASE job[j].status = "ABSENT" /\ t.insert.status # "ABSENT" /\ job'[j] = t.insert
  BY <1>0, <1>1 DEF Sound
<1>2. CASE job'[j] = Merge(job[j], t.set[j], t.cols[j])
  <2>1. /\ job'[j].status = IF "status" \in t.cols[j] THEN t.set[j].status
                                                      ELSE job[j].status
        /\ job'[j].attempts = IF "attempts" \in t.cols[j] THEN t.set[j].attempts
                                                          ELSE job[j].attempts
    BY <1>0, <1>2, MergeType, MergeColumns
  <2>2. CASE Counts(t, j)
    BY <1>0, <2>1, <2>2 DEF CountedAt, Counts
  <2>3. CASE ~Counts(t, j)
    BY <1>0, <2>1, <2>3 DEF Counts, Sound
  <2> QED
    BY <2>2, <2>3
<1> QED
  BY <1>1, <1>2, CommitRows

\* What the others have pending stays counted: only the worker's own commits
\* change the attempts of a job that is there.
LEMMA CountedAfterCommit ==
  ASSUME TypeOK, Integrity, AllCounted, NEW q \in Proc, Commit(q),
         NEW p \in Proc, p # q
  PROVE  Counted(p, tx[p], job')
<1>1. ASSUME NEW j \in Job
      PROVE  CountedAt(p, tx[p], j, job'[j])
  <2>0. CountedAt(p, tx[p], j, job[j])
    BY DEF AllCounted, Counted
  <2>1. CASE job[j].status = "ABSENT" /\ job'[j].status = "QUEUED" /\ job'[j].attempts = 0
    BY <2>0, <2>1, StoreAssumption DEF CountedAt
  <2>2. CASE q = Worker
    BY <2>0, <2>2 DEF CountedAt
  <2>3. CASE /\ job'[j].attempts = job[j].attempts
             /\ job[j].status # "ABSENT" => job'[j].status # "ABSENT"
    BY <2>0, <2>3 DEF CountedAt
  <2> QED
    BY <2>1, <2>2, <2>3, CommitCounts
<1> QED
  BY <1>1 DEF AllCounted, Counted

\* No step undoes it.
LEMMA CountedKept ==
  ASSUME TypeOK, Integrity, AllCounted, CountedStep
  PROVE  AllCounted'
<1>0. /\ tx \in [Proc -> Transaction] /\ job \in [Job -> Row]
      /\ \A p \in Proc : Counted(p, tx[p], job)
  BY DEF TypeOK, StoreTypeOK, AllCounted
<1>1. CASE UNCHANGED storeVars
  BY <1>0, <1>1 DEF storeVars, AllCounted
<1>2. ASSUME NEW p \in Proc, NEW t, Opened(p, t), Open(p, t)
      PROVE  AllCounted'
  <2>1. job' = job /\ \A q \in Proc : tx'[q] = IF q = p THEN t ELSE tx[q]
    BY <1>0, <1>2 DEF Open
  <2> QED
    BY <1>0, <1>2, <2>1 DEF AllCounted, Opened
<1>3. ASSUME NEW p \in Proc, Conflict(p) \/ LockedOut(p) \/ Commit(p)
      PROVE  AllCounted'
  <2>1. \A q \in Proc : tx'[q] = IF q = p THEN Closed ELSE tx[q]
    BY <1>0, <1>3, EndCloses
  <2>2. Counted(p, Closed, job')
    BY RequestCounted
  <2>3. ASSUME NEW q \in Proc, q # p
        PROVE  Counted(q, tx[q], job')
    BY <1>0, <1>3, <2>3, CountedAfterCommit DEF Conflict, LockedOut
  <2> QED
    BY <2>1, <2>2, <2>3 DEF AllCounted
<1>4. CASE Elapses
  <2>1. /\ tx' = tx
        /\ \A j \in Job : job'[j].attempts = job[j].attempts /\ job'[j].status = job[j].status
    BY <1>0, <1>4 DEF Elapses, WakeReached, DeadlineReached, Row
  <2> QED
    BY <1>0, <2>1 DEF AllCounted, Counted, CountedAt
<1>5. CASE Restarts
  <2>1. \A p \in Proc : tx'[p] = Closed
    BY <1>5 DEF Restarts
  <2>2. \A p \in Proc : Counted(p, Closed, job')
    BY RequestCounted
  <2> QED
    BY <2>1, <2>2 DEF AllCounted
<1> QED
  BY <1>1, <1>2, <1>3, <1>4, <1>5 DEF CountedStep, Ends

----------------------------------------------------------------------------
(***************************************************************************)
(* What is still to come only shrinks once the attempts are used.          *)
(***************************************************************************)
\* There are finitely many who can answer for a job.
LEMMA AppliersFinite ==
  ASSUME NEW j \in Job
  PROVE  /\ IsFiniteSet(Appliers(j)) /\ Cardinality(Appliers(j)) \in Nat
         /\ Appliers(j) \subseteq Proc \ {Worker}
<1>1. Appliers(j) \subseteq Proc \ {Worker}
  BY WorkerAssumption, WebhookAssumption DEF Appliers
<1>2. IsFiniteSet(Appliers(j))
  BY <1>1, StoreAssumption, FS_Subset
<1> QED
  BY <1>1, <1>2, FS_CardinalityType

\* Fewer late retries are still to come, or as many.
LEMMA LateCount ==
  ASSUME NEW j \in Job, NEW S \in SUBSET Appliers(j), NEW T \in SUBSET S
  PROVE  /\ Cardinality(S) \in Nat /\ Cardinality(T) \in Nat
         /\ Cardinality(T) <= Cardinality(S)
         /\ Cardinality(S) <= Cardinality(Appliers(j))
         /\ \A p \in S : p \notin T => Cardinality(T) + 1 <= Cardinality(S)
<1>1. IsFiniteSet(S) /\ Cardinality(S) <= Cardinality(Appliers(j))
  BY AppliersFinite, FS_Subset
<1>2. IsFiniteSet(T) /\ Cardinality(T) <= Cardinality(S)
  BY <1>1, FS_Subset
<1>3. Cardinality(S) \in Nat /\ Cardinality(T) \in Nat
  BY <1>1, <1>2, FS_CardinalityType
<1>4. ASSUME NEW p \in S, p \notin T
      PROVE  Cardinality(T) + 1 <= Cardinality(S)
  <2>1. Cardinality(T) # Cardinality(S)
    BY <1>1, <1>4, FS_Subset
  <2> QED
    BY <1>2, <1>3, <2>1
<1> QED
  BY <1>1, <1>2, <1>3, <1>4

\* When the row keeps its attempts, the claims to come are no more than before.
LEMMA WithinByFewer ==
  ASSUME TypeOK, TypeOK', NEW j \in Job,
         job[j].attempts >= MaxAttempts =>
           job[j].attempts + Ripe(j) + Cardinality(Late(j))
             <= MaxAttempts + Cardinality(Appliers(j)),
         job'[j].attempts = job[j].attempts,
         job[j].attempts >= MaxAttempts =>
           \/ Late(j)' \subseteq Late(j) /\ Ripe(j)' <= Ripe(j)
           \/ Late(j)' \subseteq Late(j) /\ \E p \in Late(j) : p \notin Late(j)'
  PROVE  job'[j].attempts >= MaxAttempts =>
           job'[j].attempts + Ripe(j)' + Cardinality(Late(j)')
             <= MaxAttempts + Cardinality(Appliers(j))
<1>0. /\ MaxAttempts \in Nat /\ job[j].attempts \in Nat
      /\ Ripe(j) \in {0, 1} /\ Ripe(j)' \in {0, 1}
      /\ Late(j) \subseteq Appliers(j)
      /\ Cardinality(Appliers(j)) \in Nat
  BY StoreAssumption, AppliersFinite DEF TypeOK, StoreTypeOK, Row, Ripe, Late
<1> SUFFICES ASSUME job[j].attempts >= MaxAttempts
             PROVE  job[j].attempts + Ripe(j)' + Cardinality(Late(j)')
                      <= MaxAttempts + Cardinality(Appliers(j))
  OBVIOUS
<1>1. CASE Late(j)' \subseteq Late(j) /\ Ripe(j)' <= Ripe(j)
  <2>1. /\ Cardinality(Late(j)') <= Cardinality(Late(j))
        /\ Cardinality(Late(j)) \in Nat /\ Cardinality(Late(j)') \in Nat
    BY <1>0, <1>1, LateCount
  <2> QED
    BY <1>0, <1>1, <2>1
<1>2. CASE Late(j)' \subseteq Late(j) /\ \E p \in Late(j) : p \notin Late(j)'
  <2>1. /\ Cardinality(Late(j)') + 1 <= Cardinality(Late(j))
        /\ Cardinality(Late(j)) \in Nat /\ Cardinality(Late(j)') \in Nat
    BY <1>0, <1>2, LateCount
  <2> QED
    BY <1>0, <2>1
<1> QED
  BY <1>1, <1>2

\* A transaction that ends without a commit, or was never opened, only takes
\* away from what is to come.
LEMMA WithinWithoutCommit ==
  ASSUME TypeOK, TypeOK', Within,
         \A j \in Job : /\ job'[j].attempts = job[j].attempts
                        /\ job'[j].status = job[j].status,
         \A p \in Proc : tx'[p] \in {tx[p], Closed}
  PROVE  Within'
<1>1. ASSUME NEW j \in Job
      PROVE  Late(j)' \subseteq Late(j) /\ Ripe(j)' <= Ripe(j)
  <2>1. ~Rewaits(Closed, j) /\ ~Counts(Closed, j)
    BY ClosedWritesNothing DEF Rewaits, Counts
  <2>2. /\ \A p \in Proc : Rewaits(tx[p], j)' => Rewaits(tx[p], j)
        /\ Counts(tx[Worker], j)' => Counts(tx[Worker], j)
    BY <2>1, WorkerAssumption DEF Rewaits, Counts
  <2>3. Appliers(j)' = Appliers(j)
    BY DEF Appliers
  <2>4. Late(j)' \subseteq Late(j)
    BY <2>2, <2>3, AppliersFinite DEF Late
  <2> QED
    BY <2>2, <2>4 DEF Ripe
<1> QED
  BY <1>1, WithinByFewer DEF Within, Appliers

\* What is opened takes no more: a job without attempts left is not retried.
LEMMA WithinAfterOpen ==
  ASSUME TypeOK, TypeOK', Within, NEW p \in Proc, NEW t, Opened(p, t), Open(p, t)
  PROVE  Within'
<1>0. /\ job' = job /\ \A q \in Proc : tx'[q] = IF q = p THEN t ELSE tx[q]
  BY DEF Open, TypeOK, StoreTypeOK
<1>1. ASSUME NEW j \in Job, job[j].attempts >= MaxAttempts
      PROVE  Late(j)' \subseteq Late(j) /\ Ripe(j)' <= Ripe(j)
  <2>1. ~Rewaits(t, j) /\ (Counts(t, j) => job[j].status \in Claimable)
    BY <1>1, StoreAssumption DEF Opened, TypeOK, StoreTypeOK, Row
  <2>2. /\ \A q \in Proc : Rewaits(tx[q], j)' => Rewaits(tx[q], j)
        /\ Counts(tx[Worker], j)' => Counts(tx[Worker], j) \/ job[j].status \in Claimable
    BY <1>0, <2>1, WorkerAssumption DEF Rewaits, Counts
  <2>3. Late(j)' \subseteq Late(j)
    BY <2>2, AppliersFinite DEF Late, Appliers
  <2> QED
    BY <1>0, <2>2, <2>3 DEF Ripe
<1> QED
  BY <1>0, <1>1, WithinByFewer DEF Within, Appliers

\* A claim that commits takes the one it was worth, a late retry turns into
\* the claim it is worth.
LEMMA WithinAfterCommit ==
  ASSUME TypeOK, TypeOK', Integrity, AllCounted, Within, NEW q \in Proc, Commit(q)
  PROVE  Within'
<1>0. /\ tx' = [tx EXCEPT ![q] = Closed] /\ tx \in [Proc -> Transaction]
      /\ MaxAttempts \in Nat \ {0} /\ Worker \in Proc
  BY StoreAssumption, WorkerAssumption DEF Commit, TypeOK, StoreTypeOK
<1> SUFFICES ASSUME NEW j \in Job
             PROVE  job'[j].attempts >= MaxAttempts =>
                      job'[j].attempts + Ripe(j)' + Cardinality(Late(j)')
                        <= MaxAttempts + Cardinality(Appliers(j))
  BY DEF Within, Appliers
<1>1. /\ \A p \in Proc : p # q => tx'[p] = tx[p]
      /\ ~Rewaits(tx'[q], j) /\ ~Counts(tx'[q], j)
  BY <1>0, ClosedWritesNothing DEF Rewaits, Counts
<1>2. /\ Late(j) \in SUBSET Appliers(j) /\ Late(j)' \in SUBSET Late(j)
      /\ q \notin Late(j)' /\ Appliers(j) \subseteq Proc \ {Worker}
  BY <1>1, AppliersFinite DEF Late, Rewaits, Appliers
<1>3. /\ Cardinality(Appliers(j)) \in Nat /\ Cardinality(Late(j)) \in Nat
      /\ Cardinality(Late(j)') \in Nat
      /\ Cardinality(Late(j)') <= Cardinality(Late(j))
      /\ Cardinality(Late(j)) <= Cardinality(Appliers(j))
  BY <1>2, AppliersFinite, LateCount
<1>4. job[j].attempts \in Nat /\ Ripe(j) \in {0, 1} /\ Ripe(j)' \in {0, 1}
  BY DEF TypeOK, StoreTypeOK, Row, Ripe
<1>5. /\ CountedAt(q, tx[q], j, job[j])
      /\ job[j].attempts >= MaxAttempts =>
           job[j].attempts + Ripe(j) + Cardinality(Late(j))
             <= MaxAttempts + Cardinality(Appliers(j))
  BY DEF AllCounted, Counted, Within
<1>6. CASE job'[j].attempts = 0
  BY <1>0, <1>6
<1>7. CASE /\ Counts(tx[q], j) /\ q = Worker
           /\ job'[j].status = "SUBMITTING" /\ job'[j].attempts = job[j].attempts + 1
  <2>1. Ripe(j) = 1 /\ Ripe(j)' = 0
    BY <1>1, <1>7 DEF Ripe, Counts, Claimable
  <2> QED
    BY <1>0, <1>3, <1>4, <1>5, <1>7, <2>1
<1>8. CASE /\ ~Counts(tx[q], j) /\ job'[j].attempts = job[j].attempts
           /\ job'[j].status = IF "status" \in tx[q].cols[j] THEN tx[q].set[j].status
                                                            ELSE job[j].status
  <2> SUFFICES ASSUME job[j].attempts >= MaxAttempts
               PROVE  job[j].attempts + Ripe(j)' + Cardinality(Late(j)')
                        <= MaxAttempts + Cardinality(Appliers(j))
    BY <1>8
  <2>1. CASE Rewaits(tx[q], j)
    <3>1. q \in Late(j)
      BY <1>0, <1>4, <1>5, <2>1 DEF CountedAt, Late
    <3>2. Cardinality(Late(j)') + 1 <= Cardinality(Late(j))
      BY <1>2, <3>1, LateCount
    <3> QED
      BY <1>0, <1>3, <1>4, <1>5, <3>2
  <2>2. CASE ~Rewaits(tx[q], j)
    <3>1. /\ job'[j].status \in Claimable => job[j].status \in Claimable
          /\ Counts(tx[Worker], j)' => Counts(tx[Worker], j)
      BY <1>0, <1>1, <1>8, <2>2 DEF Rewaits, Counts
    <3>2. Ripe(j)' <= Ripe(j)
      BY <3>1 DEF Ripe
    <3> QED
      BY <1>0, <1>3, <1>4, <1>5, <3>2
  <2> QED
    BY <2>1, <2>2
<1> QED
  BY <1>6, <1>7, <1>8, CommitCounts

\* So no step takes more.
LEMMA WithinKept ==
  ASSUME TypeOK, TypeOK', Integrity, AllCounted, Within, CountedStep
  PROVE  Within'
<1>0. tx \in [Proc -> Transaction] /\ job \in [Job -> Row]
  BY DEF TypeOK, StoreTypeOK
<1>1. CASE UNCHANGED storeVars
  BY <1>1, WithinWithoutCommit DEF storeVars
<1>2. CASE \E p \in Proc : \E t : Opened(p, t) /\ Open(p, t)
  BY <1>2, WithinAfterOpen
<1>3. CASE \E p \in Proc : Commit(p)
  BY <1>3, WithinAfterCommit
<1>4. CASE \E p \in Proc : Conflict(p) \/ LockedOut(p)
  <2>1. job' = job /\ \A q \in Proc : tx'[q] \in {tx[q], Closed}
    BY <1>0, <1>4 DEF Conflict, LockedOut
  <2> QED
    BY <2>1, WithinWithoutCommit
<1>5. CASE Elapses
  <2>1. /\ tx' = tx
        /\ \A j \in Job : job'[j].attempts = job[j].attempts /\ job'[j].status = job[j].status
    BY <1>0, <1>5 DEF Elapses, WakeReached, DeadlineReached, Row
  <2> QED
    BY <2>1, WithinWithoutCommit
<1>6. CASE Restarts
  <2>1. job' = job /\ \A q \in Proc : tx'[q] = Closed
    BY <1>6 DEF Restarts
  <2> QED
    BY <2>1, WithinWithoutCommit
<1> QED
  BY <1>1, <1>2, <1>3, <1>4, <1>5, <1>6 DEF CountedStep, Ends

\* At the start nothing is pending, and a job that waits has attempts left.
LEMMA WithinInit ==
  ASSUME Init
  PROVE  AllCounted /\ Within
<1>0. /\ job = Backlog /\ \A p \in Proc : tx[p] = Closed
  BY DEF Init, StoreInit
<1>1. AllCounted
  BY <1>0, RequestCounted DEF AllCounted
<1>2. ASSUME NEW j \in Job, job[j].attempts >= MaxAttempts
      PROVE  job[j].attempts + Ripe(j) + Cardinality(Late(j))
               <= MaxAttempts + Cardinality(Appliers(j))
  <2>1. job[j].attempts = MaxAttempts /\ job[j].status \notin Claimable
    <3>1. Backlog[j].attempts \in Nat /\ MaxAttempts \in Nat
      BY BacklogAssumption, StoreAssumption DEF Row
    <3> QED
      BY <1>0, <1>2, <3>1, BacklogAssumption
  <2>2. ~Rewaits(Closed, j) /\ ~Counts(Closed, j)
    BY ClosedWritesNothing DEF Rewaits, Counts
  <2>3. Ripe(j) = 0 /\ Late(j) = {}
    BY <1>0, <2>1, <2>2, AppliersFinite, WorkerAssumption DEF Ripe, Late
  <2>4. Cardinality(Late(j)) = 0
    BY <2>3, FS_EmptySet
  <2> QED
    BY <2>1, <2>3, <2>4, AppliersFinite, StoreAssumption
<1> QED
  BY <1>1, <1>2 DEF Within

(***************************************************************************)
(* A job is submitted no more often than GENERATION_MAX_ATTEMPTS and, on   *)
(* top, once for each call and callback that can hold a retry of it read   *)
(* before its last attempt: whatever concurrency, callbacks, requests,     *)
(* locks and crashes there are, and however long a commit waits            *)
(* (_set_retry_or_failure, _claim_due_submissions).                        *)
(***************************************************************************)
THEOREM OverrunAlwaysBounded == Spec => []OverrunIsBounded
<1>1. Init => AllCounted /\ Within
  BY WithinInit
<1>2. TypeOK /\ TypeOK' /\ Integrity /\ AllCounted /\ Within /\ [Next]_vars
        => AllCounted' /\ Within'
  BY NextIsCountedStep, CountedKept, WithinKept
<1>3. TypeOK /\ Within => OverrunIsBounded
  <2> SUFFICES ASSUME TypeOK, Within, NEW j \in Job
               PROVE  job[j].attempts <= MaxAttempts + Cardinality(Appliers(j))
    BY DEF OverrunIsBounded
  <2>1. /\ job[j].attempts \in Nat /\ MaxAttempts \in Nat
        /\ Cardinality(Appliers(j)) \in Nat /\ Ripe(j) \in {0, 1}
        /\ Late(j) \in SUBSET Appliers(j)
    BY StoreAssumption, AppliersFinite DEF TypeOK, StoreTypeOK, Row, Ripe, Late
  <2>2. Cardinality(Late(j)) \in Nat
    BY <2>1, LateCount
  <2> QED
    BY <2>1, <2>2 DEF Within
<1> QED
  BY <1>1, <1>2, <1>3, TypeCorrect, AlwaysIntegrity, PTL DEF Spec
=============================================================================
