--------------------------- MODULE LifecycleProofs ---------------------------
(***************************************************************************)
(* Proofs about a backend whose worker alone drives the jobs: no callback  *)
(* is delivered, and no call is left running when its tick ends.           *)
(*                                                                         *)
(* Then a job has one writer at a time, and what that writer is about to   *)
(* commit is a documented transition of the row as it is now, not only of  *)
(* the row it read.  From this follow the lifecycle of a job, the bound on *)
(* its attempts and what is known of a submission; the requests of clients,*)
(* crashes and timers may come at any moment.                              *)
(***************************************************************************)
EXTENDS SystemProofs, FiniteSetTheorems

(***************************************************************************)
(* Nobody is detached from the tick when at most one call is out at a      *)
(* time, or when no call raises: a commit finds the database free and      *)
(* every mode has its provider.                                            *)
(***************************************************************************)
NothingRaises == ~LockTimeouts /\ LiveOptions \subseteq {TRUE}

WorkerAlone == Hook = {} /\ (Concurrency <= 1 \/ NothingRaises)

Out == {c \in Call : call[c] # None}

NoneDetached == Out \subseteq gather

\* The phases in which the ticking coroutine has a transaction open.
WritePhases == {"recovering", "claiming", "expiring"}

(***************************************************************************)
(* Control: the tick waits for exactly the calls that are out, one per     *)
(* job; only a tick that waits for none has a transaction open itself, and *)
(* a call writes no job but its own.                                       *)
(***************************************************************************)
Control ==
  /\ Out = gather
  /\ gather # {} => phase = "gather"
  /\ \A c, d \in gather : JobOf(c) = JobOf(d) => c = d
  /\ tx[Worker].open => phase \in WritePhases
  /\ \A c \in Call : tx[c].open => c \in gather
  /\ \A p \in Proc, j \in Job : tx[p].cols[j] # {} =>
       /\ tx[p].open
       /\ p = Worker \/ (p \in Call /\ JobOf(p) = j)

(***************************************************************************)
(* An UPDATE of these columns to these values is a documented transition   *)
(* of row r, or leaves the status alone.                                   *)
(***************************************************************************)
Legal(r, want, cols) ==
  \/ /\ "status" \notin cols /\ "attempts" \notin cols
     /\ r.status = "PROCESSING"
  \/ /\ "status" \in cols /\ "attempts" \notin cols
     /\ \/ r.status \in Active /\ want.status = "FAILED"
        \/ /\ r.status \in InFlight /\ want.status = "RETRY_WAIT"
           /\ r.attempts < MaxAttempts
        \/ r.status = "SUBMITTING" /\ want.status = "PROCESSING"
        \/ r.status = "PROCESSING" /\ want.status = "SUCCEEDED"
  \/ /\ "status" \in cols /\ "attempts" \in cols
     /\ r.status \in Claimable /\ want.status = "SUBMITTING"
     /\ r.attempts < MaxAttempts /\ want.attempts = r.attempts + 1

\* A pending write makes documented transitions only, stores an artifact only
\* with the success of its job, and inserts a job that has used no attempt.
Lawful(t, rows) ==
  /\ \A j \in Job : t.cols[j] # {} => Legal(rows[j], t.set[j], t.cols[j])
  /\ t.artifact # None => /\ "status" \in t.cols[t.artifact]
                          /\ t.set[t.artifact].status = "SUCCEEDED"
  /\ t.insert.status # "ABSENT" => t.insert.attempts = 0

\* A transaction that submits no job.
SubmitsNone(t) == \A j \in Job : t.set[j].status # "SUBMITTING"

Fresh ==
  \A p \in Proc :
    /\ Lawful(tx[p], job)
    /\ p # Worker => SubmitsNone(tx[p])
    /\ p \in Call => tx[p].insert.status = "ABSENT"

\* A tick has submissions to make only while it claims, and counts each.
Claiming ==
  \A j \in Requests :
    /\ phase = "claiming"
    /\ "attempts" \in tx[Worker].cols[j]
    /\ tx[Worker].set[j].attempts \in Attempt

AttemptsLeft ==
  \A j \in Job :
    /\ job[j].attempts <= MaxAttempts
    /\ job[j].status \in Claimable => job[j].attempts < MaxAttempts
    /\ job[j].status = "ABSENT" => job[j].attempts = 0

\* Only one call is out, or about to be, under a concurrency of one.
OneCall ==
  Concurrency <= 1 =>
    /\ \A c, d \in gather : c = d
    /\ \A i, j \in Requests : i = j

(***************************************************************************)
(* When nothing raises, no index refuses what a call commits.              *)
(***************************************************************************)
NoRefusal ==
  /\ VersionIndexHolds(job)
  /\ \A j \in artifact : job[j].status = "SUCCEEDED"

Routed == NothingRaises => live

(***************************************************************************)
(* The submissions: those after the last attempt were never made; one that *)
(* is out, or was lost, is the last, of a job that is not to be submitted  *)
(* again; and a submit call that has not come back is out for its job.     *)
(***************************************************************************)
Accounted ==
  \A j \in Job, a \in Attempt :
    /\ a > job[j].attempts => ledger[j][a] = "unsent"
    /\ ledger[j][a] \in {"sent", "lost"} =>
         /\ a = job[j].attempts
         /\ job[j].status \in {"SUBMITTING", "FAILED"}
         /\ \A p \in Proc : "status" \in tx[p].cols[j] =>
              tx[p].set[j].status = "FAILED"

Awaited ==
  \A c \in gather : c[1] = "submit" /\ ~tx[c].open =>
    /\ job[JobOf(c)].status = "SUBMITTING"
    /\ call[c] \in Attempt
    /\ ledger[JobOf(c)][call[c]] = "sent"

\* The claim fits beside what is in flight.
Fits == Cardinality(InFlightJobs \cup Requests) <= Concurrency

----------------------------------------------------------------------------
(***************************************************************************)
(* What a merged row holds, and what the handlers open.                    *)
(***************************************************************************)
\* The attempts and the reference of a merged row are those of one of the two.
LEMMA MergeColumns ==
  ASSUME NEW now \in Row, NEW want \in Row, NEW cols \in SUBSET Column
  PROVE  /\ Merge(now, want, cols).attempts =
              IF "attempts" \in cols THEN want.attempts ELSE now.attempts
         /\ Merge(now, want, cols).reference =
              IF "reference" \in cols THEN want.reference ELSE now.reference
         /\ Merge(now, want, cols).version = now.version
  BY DEF Merge, Row

\* The timers an UPDATE may stamp with a fresh time.
Stamps == SUBSET {"wake", "deadline"}

\* The UPDATE of one job names the columns that differ and those stamped.
LEMMA UpdateColumns ==
  ASSUME StoreTypeOK,
         NEW j \in Job, NEW want \in Row, NEW stamped \in Stamps
  PROVE  /\ Update(j, want, stamped) \in Transaction
         /\ Update(j, want, stamped).open
         /\ Update(j, want, stamped).cols[j] = Dirty(job[j], want) \cup stamped
         /\ Update(j, want, stamped).set[j] = want
         /\ \A i \in Job \ {j} : /\ Update(j, want, stamped).cols[i] = {}
                                /\ Update(j, want, stamped).set[i] = NoRow
         /\ Update(j, want, stamped).insert = NoRow
         /\ Update(j, want, stamped).artifact = None
         /\ Update(j, want, stamped).selCols = {}
<1> DEFINE t == Update(j, want, stamped)
<1>1. t \in Transaction /\ t.insert = NoRow /\ t.artifact = None /\ t.selCols = {}
  BY UpdateShape DEF Stamps
<1>2. /\ t.open
      /\ t.cols = [[i \in Job |-> {}] EXCEPT
                     ![j] = Dirty(job[j], want) \cup stamped]
      /\ t.set = [[i \in Job |-> NoRow] EXCEPT ![j] = want]
  BY DEF Update, Closed
<1> QED
  BY <1>1, <1>2

(***************************************************************************)
(* A transaction that writes these jobs, each in a documented way.         *)
(***************************************************************************)
Writes(t, jobs) ==
  /\ t \in Transaction /\ t.open
  /\ t.insert.status = "ABSENT"
  /\ \A i \in Job : t.cols[i] # {} => i \in jobs
  /\ Lawful(t, job)

\* The transitions that use no attempt.
Follows(r, want) ==
  /\ want.attempts = r.attempts
  /\ \/ r.status = "PROCESSING" /\ want.status = "PROCESSING"
     \/ r.status \in Active /\ want.status = "FAILED"
     \/ /\ r.status \in InFlight /\ want.status = "RETRY_WAIT"
        /\ r.attempts < MaxAttempts
     \/ r.status = "SUBMITTING" /\ want.status = "PROCESSING"
     \/ r.status = "PROCESSING" /\ want.status = "SUCCEEDED"

\* The UPDATE of one job to a status that may follow writes only that job.
LEMMA UpdateWrites ==
  ASSUME StoreTypeOK,
         NEW j \in Job, NEW want \in Row, NEW stamped \in Stamps,
         Follows(job[j], want)
  PROVE  /\ Writes(Update(j, want, stamped), {j})
         /\ SubmitsNone(Update(j, want, stamped))
<1> DEFINE t == Update(j, want, stamped)
<1>1. /\ t \in Transaction
      /\ t.cols[j] = Dirty(job[j], want) \cup stamped /\ t.set[j] = want
      /\ \A i \in Job \ {j} : t.cols[i] = {} /\ t.set[i] = NoRow
  BY UpdateColumns
<1>0. t.open /\ t.insert = NoRow /\ t.artifact = None
  BY UpdateColumns
<1>2. /\ "attempts" \notin t.cols[j]
      /\ "status" \in t.cols[j] <=> want.status # job[j].status
      /\ t.set[j] = want
  BY <1>1 DEF Dirty, Follows, Column, Stamps
<1>3. Legal(job[j], want, t.cols[j])
  BY <1>2 DEF Legal, Follows, Active, InFlight
<1>4. NoRow.status = "ABSENT" /\ want.status # "SUBMITTING"
  BY DEF NoRow, Follows
<1> HIDE DEF t
<1>5. ASSUME NEW i \in Job, t.cols[i] # {}
      PROVE  i \in {j} /\ Legal(job[i], t.set[i], t.cols[i])
  BY <1>1, <1>2, <1>3, <1>5
<1>6. SubmitsNone(t)
  BY <1>1, <1>4 DEF SubmitsNone
<1> QED
  BY <1>0, <1>1, <1>4, <1>5, <1>6 DEF Writes, Lawful, t

\* _fail writes a job that is active.
LEMMA FailWrites ==
  ASSUME StoreTypeOK, NEW j \in Job, job[j].status \in Active
  PROVE  Writes(FailTx(j), {j}) /\ SubmitsNone(FailTx(j))
<1>1. Failed(job[j]) \in Row
  BY RowTypes DEF StoreTypeOK
<1>2. Follows(job[j], Failed(job[j]))
  BY DEF Follows, Failed, StoreTypeOK, Row
<1> QED
  BY <1>1, <1>2, UpdateWrites DEF FailTx, Stamps

\* _set_retry_or_failure writes a job that is in flight.
LEMMA RetryWrites ==
  ASSUME StoreTypeOK, NEW j \in Job, job[j].status \in InFlight
  PROVE  Writes(RetryTx(j), {j}) /\ SubmitsNone(RetryTx(j))
<1>1. CASE Exhausted(job[j])
  BY <1>1, FailWrites DEF RetryTx, InFlight, Active
<1>2. CASE ~Exhausted(job[j])
  <2>1. Retried(job[j]) \in Row
    BY RowTypes DEF StoreTypeOK
  <2>2. job[j].attempts < MaxAttempts
    BY <1>2, StoreAssumption DEF Exhausted, StoreTypeOK, Row
  <2>3. Follows(job[j], Retried(job[j]))
    BY <2>2 DEF Follows, Retried, StoreTypeOK, Row
  <2> QED
    BY <1>2, <2>1, <2>3, UpdateWrites DEF RetryTx, Stamps
<1> QED
  BY <1>1, <1>2

\* Rescheduling writes a job that is processing.
LEMMA RescheduleWrites ==
  ASSUME StoreTypeOK, NEW j \in Job, job[j].status = "PROCESSING"
  PROVE  Writes(RescheduleTx(j), {j}) /\ SubmitsNone(RescheduleTx(j))
<1> DEFINE want == [job[j] EXCEPT !.wake = "ahead"]
<1>1. want \in Row
  BY DEF StoreTypeOK, Row, Timer
<1>2. Follows(job[j], want)
  BY DEF Follows, StoreTypeOK, Row
<1> QED
  BY <1>1, <1>2, UpdateWrites DEF RescheduleTx, Stamps

\* The success branch of _submit writes a job that is being submitted.
LEMMA ProcessingWrites ==
  ASSUME StoreTypeOK, NEW j \in Job, NEW task \in Nat \cup {None},
         job[j].status = "SUBMITTING"
  PROVE  Writes(ProcessingTx(j, task), {j}) /\ SubmitsNone(ProcessingTx(j, task))
<1> DEFINE want == [job[j] EXCEPT !.status = "PROCESSING", !.task = task,
                                  !.wake = "ahead", !.deadline = "ahead"]
<1>1. want \in Row
  BY DEF StoreTypeOK, Row, Timer, JobStatus
<1>2. Follows(job[j], want)
  BY DEF Follows, StoreTypeOK, Row
<1> QED
  BY <1>1, <1>2, UpdateWrites DEF ProcessingTx, Stamps

\* _complete writes a job that is processing.
LEMMA CompleteWrites ==
  ASSUME StoreTypeOK, NEW j \in Job, job[j].status = "PROCESSING"
  PROVE  Writes(CompleteTx(j), {j}) /\ SubmitsNone(CompleteTx(j))
<1>1. CASE job[j].kind = "VIDEO" /\ job[j].source = None
  BY <1>1, FailWrites DEF CompleteTx, Active
<1>2. CASE ~ (job[j].kind = "VIDEO" /\ job[j].source = None)
  <2> DEFINE u == Update(j, Succeeded(job[j]), {})
             sel == [image |-> IF job[j].kind = "IMAGE" THEN j ELSE None,
                     video |-> IF job[j].kind = "VIDEO" THEN j ELSE None]
  <2>1. Succeeded(job[j]) \in Row
    BY RowTypes DEF StoreTypeOK
  <2>0. u.cols[j] = Dirty(job[j], Succeeded(job[j])) /\ u.set[j] = Succeeded(job[j])
    BY DEF Update, Closed
  <2>2. Follows(job[j], Succeeded(job[j]))
    BY DEF Follows, Succeeded, StoreTypeOK, Row
  <2>3. Writes(u, {j}) /\ SubmitsNone(u)
    BY <2>1, <2>2, UpdateWrites DEF Stamps
  <2>4. CompleteTx(j) = [u EXCEPT !.artifact = j, !.cut = job[j].cut,
                                  !.selCols = TakesOver(j), !.sel = sel]
    BY <1>2, Zenon DEF CompleteTx
  <2>5. CompleteTx(j) \in Transaction
    BY CompleteSound DEF Exists
  <2> HIDE DEF u, sel
  <2>6. /\ CompleteTx(j).cols = u.cols /\ CompleteTx(j).set = u.set
        /\ CompleteTx(j).insert = u.insert /\ CompleteTx(j).open = u.open
        /\ CompleteTx(j).artifact = j
    BY <2>3, <2>4 DEF Writes, Transaction
  <2>7. "status" \in u.cols[j] /\ u.set[j].status = "SUCCEEDED"
    <3>1. Succeeded(job[j]).status = "SUCCEEDED"
      BY RowTypes DEF StoreTypeOK
    <3> QED
      BY <2>0, <3>1 DEF Dirty, Column
  <2> QED
    BY <2>3, <2>5, <2>6, <2>7 DEF Writes, Lawful, SubmitsNone
<1> QED
  BY <1>1, <1>2

\* The claim writes the jobs it touches: those it submits are ready, and their
\* attempt is counted.
LEMMA ClaimWrites ==
  ASSUME StoreTypeOK, AttemptsLeft,
         \A j \in Touched : job[j].attempts < AttemptCap
  PROVE  /\ Writes(ClaimTx, Touched)
         /\ \A j \in Job : ClaimTx.set[j].status = "SUBMITTING" =>
              /\ j \in Visited /\ Ready(j)
              /\ "attempts" \in ClaimTx.cols[j]
              /\ ClaimTx.set[j] = Claimed(j)
              /\ ClaimTx.set[j].attempts \in Attempt
<1> DEFINE orphans == {j \in Visited : Orphaned(j)}
           ready == {j \in Visited : Ready(j)}
           want(j) == IF j \in orphans THEN Failed(job[j]) ELSE Claimed(j)
           cols == [j \in Job |-> IF j \in orphans \cup ready
                                  THEN Dirty(job[j], want(j)) ELSE {}]
           set == [j \in Job |-> IF j \in orphans \cup ready
                                 THEN want(j) ELSE NoRow]
<1>1. ClaimTx = [Closed EXCEPT !.open = TRUE, !.cols = cols, !.set = set]
  BY Zenon DEF ClaimTx
<1>2. /\ ClaimTx.cols = cols /\ ClaimTx.set = set
      /\ ClaimTx.open /\ ClaimTx.insert = NoRow /\ ClaimTx.artifact = None
  <2> HIDE DEF cols, set
  <2> QED
    BY <1>1 DEF Closed
<1>3. ClaimTx \in Transaction
  BY ClaimSound
<1>4. orphans \cup ready = Touched /\ Touched \subseteq Visited /\ Visited \subseteq Due
  BY DEF Touched, Visited
<1>5. ASSUME NEW j \in Job, j \in Touched
      PROVE  /\ Legal(job[j], set[j], cols[j])
             /\ set[j].status = "SUBMITTING" =>
                  /\ Ready(j)
                  /\ "attempts" \in cols[j]
                  /\ set[j] = Claimed(j)
                  /\ set[j].attempts \in Attempt
  <2>1. /\ job[j] \in Row /\ job[j].status \in Claimable
        /\ job[j].attempts \in Nat
    BY <1>4, <1>5 DEF StoreTypeOK, Due, Row
  <2>2. set[j] = want(j) /\ cols[j] = Dirty(job[j], want(j))
    BY <1>4, <1>5
  <2>3. CASE j \in orphans
    <3>1. want(j) = Failed(job[j])
      BY <2>3
    <3>2. /\ Failed(job[j]).status = "FAILED"
          /\ Failed(job[j]).attempts = job[j].attempts
      BY <2>1 DEF Failed, Row
    <3> HIDE DEF want
    <3>3. "attempts" \notin cols[j] /\ "status" \in cols[j]
      BY <2>1, <2>2, <3>1, <3>2 DEF Dirty, Claimable, Column
    <3> QED
      BY <2>1, <2>2, <3>1, <3>2, <3>3 DEF Legal, Claimable, Active
  <2>4. CASE j \notin orphans
    <3>1. want(j) = Claimed(j) /\ Ready(j)
      BY <1>4, <1>5, <2>4
    <3>2. /\ Claimed(j).status = "SUBMITTING"
          /\ Claimed(j).attempts = job[j].attempts + 1
      BY <2>1 DEF Claimed, Row
    <3> HIDE DEF want
    <3>3. "attempts" \in cols[j] /\ "status" \in cols[j]
      BY <2>1, <2>2, <3>1, <3>2 DEF Dirty, Claimable, Column
    <3>4. job[j].attempts < MaxAttempts
      BY <2>1 DEF AttemptsLeft
    <3>5. job[j].attempts + 1 \in Attempt
      BY <1>5, <2>1, WorkerAssumption DEF Attempt
    <3> QED
      BY <2>1, <2>2, <3>1, <3>2, <3>3, <3>4, <3>5 DEF Legal
  <2> QED
    BY <2>3, <2>4
<1>6. ASSUME NEW j \in Job, j \notin Touched
      PROVE  cols[j] = {} /\ set[j].status = "ABSENT"
  BY <1>4, <1>6 DEF NoRow
<1> HIDE DEF cols, set
<1>7. Writes(ClaimTx, Touched)
  BY <1>2, <1>3, <1>5, <1>6 DEF Writes, Lawful, NoRow
<1> QED
  BY <1>2, <1>4, <1>5, <1>6, <1>7

----------------------------------------------------------------------------
(***************************************************************************)
(* Who runs and who writes.                                                *)
(***************************************************************************)
\* However a transaction ends, its process has none any more.
LEMMA EndCloses ==
  ASSUME NEW p \in Proc, Commit(p) \/ Conflict(p) \/ LockedOut(p)
  PROVE  tx[p].open /\ tx' = [tx EXCEPT ![p] = Closed]
  BY DEF Commit, Conflict, LockedOut

\* A closed transaction writes nothing.
LEMMA ClosedWritesNothing ==
  /\ Closed \in Transaction /\ ~Closed.open
  /\ Closed.insert.status = "ABSENT"
  /\ \A j \in Job : Closed.cols[j] = {} /\ Closed.set[j].status = "ABSENT"
<1>1. Closed \in Transaction
  BY ClosedSound
<1> QED
  BY <1>1 DEF Closed, NoRow

\* The job of a call is a job.
LEMMA CallJob ==
  \A c \in Call : JobOf(c) \in Job /\ c \in Proc /\ c # Worker
  BY WorkerAssumption DEF JobOf, Call

\* A fan-out starts one call per job, and waits for what it started.
LEMMA GatherShape ==
  ASSUME TypeOK,
         NEW kind \in {"submit", "poll"}, NEW jobs \in SUBSET Job,
         NEW attempt \in [Job -> Nat \cup {None}],
         Gather(kind, jobs, attempt),
         \A j \in jobs : attempt[j] # None,
         Out = {}
  PROVE  /\ phase' = "gather"
         /\ Out' = gather' /\ gather' \subseteq Call
         /\ \A c, d \in gather' : JobOf(c) = JobOf(d) => c = d
         /\ \A c \in gather' : /\ c[1] = kind /\ JobOf(c) \in jobs
                               /\ call'[c] = attempt[JobOf(c)]
<1>1. ASSUME NEW j \in jobs
      PROVE  /\ NewCall(kind, j) \in Call
             /\ JobOf(NewCall(kind, j)) = j /\ NewCall(kind, j)[1] = kind
  <2>1. Idle(kind, j) # {} /\ Idle(kind, j) \subseteq Nat
    BY WorkerAssumption DEF Gather, Idle
  <2>2. First(Idle(kind, j)) \in Generations
    BY <2>1, FirstIn DEF Idle
  <2> QED
    BY <2>2 DEF NewCall, Call, JobOf
<1>2. gather' = {NewCall(kind, j) : j \in jobs} /\ phase' = "gather"
  BY DEF Gather
<1>3. gather' \subseteq Call
  BY <1>1, <1>2
<1>4. ASSUME NEW c \in gather'
      PROVE  JobOf(c) \in jobs /\ c[1] = kind /\ c = NewCall(kind, JobOf(c))
  BY <1>1, <1>2
<1>5. \A c \in Call : call'[c] = IF c \in gather' THEN attempt[JobOf(c)] ELSE call[c]
  BY <1>2 DEF Gather
<1>6. Out' = gather'
  BY <1>3, <1>4, <1>5 DEF Out
<1>7. \A c, d \in gather' : JobOf(c) = JobOf(d) => c = d
  BY <1>4
<1> QED
  BY <1>2, <1>3, <1>4, <1>5, <1>6, <1>7

\* Opening a transaction that keeps to the writer's jobs keeps Control.
LEMMA ControlOpens ==
  ASSUME TypeOK, Control,
         NEW p \in Proc, NEW t \in Transaction, Open(p, t), t.open,
         UNCHANGED <<gather, call>>,
         \A j \in Job : t.cols[j] # {} => p = Worker \/ (p \in Call /\ JobOf(p) = j),
         p = Worker => phase' \in WritePhases,
         p # Worker => phase' = phase,
         phase' # phase => phase # "gather",
         p \in Call => p \in gather
  PROVE  Control'
<1>1. tx' = [tx EXCEPT ![p] = t] /\ tx \in [Proc -> Transaction]
  BY DEF Open, TypeOK, StoreTypeOK
<1>2. \A q \in Proc : tx'[q] = IF q = p THEN t ELSE tx[q]
  BY <1>1
<1>3. (Out = gather)'
  BY DEF Control, Out
<1>4. (gather # {} => phase = "gather")' 
  BY DEF Control
<1>5. (\A c, d \in gather : JobOf(c) = JobOf(d) => c = d)'
  BY DEF Control, JobOf
<1>6. (tx[Worker].open => phase \in WritePhases)'
  BY <1>2, WorkerAssumption DEF Control
<1>7. (\A c \in Call : tx[c].open => c \in gather)'
  BY <1>2, CallJob DEF Control
<1>8. (\A q \in Proc, j \in Job : tx[q].cols[j] # {} =>
         /\ tx[q].open
         /\ q = Worker \/ (q \in Call /\ JobOf(q) = j))'
  BY <1>2 DEF Control, JobOf
<1> QED
  BY <1>3, <1>4, <1>5, <1>6, <1>7, <1>8 DEF Control

\* So does ending some, when the tick waits for exactly the calls left.
LEMMA ControlCloses ==
  ASSUME Control,
         \A q \in Proc : tx'[q] = tx[q] \/ tx'[q] = Closed,
         Out' = gather', gather' # {} => phase' = "gather",
         \A c, d \in gather' : JobOf(c) = JobOf(d) => c = d,
         tx'[Worker].open => phase' \in WritePhases,
         \A c \in gather : tx'[c].open => c \in gather'
  PROVE  Control'
<1>3. (Out = gather)' /\ (gather # {} => phase = "gather")'
  OBVIOUS
<1>5. (\A c, d \in gather : JobOf(c) = JobOf(d) => c = d)'
  BY DEF JobOf
<1>6. (tx[Worker].open => phase \in WritePhases)'
  OBVIOUS
<1>7. (\A c \in Call : tx[c].open => c \in gather)'
  BY CallJob, ClosedWritesNothing DEF Control
<1>8. (\A q \in Proc, j \in Job : tx[q].cols[j] # {} =>
         /\ tx[q].open
         /\ q = Worker \/ (q \in Call /\ JobOf(q) = j))'
  BY ClosedWritesNothing DEF Control, JobOf
<1> QED
  BY <1>3, <1>5, <1>6, <1>7, <1>8 DEF Control

\* A step that opens and ends no transaction and starts and ends no call keeps
\* Control, when the tick goes from one of its readings to another.
LEMMA ControlKept ==
  ASSUME Control, UNCHANGED <<gather, call, tx>>,
         phase' = phase \/ phase \notin WritePhases \cup {"gather"}
  PROVE  Control'
  BY DEF Control, Out, JobOf

\* A call that ends leaves the tick to the others.
LEMMA CallEndsShape ==
  ASSUME TypeOK, Control, NEW c \in gather, CallEnds(c)
  PROVE  /\ gather' = gather \ {c} /\ Out' = gather'
         /\ phase = "gather"
         /\ gather' # {} => phase' = "gather"
         /\ gather' = {} => phase' = "tick"
<1>1. gather = Out /\ phase = "gather" /\ gather \subseteq Call
  BY DEF Control, Out
<1>2. \A d \in Call : call'[d] = IF d = c THEN None ELSE call[d]
  BY <1>1 DEF CallEnds, TypeOK, WorkerTypeOK
<1>3. Out' = Out \ {c} /\ gather' = gather \ {c}
  BY <1>1, <1>2 DEF Out, CallEnds
<1> QED
  BY <1>1, <1>3 DEF CallEnds

\* A call that raises ends the tick; when it leaves nobody behind, none is out.
LEMMA CallRaisesShape ==
  ASSUME TypeOK, Control, NEW c \in gather, CallRaises(c), NoneDetached'
  PROVE  gather' = {} /\ Out' = {} /\ phase' = "tick" /\ phase = "gather"
<1>1. gather = Out /\ phase = "gather"
  BY DEF Control
<1>2. gather' = {} /\ phase' = "tick"
  BY DEF CallRaises
<1> QED
  BY <1>1, <1>2 DEF NoneDetached, Out

\* A call that is back keeps Control, whether it writes or not.
LEMMA ControlReadThen ==
  ASSUME TypeOK, Control, NEW c \in gather, ~tx[c].open, NEW expected, NEW t,
         ReadThen(c, expected, t),
         job[JobOf(c)].status = expected => Writes(t, {JobOf(c)})
  PROVE  Control'
<1>1. c \in Call /\ gather = Out
  BY DEF Control, Out
<1>2. CASE job[JobOf(c)].status = expected
  BY <1>1, <1>2, CallJob, ControlOpens DEF ReadThen, Writes
<1>3. CASE job[JobOf(c)].status # expected
  <2>1. CallEnds(c) /\ UNCHANGED storeVars
    BY <1>3 DEF ReadThen
  <2>2. tx' = tx
    BY <2>1 DEF storeVars
  <2>3. /\ gather' = gather \ {c} /\ Out' = gather' /\ phase = "gather"
        /\ gather' # {} => phase' = "gather"
    BY <2>1, CallEndsShape
  <2>4. \A d, e \in gather' : JobOf(d) = JobOf(e) => d = e
    BY <2>3 DEF Control
  <2>5. ~tx[Worker].open
    BY <2>3 DEF Control, WritePhases
  <2> QED
    BY <2>2, <2>3, <2>4, <2>5, ControlCloses
<1> QED
  BY <1>2, <1>3

\* What a call that is back writes, it writes on its own job.
LEMMA CallWrites ==
  ASSUME TypeOK, NEW c \in Call, NEW t, call[c] # None,
         \/ /\ t \in {ProcessingTx(JobOf(c), call[c]), RetryTx(JobOf(c)), FailTx(JobOf(c))}
            /\ job[JobOf(c)].status = "SUBMITTING"
         \/ /\ t \in {RescheduleTx(JobOf(c)), FailTx(JobOf(c)), RetryTx(JobOf(c)),
                      CompleteTx(JobOf(c))}
            /\ job[JobOf(c)].status = "PROCESSING"
  PROVE  Writes(t, {JobOf(c)}) /\ SubmitsNone(t)
<1>1. StoreTypeOK /\ JobOf(c) \in Job /\ call[c] \in Nat \cup {None}
  BY CallJob DEF TypeOK, WorkerTypeOK
<1> QED
  BY <1>1, ProcessingWrites, RetryWrites, FailWrites, RescheduleWrites, CompleteWrites
     DEF InFlight, Active

(***************************************************************************)
(* A call that comes back reads its job and opens a write of that job, or  *)
(* raises before it touches the database.                                  *)
(***************************************************************************)
Reads(c, expected, t) ==
  /\ ReadThen(c, expected, t)
  /\ job[JobOf(c)].status = expected =>
       Writes(t, {JobOf(c)}) /\ SubmitsNone(t)

\* These are all the ways in which a call comes back.
LEMMA CallReturnsShape ==
  ASSUME TypeOK, NEW c \in Call, CallReturns(c)
  PROVE  /\ call[c] # None /\ ~tx[c].open
         /\ \/ \E expected, t : Reads(c, expected, t)
            \/ CallRaises(c) /\ UNCHANGED storeVars /\ ~Routable(JobOf(c))
<1>1. ASSUME NEW kind, Returning(c, kind)
      PROVE  call[c] # None /\ ~tx[c].open
  BY <1>1 DEF Returning
<1>2. CASE SubmitAccepted(c)
  <2>1. ReadThen(c, "SUBMITTING", ProcessingTx(JobOf(c), call[c]))
    BY <1>2 DEF SubmitAccepted
  <2> QED
    BY <1>1, <1>2, <2>1, CallWrites DEF SubmitAccepted, Reads
<1>3. CASE SubmitRejected(c)
  <2>1. ReadThen(c, "SUBMITTING", RetryTx(JobOf(c)))
    BY <1>3 DEF SubmitRejected
  <2> QED
    BY <1>1, <1>3, <2>1, CallWrites DEF SubmitRejected, Reads
<1>4. CASE SubmitRefused(c)
  <2>1. ReadThen(c, "SUBMITTING", FailTx(JobOf(c)))
    BY <1>4 DEF SubmitRefused
  <2> QED
    BY <1>1, <1>4, <2>1, CallWrites DEF SubmitRefused, Reads
<1>5. CASE PollUnsettled(c)
  <2>1. ReadThen(c, "PROCESSING", RescheduleTx(JobOf(c)))
    BY <1>5 DEF PollUnsettled
  <2> QED
    BY <1>1, <1>5, <2>1, CallWrites DEF PollUnsettled, Reads
<1>6. CASE PollFailed(c)
  <2>1. ReadThen(c, "PROCESSING", FailTx(JobOf(c)))
    BY <1>6 DEF PollFailed
  <2> QED
    BY <1>1, <1>6, <2>1, CallWrites DEF PollFailed, Reads
<1>7. CASE PollRetryable(c)
  <2>1. ReadThen(c, "PROCESSING", RetryTx(JobOf(c)))
    BY <1>7 DEF PollRetryable
  <2> QED
    BY <1>1, <1>7, <2>1, CallWrites DEF PollRetryable, Reads
<1>8. CASE PollSucceeded(c)
  <2>1. ReadThen(c, "PROCESSING", CompleteTx(JobOf(c)))
    BY <1>8 DEF PollSucceeded
  <2> QED
    BY <1>1, <1>8, <2>1, CallWrites DEF PollSucceeded, Reads
<1>9. CASE Unroutable(c)
  BY <1>9 DEF Unroutable
<1> QED
  BY <1>2, <1>3, <1>4, <1>5, <1>6, <1>7, <1>8, <1>9 DEF CallReturns

\* The tick keeps Control.
LEMMA ControlTick ==
  ASSUME TypeOK, Control, AttemptsLeft, TickStep
  PROVE  Control'
<1>0. /\ StoreTypeOK /\ Worker \in Proc /\ Worker \notin Call
      /\ tx[Worker] \in Transaction
  BY WorkerAssumption DEF TypeOK, StoreTypeOK
<1>1. CASE NothingToRecover \/ NothingToClaim \/ NothingToExpire \/ NothingToPoll
  BY <1>1, ControlKept DEF NothingToRecover, NothingToClaim, NothingToExpire,
     NothingToPoll, Goto, storeVars, WritePhases
<1>2. ASSUME NEW t, Writes(t, Job), Open(Worker, t),
             NEW next \in WritePhases, Goto(next), phase # "gather"
      PROVE  Control'
  BY <1>0, <1>2, ControlOpens DEF Goto, Writes
<1>3. CASE RecoverRead
  <2>1. First(Submitting) \in Submitting /\ First(Submitting) \in Job
    BY <1>3, FirstJob DEF RecoverRead, Submitting
  <2>2. Writes(FailTx(First(Submitting)), Job)
    BY <1>0, <2>1, FailWrites DEF Submitting, Active, Writes
  <2> QED
    BY <1>2, <1>3, <2>2 DEF RecoverRead, WritePhases
<1>4. CASE ClaimRead
  <2>1. Writes(ClaimTx, Job)
    BY <1>0, <1>4, ClaimWrites DEF ClaimRead, Writes
  <2> QED
    BY <1>2, <1>4, <2>1 DEF ClaimRead, WritePhases
<1>5. CASE ExpireRead
  <2>1. PICK j \in Overdue : Open(Worker, RetryTx(j))
    BY <1>5 DEF ExpireRead
  <2>2. Writes(RetryTx(j), Job)
    BY <1>0, <2>1, RetryWrites DEF Overdue, InFlight, Writes
  <2> QED
    BY <1>2, <1>5, <2>1, <2>2 DEF ExpireRead, WritePhases
<1>6. CASE RecoverCommit \/ ClaimOnlyOrphans \/ ExpireCommit \/ WorkerRollback
  <2>1. /\ phase \in WritePhases /\ Goto("tick")
        /\ Commit(Worker) \/ Conflict(Worker) \/ LockedOut(Worker)
    BY <1>6 DEF RecoverCommit, ClaimOnlyOrphans, ExpireCommit, WorkerRollback,
       WritePhases
  <2>2. \A q \in Proc : tx'[q] = IF q = Worker THEN Closed ELSE tx[q]
    BY <1>0, <2>1, EndCloses DEF StoreTypeOK
  <2>3. gather' = {} /\ gather = {} /\ Out' = {}
    BY <2>1 DEF Control, WritePhases, Goto, Out
  <2> QED
    BY <1>0, <2>2, <2>3, ControlCloses, ClosedWritesNothing
<1>7. CASE ClaimCommit
  <2> DEFINE attempt == [j \in Job |-> tx[Worker].set[j].attempts]
  <2>1. /\ phase = "claiming" /\ Commit(Worker)
        /\ Gather("submit", Requests, attempt)
    BY <1>7 DEF ClaimCommit
  <2>2. /\ attempt \in [Job -> Nat \cup {None}]
        /\ \A j \in Requests : attempt[j] # None
        /\ Requests \in SUBSET Job
    BY <1>0, StoreAssumption DEF Transaction, Row, Requests
  <2>3. \A q \in Proc : tx'[q] = IF q = Worker THEN Closed ELSE tx[q]
    BY <1>0, <2>1, EndCloses DEF StoreTypeOK
  <2>4. gather = {} /\ Out = {}
    BY <2>1 DEF Control
  <2> HIDE DEF attempt
  <2>5. /\ phase' = "gather" /\ Out' = gather'
        /\ \A c, d \in gather' : JobOf(c) = JobOf(d) => c = d
    BY <2>1, <2>2, <2>4, GatherShape
  <2> QED
    BY <1>0, <2>3, <2>4, <2>5, ControlCloses, ClosedWritesNothing
<1>8. CASE PollStart
  <2> DEFINE attempt == [j \in Job |-> job[j].task]
  <2>1. PICK polled \in SUBSET PollDue : Gather("poll", polled, attempt)
    BY <1>8 DEF PollStart
  <2>2. /\ attempt \in [Job -> Nat \cup {None}]
        /\ \A j \in polled : attempt[j] # None
        /\ polled \in SUBSET Job
    BY <1>0 DEF StoreTypeOK, Row, PollDue
  <2>3. gather = {} /\ Out = {} /\ ~tx[Worker].open /\ tx' = tx
    BY <1>8 DEF Control, PollStart, storeVars, WritePhases
  <2> HIDE DEF attempt
  <2>4. /\ phase' = "gather" /\ Out' = gather'
        /\ \A c, d \in gather' : JobOf(c) = JobOf(d) => c = d
    BY <2>1, <2>2, <2>3, GatherShape
  <2> QED
    BY <2>3, <2>4, ControlCloses
<1> QED
  BY <1>1, <1>3, <1>4, <1>5, <1>6, <1>7, <1>8 DEF TickStep

\* What a request opens: it inserts a job with no attempts used or sets a
\* selection, and writes no job there is.
Requested(t) ==
  /\ t \in Transaction /\ t.open
  /\ \A j \in Job : t.cols[j] = {}
  /\ t.artifact = None /\ SubmitsNone(t)
  /\ t.insert.status # "ABSENT" => t.insert.attempts = 0

\* A request opens such a transaction, ends one, or leaves the rows alone.
LEMMA ClientShape ==
  ASSUME TypeOK, NEW p \in Client, ClientActs(p)
  PROVE  /\ UNCHANGED workerVars
         /\ \/ UNCHANGED storeVars
            \/ Commit(p) \/ Conflict(p) \/ LockedOut(p)
            \/ \E t : Requested(t) /\ Open(p, t)
<1>0. StoreTypeOK /\ p \in Proc /\ UNCHANGED workerVars
  BY ApiAssumption DEF TypeOK, ClientActs
<1>1. CASE RequestCreation(p) \/ CreateRefused(p)
  BY <1>0, <1>1 DEF RequestCreation, RequestJobs, CreateRefused
<1>2. CASE ClientCommits(p) \/ CreateLockedOut(p) \/ SelectLockedOut(p)
  BY <1>0, <1>2 DEF ClientCommits, CreateCommit, CreateConflict, SelectCommit,
     CreateLockedOut, SelectLockedOut
<1>3. CASE CreateRead(p)
  <2>1. client[p] \in Request
    BY <1>3 DEF CreateRead, TypeOK, ApiTypeOK
  <2>2. /\ client[p].kind \in Kind /\ client[p].mode \in Mode
        /\ client[p].left \in SUBSET Cut /\ client[p].left # {}
    BY <2>1 DEF Request
  <2>3. NextCut(p) \in Cut
    BY <2>2, FirstCut DEF NextCut
  <2>4. PICK v \in NextVersion(NextCut(p), client[p].kind) :
          Open(p, [Closed EXCEPT
                     !.open = TRUE,
                     !.insert = NewRow(NextCut(p), client[p].kind,
                                       client[p].mode, v)])
    BY <1>3 DEF CreateRead
  <2>5. v \in Nat
    BY <2>4 DEF NextVersion
  <2>6. ~ (client[p].kind = "VIDEO" /\ ~ SourceUsable(NextCut(p), client[p].mode))
    BY <1>3 DEF CreateRead, Refusable
  <2> DEFINE r == NewRow(NextCut(p), client[p].kind, client[p].mode, v)
             t == [Closed EXCEPT !.open = TRUE, !.insert = r]
  <2>7. t \in Transaction
    BY <1>0, <2>2, <2>3, <2>5, <2>6, CreateSound
  <2>8. r.attempts = 0
    BY DEF NewRow, NoRow
  <2> HIDE DEF r
  <2>9. /\ t.open /\ t.cols = Closed.cols /\ t.insert = r
        /\ t.set = Closed.set /\ t.artifact = None
    BY DEF Closed
  <2>10. Requested(t)
    BY <2>7, <2>8, <2>9, ClosedWritesNothing DEF Requested, SubmitsNone
  <2> QED
    BY <1>0, <2>4, <2>10 DEF r
<1>4. CASE RequestSelection(p)
  <2>1. PICK c \in Cut, j \in Job : SelectImage(p, c, j) \/ SelectVideo(p, c, j)
    BY <1>4 DEF RequestSelection
  <2>2. cut[c] \in Selection
    BY <1>0 DEF StoreTypeOK
  <2>3. ASSUME NEW want, SelectTx(c, want) \in Transaction
        PROVE  Requested(SelectTx(c, want))
    <3>1. /\ SelectTx(c, want).open /\ SelectTx(c, want).cols = Closed.cols
          /\ SelectTx(c, want).insert = Closed.insert
          /\ SelectTx(c, want).set = Closed.set
          /\ SelectTx(c, want).artifact = None
      BY DEF SelectTx, Closed
    <3> QED
      BY <2>3, <3>1, ClosedWritesNothing DEF Requested, SubmitsNone
  <2>4. CASE SelectImage(p, c, j)
    <3> DEFINE want == [image |-> j, video |-> None]
    <3>1. want \in Selection
      BY DEF Selection
    <3>2. SelectTx(c, want) \in Transaction
      BY <1>0, <2>4, <3>1, SelectSound DEF SelectImage
    <3> QED
      BY <1>0, <2>3, <2>4, <3>2 DEF SelectImage
  <2>5. CASE SelectVideo(p, c, j)
    <3> DEFINE want == [cut[c] EXCEPT !.video = j]
    <3>1. want \in Selection /\ want.image = cut[c].image /\ want.video = j
      BY <2>2 DEF Selection
    <3> HIDE DEF want
    <3>2. SelectTx(c, want) \in Transaction
      BY <1>0, <2>5, <3>1, SelectSound DEF SelectVideo
    <3> QED
      BY <1>0, <2>3, <2>5, <3>2 DEF SelectVideo, want
  <2> QED
    BY <2>1, <2>4, <2>5
<1> QED
  BY <1>1, <1>2, <1>3, <1>4 DEF ClientActs, ClientStep

\* A call that returns, commits or raises keeps Control, when it leaves nobody
\* detached.
LEMMA ControlCall ==
  ASSUME TypeOK, Control, NEW c \in Call, CallStep(c), NoneDetached'
  PROVE  Control'
<1>0. /\ gather = Out /\ gather \subseteq Call
      /\ tx[c].open => c \in gather
      /\ c \in Proc /\ c # Worker
  BY CallJob DEF Control, Out
<1>1. CASE CallReturns(c)
  <2>1. c \in gather /\ ~tx[c].open
    BY <1>0, <1>1, CallReturnsShape DEF Out
  <2>2. CASE \E expected, t : Reads(c, expected, t)
    BY <2>1, <2>2, ControlReadThen DEF Reads
  <2>3. CASE CallRaises(c) /\ UNCHANGED storeVars
    <3>1. gather' = {} /\ Out' = {} /\ phase = "gather"
      BY <2>1, <2>3, CallRaisesShape
    <3>2. tx' = tx
      BY <2>3 DEF storeVars
    <3>3. ~tx[Worker].open
      BY <3>1 DEF Control, WritePhases
    <3>4. CASE \A d \in gather : ~tx[d].open
      BY <3>1, <3>2, <3>3, <3>4, ControlCloses
    <3>5. gather = {c}
      <4>1. \A d \in Call \ {c} : call'[d] = call[d]
        BY <2>3 DEF CallRaises, TypeOK, WorkerTypeOK
      <4> QED
        BY <1>0, <2>1, <3>1, <4>1 DEF Out
    <3> QED
      BY <2>1, <3>4, <3>5
  <2> QED
    BY <1>1, <2>2, <2>3, CallReturnsShape
<1>2. CASE CallCommit(c)
  <2>1. c \in gather /\ CallEnds(c) /\ \A q \in Proc : tx'[q] = IF q = c THEN Closed ELSE tx[q]
    BY <1>0, <1>2, EndCloses DEF CallCommit, TypeOK, StoreTypeOK
  <2>2. /\ gather' = gather \ {c} /\ Out' = gather' /\ phase = "gather"
        /\ gather' # {} => phase' = "gather"
    BY <2>1, CallEndsShape
  <2>3. ~tx[Worker].open
    BY <2>2 DEF Control, WritePhases
  <2>4. \A d, e \in gather' : JobOf(d) = JobOf(e) => d = e
    BY <2>2 DEF Control
  <2> QED
    BY <1>0, <2>1, <2>2, <2>3, <2>4, WorkerAssumption, ControlCloses,
       ClosedWritesNothing
<1>3. CASE CallRollback(c)
  <2>1. /\ c \in gather /\ CallRaises(c)
        /\ \A q \in Proc : tx'[q] = IF q = c THEN Closed ELSE tx[q]
    BY <1>0, <1>3, EndCloses DEF CallRollback, TypeOK, StoreTypeOK
  <2>2. gather' = {} /\ Out' = {} /\ phase = "gather"
    BY <2>1, CallRaisesShape
  <2>3. \A d \in Call \ {c} : call'[d] = call[d]
    BY <2>1 DEF CallRaises, TypeOK, WorkerTypeOK
  <2>4. gather = {c}
    BY <1>0, <2>1, <2>2, <2>3 DEF Out
  <2>5. ~tx[Worker].open
    BY <2>2 DEF Control, WritePhases
  <2> QED
    BY <1>0, <2>1, <2>2, <2>4, <2>5, WorkerAssumption, ControlCloses,
       ClosedWritesNothing
<1> QED
  BY <1>1, <1>2, <1>3 DEF CallStep

\* What clients, timers and crashes do keeps Control.
LEMMA ControlStep ==
  ASSUME Hook = {}, TypeOK, Control, AttemptsLeft, [Next]_vars, NoneDetached'
  PROVE  Control'
<1>1. CASE Tick
  BY <1>1, ControlTick DEF Tick
<1>2. ASSUME NEW c \in Call, CallActs(c)
      PROVE  Control'
  BY <1>2, ControlCall DEF CallActs
<1>3. ASSUME NEW p \in Client, ClientActs(p)
      PROVE  Control'
  <2>0. /\ p \in Proc /\ p # Worker /\ p \notin Call
        /\ tx \in [Proc -> Transaction] /\ Worker \in Proc
    BY ApiAssumption, SystemAssumption, WorkerAssumption DEF TypeOK, StoreTypeOK
  <2>1. UNCHANGED <<phase, gather, call>>
    BY <1>3, ClientShape DEF workerVars
  <2>2. CASE UNCHANGED storeVars
    BY <2>1, <2>2, ControlKept DEF storeVars
  <2>3. CASE Commit(p) \/ Conflict(p) \/ LockedOut(p)
    <3>1. \A q \in Proc : tx'[q] = IF q = p THEN Closed ELSE tx[q]
      BY <2>0, <2>3, EndCloses
    <3>2. Out' = gather'
      BY <2>1 DEF Control, Out
    <3>3. /\ gather' # {} => phase' = "gather"
          /\ tx'[Worker].open => phase' \in WritePhases
      BY <2>0, <2>1, <3>1 DEF Control
    <3>4. \A c, d \in gather' : JobOf(c) = JobOf(d) => c = d
      BY <2>1 DEF Control
    <3> QED
      BY <2>1, <3>1, <3>2, <3>3, <3>4, ControlCloses
  <2>4. CASE \E t : Requested(t) /\ Open(p, t)
    BY <2>0, <2>1, <2>4, ControlOpens DEF Requested
  <2> QED
    BY <1>3, <2>2, <2>3, <2>4, ClientShape
<1>4. CASE Crash
  <2>1. /\ tx' = [p \in Proc |-> Closed] /\ gather' = {}
        /\ call' = [c \in Call |-> None]
    BY <1>4 DEF Crash
  <2>2. Out' = {}
    BY <2>1 DEF Out
  <2>3. (\A q \in Proc : tx'[q] = Closed) /\ ~tx'[Worker].open
    BY <2>1, WorkerAssumption, ClosedWritesNothing
  <2>4. gather' = {} /\ Out' = gather'
    BY <2>1, <2>2
  <2>5. \A c \in gather : ~tx'[c].open
    BY <2>3, CallJob, ClosedWritesNothing DEF Control, Out
  <2> QED
    BY <2>3, <2>4, <2>5, ControlCloses
<1>5. CASE \/ Switch \/ UNCHANGED vars
           \/ \E j \in Job : Wakes(j) \/ Expires(j)
           \/ \E j \in Job, a \in Attempt : Provider(j, a)
  <2>1. UNCHANGED <<phase, gather, call, tx>>
    BY <1>5 DEF Switch, vars, Wakes, Expires, Provider, WakeReached,
       DeadlineReached, ProviderFinishes, workerVars, storeVars
  <2> QED
    BY <2>1, ControlKept
<1> QED
  BY <1>1, <1>2, <1>3, <1>4, <1>5 DEF Next

----------------------------------------------------------------------------
(***************************************************************************)
(* What is committed.                                                      *)
(***************************************************************************)
AloneStep ==
  \/ UNCHANGED storeVars
  \/ \E p \in Proc : \E t \in Transaction :
       /\ Lawful(t, job)
       /\ p # Worker => SubmitsNone(t)
       /\ p \in Call => t.insert.status = "ABSENT"
       /\ Open(p, t)
  \/ Ends \/ Elapses \/ Restarts

\* The step of a tick touches the rows in one of these ways.
LEMMA TickIsAloneStep ==
  ASSUME TypeOK, Control, AttemptsLeft, TickStep
  PROVE  AloneStep
<1>0. StoreTypeOK /\ Worker \in Proc
  BY WorkerAssumption DEF TypeOK
<1>1. CASE \/ NothingToRecover \/ NothingToClaim \/ NothingToExpire
           \/ NothingToPoll \/ PollStart
  BY <1>1 DEF NothingToRecover, NothingToClaim, NothingToExpire,
     NothingToPoll, PollStart, AloneStep
<1>2. CASE \/ RecoverCommit \/ ClaimCommit \/ ClaimOnlyOrphans
           \/ ExpireCommit \/ WorkerRollback
  BY <1>0, <1>2 DEF RecoverCommit, ClaimCommit, ClaimOnlyOrphans,
     ExpireCommit, WorkerRollback, AloneStep, Ends
<1>3. ASSUME NEW t, NEW jobs, Writes(t, jobs), Open(Worker, t)
      PROVE  AloneStep
  BY <1>0, <1>3, WorkerAssumption DEF Writes, AloneStep
<1>4. CASE RecoverRead
  <2>1. First(Submitting) \in Submitting /\ First(Submitting) \in Job
    BY <1>4, FirstJob DEF RecoverRead, Submitting
  <2>2. Writes(FailTx(First(Submitting)), {First(Submitting)})
    BY <1>0, <2>1, FailWrites DEF Submitting, Active
  <2> QED
    BY <1>3, <1>4, <2>2 DEF RecoverRead
<1>5. CASE ClaimRead
  BY <1>0, <1>3, <1>5, ClaimWrites DEF ClaimRead
<1>6. CASE ExpireRead
  <2>1. PICK j \in Overdue : Open(Worker, RetryTx(j))
    BY <1>6 DEF ExpireRead
  <2>2. Writes(RetryTx(j), {j})
    BY <1>0, <2>1, RetryWrites DEF Overdue, InFlight
  <2> QED
    BY <1>3, <2>1, <2>2
<1> QED
  BY <1>1, <1>2, <1>4, <1>5, <1>6 DEF TickStep

\* So does every step, when there are no callbacks.
LEMMA NextIsAloneStep ==
  ASSUME Hook = {}, TypeOK, Control, AttemptsLeft, [Next]_vars
  PROVE  AloneStep
<1>1. CASE Tick
  BY <1>1, TickIsAloneStep DEF Tick
<1>2. ASSUME NEW c \in Call, CallActs(c)
      PROVE  AloneStep
  <2>0. c \in Proc
    BY WorkerAssumption
  <2>1. CASE CallReturns(c)
    <3>1. CASE UNCHANGED storeVars
      BY <3>1 DEF AloneStep
    <3>2. ASSUME NEW expected, NEW t, Reads(c, expected, t)
          PROVE  AloneStep
      <4>1. CASE job[JobOf(c)].status = expected
        <5>1. Open(c, t) /\ Writes(t, {JobOf(c)}) /\ SubmitsNone(t)
          BY <3>2, <4>1 DEF Reads, ReadThen
        <5> QED
          BY <2>0, <5>1 DEF Writes, AloneStep
      <4>2. CASE job[JobOf(c)].status # expected
        BY <3>1, <3>2, <4>2 DEF Reads, ReadThen
      <4> QED
        BY <4>1, <4>2
    <3> QED
      BY <2>1, <3>1, <3>2, CallReturnsShape
  <2>2. CASE CallCommit(c) \/ CallRollback(c)
    BY <2>0, <2>2 DEF CallCommit, CallRollback, AloneStep, Ends
  <2> QED
    BY <1>2, <2>1, <2>2 DEF CallActs, CallStep
<1>3. ASSUME NEW p \in Client, ClientActs(p)
      PROVE  AloneStep
  BY <1>3, ClientShape, ApiAssumption, SystemAssumption
     DEF AloneStep, Ends, Requested, Lawful
<1>4. CASE \/ Switch \/ UNCHANGED vars
           \/ \E j \in Job, a \in Attempt : Provider(j, a)
  BY <1>4 DEF Switch, vars, Provider, ProviderFinishes, AloneStep
<1>5. CASE \E j \in Job : Wakes(j) \/ Expires(j)
  BY <1>5 DEF Wakes, Expires, AloneStep, Elapses
<1>6. CASE Crash
  BY <1>6 DEF Crash, AloneStep, Restarts
<1> QED
  BY <1>1, <1>2, <1>3, <1>4, <1>5, <1>6 DEF Next

\* A job has one writer.
LEMMA SoleWriter ==
  ASSUME Control, NEW p \in Proc, NEW q \in Proc, NEW j \in Job,
         tx[p].cols[j] # {}, tx[q].cols[j] # {}
  PROVE  p = q
<1>1. /\ tx[p].open /\ tx[q].open
      /\ p = Worker \/ (p \in Call /\ JobOf(p) = j)
      /\ q = Worker \/ (q \in Call /\ JobOf(q) = j)
  BY DEF Control
<1>2. /\ p # Worker => p \in gather /\ phase = "gather"
      /\ q # Worker => q \in gather /\ phase = "gather"
      /\ p = Worker \/ q = Worker => phase # "gather"
  BY <1>1 DEF Control, WritePhases
<1> QED
  BY <1>1, <1>2 DEF Control

\* A committed row is a new job's, or the one there was with the columns that
\* were set.
LEMMA CommitRows ==
  ASSUME TypeOK, NEW p \in Proc, Commit(p), NEW j \in Job
  PROVE  \/ /\ job[j].status = "ABSENT" /\ tx[p].insert.status # "ABSENT"
            /\ j = First(Absent) /\ job'[j] = tx[p].insert
         \/ job'[j] = Merge(job[j], tx[p].set[j], tx[p].cols[j])
<1>1. job'[j] = IF j = NewId(tx[p]) THEN tx[p].insert
                ELSE Merge(job[j], tx[p].set[j], tx[p].cols[j])
  BY DEF Commit, JobsAfter
<1>2. CASE j = NewId(tx[p])
  <2>1. tx[p].insert.status # "ABSENT" /\ j = First(Absent)
    BY <1>2, NoneIsNoJob DEF NewId
  <2>2. Absent # {} /\ Absent \subseteq Job
    BY <2>1 DEF Commit, Absent
  <2>3. j \in Absent
    BY <2>1, <2>2, FirstJob
  <2> QED
    BY <1>1, <1>2, <2>1, <2>3 DEF Absent, Exists
<1> QED
  BY <1>1, <1>2

\* A row nobody set a column of keeps its status and its attempts.
LEMMA Unwritten ==
  ASSUME TypeOK, NEW p \in Proc, Commit(p), NEW j \in Job,
         Exists(j), tx[p].cols[j] = {}
  PROVE  job'[j].status = job[j].status /\ job'[j].attempts = job[j].attempts
<1>1. job[j] \in Row /\ tx[p].set[j] \in Row
  BY DEF TypeOK, StoreTypeOK, Transaction
<1>2. job'[j] = Merge(job[j], tx[p].set[j], {})
  BY CommitRows DEF Exists
<1> QED
  BY <1>1, <1>2, MergeType, MergeColumns

(***************************************************************************)
(* A job's transition, on its row: to a status that follows its own, or a  *)
(* submission that uses an attempt that was left, or its creation.         *)
(***************************************************************************)
Transition(r, s) ==
  \/ s.status = r.status /\ s.attempts = r.attempts
  \/ r.status = "ABSENT" /\ s.status = "QUEUED" /\ s.attempts = 0
  \/ Follows(r, s)
  \/ /\ r.status \in Claimable /\ s.status = "SUBMITTING"
     /\ r.attempts < MaxAttempts /\ s.attempts = r.attempts + 1

\* A lawful merge is a transition.
LEMMA LegalMerge ==
  ASSUME NEW r \in Row, NEW want \in Row, NEW cols \in SUBSET Column,
         cols # {} => Legal(r, want, cols)
  PROVE  Transition(r, Merge(r, want, cols))
<1> DEFINE m == Merge(r, want, cols)
<1>1. /\ m.status = IF "status" \in cols THEN want.status ELSE r.status
      /\ m.attempts = IF "attempts" \in cols THEN want.attempts ELSE r.attempts
  BY MergeType, MergeColumns
<1> HIDE DEF m
<1>2. CASE "status" \notin cols
  <2>1. "attempts" \notin cols
    BY <1>2 DEF Legal
  <2> QED
    BY <1>1, <1>2, <2>1 DEF Transition, m
<1>3. CASE "status" \in cols /\ "attempts" \notin cols
  BY <1>1, <1>3 DEF Transition, m, Legal, Follows
<1>4. CASE "status" \in cols /\ "attempts" \in cols
  BY <1>1, <1>4 DEF Transition, m, Legal
<1> QED
  BY <1>2, <1>3, <1>4

\* What is committed is a transition of every row.
LEMMA CommitTransition ==
  ASSUME TypeOK, Integrity, Fresh, NEW p \in Proc, Commit(p), NEW j \in Job
  PROVE  Transition(job[j], job'[j])
<1>1. /\ job[j] \in Row /\ tx[p].set[j] \in Row
      /\ tx[p].cols[j] \in SUBSET Column
  BY DEF TypeOK, StoreTypeOK, Transaction
<1>2. Lawful(tx[p], job) /\ Sound(tx[p])
  BY DEF Fresh, Integrity
<1>3. CASE job[j].status = "ABSENT" /\ tx[p].insert.status # "ABSENT"
           /\ job'[j] = tx[p].insert
  BY <1>2, <1>3 DEF Lawful, Sound, Transition
<1>4. CASE job'[j] = Merge(job[j], tx[p].set[j], tx[p].cols[j])
  BY <1>1, <1>2, <1>4, LegalMerge DEF Lawful
<1> QED
  BY <1>3, <1>4, CommitRows

\* A transition leaves attempts for a job that waits.
LEMMA TransitionAttempts ==
  ASSUME NEW r \in Row, NEW s \in Row, Transition(r, s),
         r.attempts <= MaxAttempts,
         r.status \in Claimable => r.attempts < MaxAttempts,
         r.status = "ABSENT" => r.attempts = 0
  PROVE  /\ s.attempts <= MaxAttempts
         /\ s.status \in Claimable => s.attempts < MaxAttempts
         /\ s.status = "ABSENT" => s.attempts = 0
<1>1. /\ r.attempts \in Nat /\ s.attempts \in Nat
      /\ MaxAttempts \in Nat /\ MaxAttempts > 0
  BY StoreAssumption DEF Row
<1>2. CASE Follows(r, s)
  BY <1>1, <1>2 DEF Follows, Claimable
<1>3. CASE ~Follows(r, s)
  BY <1>1, <1>3 DEF Transition, Claimable
<1> QED
  BY <1>2, <1>3

\* A step lets a timer run out on a row, commits, or leaves the rows alone.
LEMMA AloneTransition ==
  ASSUME TypeOK, Integrity, Fresh, AloneStep, NEW j \in Job
  PROVE  Transition(job[j], job'[j])
<1>1. CASE \E p \in Proc : Commit(p)
  BY <1>1, CommitTransition
<1>2. CASE Elapses
  <2>1. /\ job'[j].status = job[j].status /\ job'[j].attempts = job[j].attempts
    BY <1>2 DEF Elapses, WakeReached, DeadlineReached, TypeOK, StoreTypeOK, Row
  <2> QED
    BY <2>1 DEF Transition
<1>3. CASE job' = job
  BY <1>3 DEF Transition
<1> QED
  BY <1>1, <1>2, <1>3 DEF AloneStep, Ends, Conflict, LockedOut, Open, Restarts,
     storeVars

\* A pending write stays lawful while the status and the attempts of the jobs
\* it writes do.
LEMMA LawfulKept ==
  ASSUME NEW t, Lawful(t, job),
         \A j \in Job : t.cols[j] # {} =>
           job'[j].status = job[j].status /\ job'[j].attempts = job[j].attempts
  PROVE  Lawful(t, job')
  BY DEF Lawful, Legal

\* So no step makes what is pending unlawful.
LEMMA AloneStepFresh ==
  ASSUME TypeOK, Integrity, Control, Fresh, AttemptsLeft, AloneStep, TypeOK'
  PROVE  Fresh' /\ AttemptsLeft'
<1>0. /\ tx \in [Proc -> Transaction]
      /\ \A q \in Proc : /\ Lawful(tx[q], job)
                         /\ q # Worker => SubmitsNone(tx[q])
                         /\ q \in Call => tx[q].insert.status = "ABSENT"
  BY DEF TypeOK, StoreTypeOK, Fresh
<1>1. AttemptsLeft'
  <2>1. \A j \in Job : job[j] \in Row /\ job'[j] \in Row
    BY DEF TypeOK, StoreTypeOK
  <2>2. \A j \in Job : Transition(job[j], job'[j])
    BY AloneTransition
  <2> QED
    BY <2>1, <2>2, TransitionAttempts DEF AttemptsLeft
<1>2. /\ Lawful(Closed, job') /\ SubmitsNone(Closed)
      /\ Closed.insert.status = "ABSENT"
  BY ClosedWritesNothing DEF Lawful, SubmitsNone, Closed
<1> DEFINE Keeps(q) == /\ Lawful(tx'[q], job')
                       /\ q # Worker => SubmitsNone(tx'[q])
                       /\ q \in Call => tx'[q].insert.status = "ABSENT"
<1>3. ASSUME NEW q \in Proc
      PROVE  Keeps(q)
  <2>1. CASE UNCHANGED <<job, tx>>
    BY <1>0, <2>1, LawfulKept
  <2>2. ASSUME NEW p \in Proc, NEW t \in Transaction, Lawful(t, job), Open(p, t),
               p # Worker => SubmitsNone(t), p \in Call => t.insert.status = "ABSENT"
        PROVE  Keeps(q)
    <3>1. job' = job /\ tx'[q] = IF q = p THEN t ELSE tx[q]
      BY <1>0, <2>2 DEF Open
    <3>2. Lawful(t, job') /\ Lawful(tx[q], job')
      BY <1>0, <2>2, <3>1, LawfulKept
    <3> QED
      BY <1>0, <2>2, <3>1, <3>2
  <2>3. ASSUME NEW p \in Proc, Commit(p)
        PROVE  Keeps(q)
    <3>1. CASE q = p
      BY <1>0, <1>2, <2>3, <3>1, EndCloses
    <3>2. CASE q # p
      <4>1. tx'[q] = tx[q]
        BY <1>0, <2>3, <3>2, EndCloses
      <4>2. ASSUME NEW j \in Job, tx[q].cols[j] # {}
            PROVE  job'[j].status = job[j].status /\ job'[j].attempts = job[j].attempts
        <5>1. tx[p].cols[j] = {}
          BY <3>2, <4>2, SoleWriter
        <5>2. Exists(j)
          BY <1>0, <4>2 DEF Lawful, Legal, Exists, Active, InFlight, Claimable
        <5> QED
          BY <2>3, <5>1, <5>2, Unwritten
      <4> QED
        BY <1>0, <4>1, <4>2, LawfulKept
    <3> QED
      BY <3>1, <3>2
  <2>4. ASSUME NEW p \in Proc, Conflict(p) \/ LockedOut(p)
        PROVE  Keeps(q)
    <3>1. job' = job /\ tx'[q] \in {Closed, tx[q]}
      BY <1>0, <2>4 DEF Conflict, LockedOut
    <3> QED
      BY <1>0, <1>2, <3>1, LawfulKept
  <2>5. CASE Elapses
    <3>1. /\ tx' = tx
          /\ \A j \in Job : /\ job'[j].status = job[j].status
                            /\ job'[j].attempts = job[j].attempts
      BY <2>5 DEF Elapses, WakeReached, DeadlineReached, TypeOK, StoreTypeOK, Row
    <3> QED
      BY <1>0, <3>1, LawfulKept
  <2>6. CASE Restarts
    BY <1>2, <2>6 DEF Restarts
  <2> QED
    BY <2>1, <2>2, <2>3, <2>4, <2>5, <2>6 DEF AloneStep, Ends, storeVars
<1> QED
  BY <1>1, <1>3 DEF Fresh

----------------------------------------------------------------------------
(***************************************************************************)
(* What the tick is about to submit.                                       *)
(***************************************************************************)
\* The requests are those of a claim that was just read, or those there were,
\* or none.
LEMMA RequestsShape ==
  ASSUME Hook = {}, TypeOK, Control, Claiming, AttemptsLeft, [Next]_vars
  PROVE  \/ Requests' = {}
         \/ /\ phase' = phase /\ tx'[Worker] = tx[Worker] /\ Requests' = Requests
            /\ Requests # {}
            /\ \/ UNCHANGED <<storeVars, workerVars>> \/ \E j \in Job : Wakes(j) \/ Expires(j)
               \/ \E j \in Job, a \in Attempt : Provider(j, a)
               \/ \E p \in Client : ClientActs(p)
         \/ ClaimRead
<1>0. /\ StoreTypeOK /\ Worker \in Proc /\ Worker \notin Call
      /\ tx \in [Proc -> Transaction]
  BY WorkerAssumption DEF TypeOK, StoreTypeOK
<1>1. ASSUME tx'[Worker] = Closed
      PROVE  Requests' = {}
  BY <1>1, ClosedWritesNothing DEF Requests
<1>2. ASSUME NEW t, SubmitsNone(t), Open(Worker, t)
      PROVE  Requests' = {}
  <2>1. tx'[Worker] = t
    BY <1>0, <1>2 DEF Open
  <2> QED
    BY <1>2, <2>1 DEF Requests, SubmitsNone
<1>3. ASSUME tx'[Worker] = tx[Worker]
      PROVE  Requests' = Requests
  BY <1>3 DEF Requests
<1>4. phase # "claiming" => Requests = {}
  BY DEF Claiming
<1>5. CASE Tick
  <2>1. CASE \/ RecoverCommit \/ ClaimCommit \/ ClaimOnlyOrphans
             \/ ExpireCommit \/ WorkerRollback
    <3>1. Commit(Worker) \/ Conflict(Worker) \/ LockedOut(Worker)
      BY <2>1 DEF RecoverCommit, ClaimCommit, ClaimOnlyOrphans,
         ExpireCommit, WorkerRollback
    <3> QED
      BY <1>0, <1>1, <3>1, EndCloses
  <2>2. CASE \/ NothingToRecover \/ NothingToClaim \/ NothingToExpire
             \/ NothingToPoll \/ PollStart
    <3>1. phase # "claiming" /\ tx' = tx
      BY <2>2 DEF NothingToRecover, NothingToClaim, NothingToExpire,
         NothingToPoll, PollStart, storeVars
    <3> QED
      BY <1>3, <1>4, <3>1
  <2>3. CASE RecoverRead
    <3>1. First(Submitting) \in Submitting /\ First(Submitting) \in Job
      BY <2>3, FirstJob DEF RecoverRead, Submitting
    <3>2. SubmitsNone(FailTx(First(Submitting)))
      BY <1>0, <3>1, FailWrites DEF Submitting, Active
    <3> QED
      BY <1>2, <2>3, <3>2 DEF RecoverRead
  <2>4. CASE ExpireRead
    <3>1. PICK j \in Overdue : Open(Worker, RetryTx(j))
      BY <2>4 DEF ExpireRead
    <3>2. SubmitsNone(RetryTx(j))
      BY <1>0, <3>1, RetryWrites DEF Overdue, InFlight
    <3> QED
      BY <1>2, <3>1, <3>2
  <2> QED
    BY <1>5, <2>1, <2>2, <2>3, <2>4 DEF Tick, TickStep
<1>6. ASSUME NEW c \in Call, CallActs(c)
      PROVE  Requests' = {}
  <2>1. c \in Proc /\ c # Worker
    BY <1>0, WorkerAssumption
  <2>2. tx'[Worker] = tx[Worker]
    <3>1. CASE CallReturns(c)
      <4>1. ASSUME NEW t, Open(c, t)
            PROVE  tx'[Worker] = tx[Worker]
        BY <1>0, <2>1, <4>1 DEF Open
      <4>2. UNCHANGED storeVars => tx'[Worker] = tx[Worker]
        BY DEF storeVars
      <4> QED
        BY <3>1, <4>1, <4>2, CallReturnsShape DEF Reads, ReadThen
    <3>2. CASE CallCommit(c) \/ CallRollback(c)
      BY <1>0, <2>1, <3>2, EndCloses DEF CallCommit, CallRollback
    <3> QED
      BY <1>6, <3>1, <3>2 DEF CallActs, CallStep
  <2>3. c \in gather
    <3>1. CASE CallReturns(c)
      BY <3>1, CallReturnsShape DEF Control, Out
    <3>2. CASE CallCommit(c) \/ CallRollback(c)
      BY <2>1, <3>2, EndCloses DEF CallCommit, CallRollback, Control
    <3> QED
      BY <1>6, <3>1, <3>2 DEF CallActs, CallStep
  <2>4. phase # "claiming"
    BY <2>3 DEF Control
  <2> QED
    BY <1>3, <1>4, <2>2, <2>4
<1>7. ASSUME NEW p \in Client, ClientActs(p)
      PROVE  tx'[Worker] = tx[Worker] /\ phase' = phase
  <2>1. p \in Proc /\ p # Worker
    BY ApiAssumption, SystemAssumption
  <2>2. ASSUME NEW t, Open(p, t)
        PROVE  tx'[Worker] = tx[Worker]
    BY <1>0, <2>1, <2>2 DEF Open
  <2>3. UNCHANGED storeVars => tx'[Worker] = tx[Worker]
    BY DEF storeVars
  <2>4. Commit(p) \/ Conflict(p) \/ LockedOut(p) => tx'[Worker] = tx[Worker]
    BY <1>0, <2>1, EndCloses
  <2> QED
    BY <1>7, <2>2, <2>3, <2>4, ClientShape DEF workerVars
<1>8. CASE \/ Switch \/ UNCHANGED vars
  <2>1. UNCHANGED <<storeVars, workerVars>>
    BY <1>8 DEF Switch, vars
  <2>2. tx'[Worker] = tx[Worker] /\ phase' = phase
    BY <2>1 DEF storeVars, workerVars
  <2> QED
    BY <1>3, <2>1, <2>2
<1>9. CASE \/ \E j \in Job : Wakes(j) \/ Expires(j)
           \/ \E j \in Job, a \in Attempt : Provider(j, a)
  <2>1. tx'[Worker] = tx[Worker] /\ phase' = phase
    BY <1>9 DEF Wakes, Expires, Provider, WakeReached,
       DeadlineReached, ProviderFinishes, workerVars, storeVars
  <2> QED
    BY <1>3, <1>9, <2>1
<1>10. CASE Crash
  BY <1>0, <1>1, <1>10 DEF Crash
<1> QED
  BY <1>3, <1>5, <1>6, <1>7, <1>8, <1>9, <1>10 DEF Next

\* A claim is made in its phase, and counts each submission.
LEMMA ClaimingStep ==
  ASSUME Hook = {}, TypeOK, Control, Claiming, AttemptsLeft, [Next]_vars
  PROVE  Claiming'
<1>0. StoreTypeOK /\ Worker \in Proc /\ tx \in [Proc -> Transaction]
  BY WorkerAssumption DEF TypeOK, StoreTypeOK
<1>1. CASE Requests' = {}
  BY <1>1 DEF Claiming
<1>2. CASE phase' = phase /\ tx'[Worker] = tx[Worker] /\ Requests' = Requests
  BY <1>2 DEF Claiming
<1>3. CASE ClaimRead
  <2>1. tx'[Worker] = ClaimTx /\ phase' = "claiming"
    BY <1>0, <1>3 DEF ClaimRead, Open, Goto
  <2> QED
    BY <1>0, <1>3, <2>1, ClaimWrites DEF Claiming, Requests, ClaimRead
<1> QED
  BY <1>1, <1>2, <1>3, RequestsShape

----------------------------------------------------------------------------
(***************************************************************************)
(* How many.                                                               *)
(***************************************************************************)
\* A set of jobs is finite, and its size a natural number.
LEMMA JobsFinite ==
  ASSUME NEW S \in SUBSET Job
  PROVE  IsFiniteSet(S) /\ Cardinality(S) \in Nat
<1>1. IsFiniteSet(Job)
  BY StoreAssumption, FS_Interval DEF Job
<1>2. IsFiniteSet(S)
  BY <1>1, FS_Subset
<1> QED
  BY <1>2, FS_CardinalityType

\* Fewer jobs count for less.
LEMMA JobsCount ==
  ASSUME NEW T \in SUBSET Job, NEW S \in SUBSET T
  PROVE  Cardinality(S) <= Cardinality(T)
<1>1. IsFiniteSet(T)
  BY JobsFinite
<1> QED
  BY <1>1, FS_Subset

\* Of some jobs there is a last.
LEMMA LastJob ==
  ASSUME NEW S \in SUBSET Job, S # {}
  PROVE  \E m \in S : \A k \in S : k <= m
<1> DEFINE T == {MaxJobs - k : k \in S}
<1>0. \A k \in S : k \in Nat /\ MaxJobs - k \in Nat
  BY StoreAssumption DEF Job
<1>1. T \subseteq Nat /\ T # {}
  BY <1>0
<1>2. First(T) \in T /\ \A k \in T : First(T) <= k
  BY <1>1, FirstIn
<1>3. PICK m \in S : First(T) = MaxJobs - m
  BY <1>2
<1>4. ASSUME NEW k \in S
      PROVE  k <= m
  <2>1. MaxJobs - m <= MaxJobs - k
    BY <1>2, <1>3
  <2> QED
    BY <2>1, StoreAssumption DEF Job
<1> QED
  BY <1>4

\* Jobs that count for one at most are the same job.
LEMMA OneAtMost ==
  ASSUME NEW S \in SUBSET Job, Cardinality(S) <= 1, NEW i \in S, NEW j \in S
  PROVE  i = j
<1> SUFFICES ASSUME i # j PROVE FALSE
  OBVIOUS
<1>0. IsFiniteSet({i}) /\ Cardinality({i}) = 1
  BY FS_Singleton
<1>1. Cardinality({i} \cup {j}) = 2
  BY <1>0, FS_AddElement
<1>2. Cardinality({i} \cup {j}) <= Cardinality(S)
  BY JobsCount
<1>3. Cardinality(S) \in Nat
  BY JobsFinite
<1> QED
  BY <1>1, <1>2, <1>3

\* The budget is what the jobs in flight leave.
LEMMA BudgetType ==
  /\ Cardinality(InFlightJobs) \in Nat /\ Budget \in Nat /\ Budget <= Concurrency
  /\ Budget # 0 => Cardinality(InFlightJobs) + Budget = Concurrency
<1>1. Cardinality(InFlightJobs) \in Nat
  BY JobsFinite DEF InFlightJobs
<1> QED
  BY <1>1, WorkerAssumption DEF Budget

\* A walk over the due jobs never submits more than the budget, however many
\* it skips.
LEMMA WalkWithinBudget ==
  ASSUME NEW ready, ready = {j \in Visited : Ready(j)}
  PROVE  /\ Cardinality(ready) \in Nat /\ Cardinality(ready) <= Budget
         /\ Budget = 0 => ready = {}
<1>1. ready \in SUBSET Job /\ Visited \subseteq Due /\ Due \subseteq Job
  BY DEF Visited, Due
<1>2. Cardinality(ready) \in Nat /\ IsFiniteSet(ready)
  BY <1>1, JobsFinite
<1>3. CASE ready = {}
  BY <1>3, FS_EmptySet, BudgetType
<1>4. CASE ready # {}
  <2>1. PICK m \in ready : \A k \in ready : k <= m
    BY <1>1, <1>4, LastJob
  <2> DEFINE before == {k \in Due : k < m /\ Ready(k)}
  <2>2. ready \ {m} \in SUBSET before /\ before \in SUBSET Job
    <3>1. ASSUME NEW k \in ready \ {m}
          PROVE  k \in before
      <4>1. k \in Due /\ Ready(k) /\ k \in Int /\ m \in Int
        BY <1>1, <2>1 DEF Job
      <4> QED
        BY <2>1, <4>1
    <3> QED
      BY <1>1, <3>1
  <2>3. Cardinality(before) < Budget
    BY <2>1 DEF Visited
  <2> HIDE DEF before
  <2>4. Cardinality(ready \ {m}) <= Cardinality(before)
    BY <2>2, JobsCount
  <2>5. Cardinality(ready \ {m}) = Cardinality(ready) - 1
    BY <1>2, <2>1, FS_RemoveElement
  <2>6. Cardinality(before) \in Nat
    BY <2>2, JobsFinite
  <2> QED
    BY <1>2, <2>3, <2>4, <2>5, <2>6, BudgetType
<1> QED
  BY <1>2, <1>3, <1>4

----------------------------------------------------------------------------
(***************************************************************************)
(* Nobody is detached.                                                     *)
(***************************************************************************)
\* The calls the tick waits for get fewer, or it starts new ones.
LEMMA OneCallStep ==
  ASSUME Hook = {}, TypeOK, Control, Claiming, AttemptsLeft, OneCall, [Next]_vars
  PROVE  OneCall'
<1> SUFFICES ASSUME Concurrency <= 1
             PROVE  /\ \A c, d \in gather' : c = d
                    /\ \A i, j \in Requests' : i = j
  BY DEF OneCall
<1>0. /\ \A c, d \in gather : c = d
      /\ \A i, j \in Requests : i = j
      /\ StoreTypeOK /\ Worker \in Proc /\ tx \in [Proc -> Transaction]
  BY WorkerAssumption DEF OneCall, TypeOK, StoreTypeOK
<1>1. \A i, j \in Requests' : i = j
  <2>1. CASE ClaimRead
    <3> DEFINE ready == {j \in Visited : Ready(j)}
    <3>1. tx'[Worker] = ClaimTx
      BY <1>0, <2>1 DEF ClaimRead, Open
    <3>2. Requests' \subseteq ready /\ ready \in SUBSET Job
      BY <1>0, <2>1, <3>1, ClaimWrites DEF ClaimRead, Requests, Visited, Due
    <3> HIDE DEF ready
    <3>3. Cardinality(ready) <= 1 /\ Cardinality(ready) \in Nat
      <4>1. /\ Cardinality(ready) \in Nat /\ Cardinality(ready) <= Budget
            /\ Budget \in Nat /\ Budget <= Concurrency /\ Concurrency \in Nat
        BY WalkWithinBudget, BudgetType, WorkerAssumption DEF ready
      <4> QED
        BY <4>1
    <3> QED
      BY <3>2, <3>3, OneAtMost
  <2> QED
    BY <1>0, <2>1, RequestsShape
<1>2. CASE ClaimCommit
  <2> DEFINE attempt == [j \in Job |-> tx[Worker].set[j].attempts]
  <2>1. /\ attempt \in [Job -> Nat \cup {None}]
        /\ \A j \in Requests : attempt[j] # None
        /\ Requests \in SUBSET Job
    BY <1>0, StoreAssumption DEF Transaction, Row, Requests
  <2>2. Gather("submit", Requests, attempt) /\ Out = {}
    BY <1>2 DEF ClaimCommit, Control
  <2> HIDE DEF attempt
  <2>3. /\ \A c, d \in gather' : JobOf(c) = JobOf(d) => c = d
        /\ \A c \in gather' : JobOf(c) \in Requests
    BY <2>1, <2>2, GatherShape
  <2> QED
    BY <1>0, <1>1, <2>3
<1>3. CASE PollStart
  <2> DEFINE attempt == [j \in Job |-> job[j].task]
  <2>1. PICK polled \in SUBSET PollDue :
          Gather("poll", polled, attempt) /\ Cardinality(polled) <= Concurrency
    BY <1>3 DEF PollStart
  <2>2. /\ attempt \in [Job -> Nat \cup {None}]
        /\ \A j \in polled : attempt[j] # None
        /\ polled \in SUBSET Job /\ Out = {}
    BY <1>0, <1>3 DEF StoreTypeOK, Row, PollDue, Control, PollStart
  <2> HIDE DEF attempt
  <2>3. /\ \A c, d \in gather' : JobOf(c) = JobOf(d) => c = d
        /\ \A c \in gather' : JobOf(c) \in polled
    BY <2>1, <2>2, GatherShape
  <2>4. Cardinality(polled) <= 1
    BY <2>1, <2>2, JobsFinite, WorkerAssumption
  <2>5. \A i, j \in polled : i = j
    BY <2>2, <2>4, OneAtMost
  <2> QED
    BY <1>1, <2>3, <2>5
<1>4. CASE ~ClaimCommit /\ ~PollStart
  <2>1. ASSUME TickStep
        PROVE  gather' = gather
    BY <1>4, <2>1 DEF TickStep, Goto, NothingToRecover, RecoverRead,
       RecoverCommit, NothingToClaim, ClaimRead, ClaimOnlyOrphans,
       NothingToExpire, ExpireRead, ExpireCommit, NothingToPoll, WorkerRollback
  <2>2. ASSUME NEW c \in Call, CallStep(c)
        PROVE  gather' \subseteq gather
    <3>1. UNCHANGED gather \/ CallEnds(c) \/ CallRaises(c)
      BY <2>2, CallReturnsShape
         DEF CallStep, CallCommit, CallRollback, Reads, ReadThen
    <3> QED
      BY <3>1 DEF CallEnds, CallRaises
  <2>3. gather' \subseteq gather
    BY <2>1, <2>2, ClientShape
       DEF Next, Tick, CallActs, Switch, Wakes, Expires, Provider,
           ProviderFinishes, Crash, vars, workerVars
  <2> QED
    BY <1>0, <1>1, <2>3
<1> QED
  BY <1>2, <1>3, <1>4

\* No index refuses what a call commits: it makes no row active, gives none
\* another version, and an artifact only to a job that was processing.
LEMMA CallAccepted ==
  ASSUME TypeOK, Integrity, Fresh, NoRefusal, NEW c \in Call
  PROVE  Accepted(tx[c])
<1> DEFINE t == tx[c]
<1>1. /\ c \in Proc /\ t \in Transaction /\ artifact \subseteq Job
      /\ \A j \in Job : /\ job[j] \in Row /\ t.set[j] \in Row
                        /\ t.cols[j] \in SUBSET Column
  BY WorkerAssumption DEF TypeOK, StoreTypeOK, Transaction
<1>2. Lawful(t, job) /\ t.insert.status = "ABSENT"
  BY <1>1 DEF Fresh
<1> HIDE DEF t
<1>3. ASSUME NEW j \in Job
      PROVE  JobsAfter(t)[j] = Merge(job[j], t.set[j], t.cols[j])
  BY <1>2, NoneIsNoJob DEF JobsAfter, NewId
<1>4. ASSUME NEW j \in Job
      PROVE  /\ JobsAfter(t)[j].cut = job[j].cut /\ JobsAfter(t)[j].kind = job[j].kind
             /\ JobsAfter(t)[j].version = job[j].version
             /\ JobsAfter(t)[j].status \in Active => job[j].status \in Active
             /\ JobsAfter(t)[j].status # "ABSENT" => job[j].status # "ABSENT"
  <2> DEFINE m == Merge(job[j], t.set[j], t.cols[j])
  <2>1. /\ m.cut = job[j].cut /\ m.kind = job[j].kind /\ m.version = job[j].version
        /\ m.status = IF "status" \in t.cols[j] THEN t.set[j].status ELSE job[j].status
    BY <1>1, MergeType, MergeColumns
  <2> HIDE DEF m
  <2>2. t.cols[j] # {} => Legal(job[j], t.set[j], t.cols[j])
    BY <1>2 DEF Lawful
  <2>3. /\ m.status \in Active => job[j].status \in Active
        /\ m.status # "ABSENT" => job[j].status # "ABSENT"
    BY <2>1, <2>2 DEF Legal, Active, InFlight, Claimable
  <2> QED
    BY <1>3, <2>1, <2>3 DEF m
<1>5. ActiveIndexHolds(JobsAfter(t))
  BY <1>4 DEF ActiveIndexHolds, Integrity, OneActiveJob
<1>6. VersionIndexHolds(JobsAfter(t))
  BY <1>4 DEF VersionIndexHolds, NoRefusal
<1>7. ArtifactIndexHolds(t)
  <2>1. CASE t.artifact = None
    BY <1>1, <2>1, NoneIsNoJob DEF ArtifactIndexHolds
  <2>2. CASE t.artifact # None
    <3>1. t.artifact \in Job
      BY <1>1, <2>2 DEF t, Transaction
    <3>2. job[t.artifact].status = "PROCESSING"
      BY <1>2, <2>2, <3>1 DEF Lawful, Legal
    <3> QED
      BY <3>2 DEF NoRefusal, ArtifactIndexHolds
  <2> QED
    BY <2>1, <2>2
<1> QED
  BY <1>5, <1>6, <1>7 DEF Accepted, t

\* A call is out while it can be back, and while it commits.
LEMMA CallIsOut ==
  ASSUME TypeOK, Control, NEW c \in Call, CallStep(c)
  PROVE  c \in gather
<1>1. c \in Proc
  BY CallJob
<1>2. CASE CallReturns(c)
  BY <1>2, CallReturnsShape DEF Control, Out
<1>3. CASE CallCommit(c) \/ CallRollback(c)
  BY <1>1, <1>3, EndCloses DEF CallCommit, CallRollback, Control
<1> QED
  BY <1>2, <1>3 DEF CallStep

\* No call raises while another is out.
LEMMA RaisesAlone ==
  ASSUME WorkerAlone, TypeOK, Integrity, Control, Fresh, OneCall, NoRefusal, Routed,
         NEW c \in Call, CallStep(c), CallRaises(c)
  PROVE  gather = {c}
<1>1. c \in gather
  BY CallIsOut
<1>2. CASE Concurrency <= 1
  BY <1>1, <1>2 DEF OneCall
<1>3. CASE NothingRaises
  <2>1. CASE CallReturns(c)
    <3>1. Routable(JobOf(c))
      BY <1>3 DEF Routed, Routable, Available
    <3>2. PICK expected, t : Reads(c, expected, t)
      BY <2>1, <3>1, CallReturnsShape
    <3>3. CASE job[JobOf(c)].status = expected
      <4>1. call' = call
        BY <3>2, <3>3 DEF Reads, ReadThen
      <4>2. call[c] # None /\ call'[c] = None
        BY <1>1 DEF CallRaises, Control, Out, TypeOK, WorkerTypeOK
      <4> QED
        BY <4>1, <4>2
    <3>4. CASE job[JobOf(c)].status # expected
      <4>1. CallEnds(c)
        BY <3>2, <3>4 DEF Reads, ReadThen
      <4>2. gather' = {} /\ gather' = gather \ {c}
        BY <1>1, <4>1 DEF CallEnds, CallRaises
      <4> QED
        BY <1>1, <4>2
    <3> QED
      BY <3>3, <3>4
  <2>2. CASE CallCommit(c)
    <3>1. gather' = {} /\ gather' = gather \ {c}
      BY <1>1, <2>2 DEF CallCommit, CallEnds, CallRaises
    <3> QED
      BY <1>1, <3>1
  <2>3. CASE CallRollback(c)
    BY <1>3, <2>3, CallAccepted DEF CallRollback, NothingRaises, Conflict
  <2> QED
    BY <2>1, <2>2, <2>3 DEF CallStep
<1> QED
  BY <1>2, <1>3 DEF WorkerAlone

\* So no step leaves a call detached.
LEMMA NoneDetachedStep ==
  ASSUME WorkerAlone, TypeOK, Integrity, Control, Fresh, OneCall, NoRefusal, Routed,
         [Next]_vars
  PROVE  NoneDetached'
<1>0. Out = gather /\ StoreTypeOK /\ tx[Worker] \in Transaction
  BY WorkerAssumption DEF Control, TypeOK, StoreTypeOK
<1>1. CASE UNCHANGED <<gather, call>>
  BY <1>0, <1>1 DEF NoneDetached, Out
<1>2. CASE ClaimCommit
  <2> DEFINE attempt == [j \in Job |-> tx[Worker].set[j].attempts]
  <2>1. /\ attempt \in [Job -> Nat \cup {None}]
        /\ \A j \in Requests : attempt[j] # None
        /\ Requests \in SUBSET Job
    BY <1>0, StoreAssumption DEF Transaction, Row, Requests
  <2>2. Gather("submit", Requests, attempt) /\ Out = {}
    BY <1>2 DEF ClaimCommit, Control
  <2> HIDE DEF attempt
  <2> QED
    BY <2>1, <2>2, GatherShape DEF NoneDetached
<1>3. CASE PollStart
  <2> DEFINE attempt == [j \in Job |-> job[j].task]
  <2>1. PICK polled \in SUBSET PollDue : Gather("poll", polled, attempt)
    BY <1>3 DEF PollStart
  <2>2. /\ attempt \in [Job -> Nat \cup {None}]
        /\ \A j \in polled : attempt[j] # None
        /\ polled \in SUBSET Job /\ Out = {}
    BY <1>0, <1>3 DEF StoreTypeOK, Row, PollDue, Control, PollStart
  <2> HIDE DEF attempt
  <2> QED
    BY <2>1, <2>2, GatherShape DEF NoneDetached
<1>4. ASSUME NEW c \in Call, CallStep(c)
      PROVE  NoneDetached'
  <2>1. c \in gather
    BY <1>4, CallIsOut
  <2>2. UNCHANGED <<gather, call>> \/ CallEnds(c) \/ CallRaises(c)
    BY <1>4, CallReturnsShape DEF CallStep, CallCommit, CallRollback, Reads, ReadThen
  <2>3. CASE CallEnds(c)
    BY <2>1, <2>3, CallEndsShape DEF NoneDetached
  <2>4. CASE CallRaises(c)
    <3>1. gather = {c}
      BY <1>4, <2>4, RaisesAlone
    <3>2. \A d \in Call : call'[d] = IF d = c THEN None ELSE call[d]
      BY <2>4 DEF CallRaises, TypeOK, WorkerTypeOK
    <3> QED
      BY <1>0, <3>1, <3>2 DEF NoneDetached, Out
  <2> QED
    BY <1>1, <2>2, <2>3, <2>4
<1>5. CASE Crash
  BY <1>5 DEF Crash, NoneDetached, Out
<1>6. CASE TickStep
  BY <1>1, <1>2, <1>3, <1>6 DEF TickStep, Goto, NothingToRecover, RecoverRead,
     RecoverCommit, NothingToClaim, ClaimRead, ClaimOnlyOrphans,
     NothingToExpire, ExpireRead, ExpireCommit, NothingToPoll, WorkerRollback
<1>7. CASE \/ Switch \/ UNCHANGED vars
           \/ \E j \in Job : Wakes(j) \/ Expires(j)
           \/ \E j \in Job, a \in Attempt : Provider(j, a)
  BY <1>1, <1>7 DEF Switch, vars, Wakes, Expires, Provider, ProviderFinishes,
     workerVars
<1>8. ASSUME NEW p \in Client, ClientActs(p)
      PROVE  NoneDetached'
  BY <1>1, <1>8, ClientShape DEF workerVars
<1> QED
  BY <1>4, <1>5, <1>6, <1>7, <1>8 DEF Next, Tick, CallActs, WorkerAlone

\* An artifact stays with a job that succeeded.
LEMMA NoRefusalStep ==
  ASSUME TypeOK, Integrity, Fresh, NoRefusal, AloneStep, TypeOK'
  PROVE  NoRefusal'
<1>1. ASSUME NEW p \in Proc, Commit(p)
      PROVE  NoRefusal'
  <2> DEFINE t == tx[p]
  <2>1. VersionIndexHolds(job')
    BY <1>1 DEF Commit, Accepted
  <2>2. ASSUME NEW j \in artifact'
        PROVE  job'[j].status = "SUCCEEDED"
    <3>0. /\ j \in Job /\ Lawful(t, job) /\ t \in Transaction
          /\ job[j] \in Row /\ t.set[j] \in Row /\ t.cols[j] \in SUBSET Column
      BY <2>2 DEF Fresh, TypeOK, StoreTypeOK, Transaction
    <3>1. CASE j \in artifact
      <4>1. Transition(job[j], job'[j]) /\ job[j].status = "SUCCEEDED"
        BY <1>1, <3>0, <3>1, CommitTransition DEF NoRefusal
      <4> QED
        BY <4>1 DEF Transition, Follows, Active, InFlight, Claimable
    <3>2. CASE j \notin artifact
      <4>1. t.artifact = j /\ j # None
        BY <1>1, <2>2, <3>0, <3>2, NoneIsNoJob DEF Commit
      <4>2. /\ "status" \in t.cols[j] /\ t.set[j].status = "SUCCEEDED"
            /\ job[j].status # "ABSENT"
        BY <3>0, <4>1 DEF Lawful, Legal, Active, InFlight, Claimable
      <4>3. job'[j] = Merge(job[j], t.set[j], t.cols[j])
        BY <1>1, <3>0, <4>2, CommitRows
      <4> QED
        BY <3>0, <4>2, <4>3, MergeType
    <3> QED
      BY <3>1, <3>2
  <2> QED
    BY <2>1, <2>2 DEF NoRefusal
<1>2. CASE Elapses
  <2>1. /\ artifact' = artifact
        /\ \A j \in Job : /\ job'[j].status = job[j].status
                          /\ job'[j].cut = job[j].cut /\ job'[j].kind = job[j].kind
                          /\ job'[j].version = job[j].version
    BY <1>2 DEF Elapses, WakeReached, DeadlineReached, TypeOK, StoreTypeOK, Row
  <2>2. VersionIndexHolds(job')
    BY <2>1 DEF NoRefusal, VersionIndexHolds
  <2>3. artifact \subseteq Job
    BY DEF TypeOK, StoreTypeOK
  <2> QED
    BY <2>1, <2>2, <2>3 DEF NoRefusal
<1>3. CASE UNCHANGED <<job, artifact>>
  BY <1>3 DEF NoRefusal, VersionIndexHolds
<1> QED
  BY <1>1, <1>2, <1>3 DEF AloneStep, Ends, Conflict, LockedOut, Open, Restarts,
     storeVars

\* When live mode is always configured it is always there.
LEMMA RoutedStep ==
  ASSUME Routed, [Next]_vars
  PROVE  Routed'
<1>1. live' = live \/ live' \in LiveOptions
  BY DEF Next, Tick, CallActs, HookActs, ClientActs, Switch, SwitchMode, Wakes,
     Expires, Provider, Crash, RuntimeRestart, vars, runtimeVars
<1> QED
  BY <1>1 DEF Routed, NothingRaises

----------------------------------------------------------------------------
(***************************************************************************)
(* The invariant of a backend whose worker is alone: who runs, who writes  *)
(* what, and why nobody is ever detached.  No part of it is inductive      *)
(* without the others: a pending write stays lawful because its job has no *)
(* other writer, which is because the tick waits for all its calls, which  *)
(* is because no call raises beside another, which needs lawful writes.    *)
(***************************************************************************)
Alone ==
  /\ Control /\ NoneDetached
  /\ Fresh /\ AttemptsLeft
  /\ Claiming /\ OneCall
  /\ NoRefusal /\ Routed

\* It holds at the start.
LEMMA AloneInit ==
  ASSUME WorkerAlone, Init
  PROVE  Alone
<1>0. /\ \A p \in Proc : tx[p] = Closed
      /\ gather = {} /\ Out = {} /\ job = Backlog
      /\ Worker \in Proc /\ Call \subseteq Proc /\ Worker \notin Call
  BY WorkerAssumption DEF Init, StoreInit, WorkerInit, Out
<1>1. Control /\ NoneDetached
  BY <1>0, ClosedWritesNothing DEF Control, NoneDetached
<1>2. Fresh
  BY <1>0, ClosedWritesNothing DEF Fresh, Lawful, SubmitsNone, Closed
<1>3. AttemptsLeft
  BY <1>0, BacklogAssumption DEF AttemptsLeft, NoRow
<1>4. Requests = {}
  BY <1>0, ClosedWritesNothing DEF Requests
<1>5. Claiming /\ OneCall
  BY <1>0, <1>4 DEF Claiming, OneCall
<1>6. NoRefusal
  BY <1>0, BacklogAssumption DEF NoRefusal, VersionIndexHolds, Init, StoreInit
<1>7. Routed
  BY DEF Routed, NothingRaises, Init, RuntimeInit
<1> QED
  BY <1>1, <1>2, <1>3, <1>5, <1>6, <1>7 DEF Alone

\* Every step keeps it.
LEMMA AloneKept ==
  ASSUME WorkerAlone, TypeOK, TypeOK', Integrity, Alone, [Next]_vars
  PROVE  Alone' /\ AloneStep
<1>0. /\ Control /\ NoneDetached /\ Fresh /\ AttemptsLeft
      /\ Claiming /\ OneCall /\ NoRefusal /\ Routed
      /\ Hook = {}
  BY DEF Alone, WorkerAlone
<1>1. AloneStep
  BY <1>0, NextIsAloneStep
<1>2. NoneDetached'
  BY <1>0, NoneDetachedStep
<1>3. Control'
  BY <1>0, <1>2, ControlStep
<1>4. Fresh' /\ AttemptsLeft'
  BY <1>0, <1>1, AloneStepFresh
<1>5. Claiming' /\ OneCall'
  BY <1>0, ClaimingStep, OneCallStep
<1>6. NoRefusal' /\ Routed'
  BY <1>0, <1>1, NoRefusalStep, RoutedStep
<1> QED
  BY <1>1, <1>2, <1>3, <1>4, <1>5, <1>6 DEF Alone

(***************************************************************************)
(* When the worker alone drives the jobs, every behaviour keeps to this:   *)
(* each job has one writer at a time, whose pending write is a documented  *)
(* transition of the row as it is now (app/worker.py run_once).            *)
(***************************************************************************)
THEOREM AlwaysAlone ==
  ASSUME WorkerAlone
  PROVE  Spec => []Alone
<1>1. Init => Alone
  BY AloneInit
<1>2. TypeOK /\ TypeOK' /\ Integrity /\ Alone /\ [Next]_vars => Alone'
  BY AloneKept
<1> QED
  BY <1>1, <1>2, TypeCorrect, AlwaysIntegrity, PTL DEF Spec

(***************************************************************************)
(* No job is submitted more often than GENERATION_MAX_ATTEMPTS, over every *)
(* crash, lost commit and request, when the worker alone drives the jobs:  *)
(* what the claim, _set_retry_or_failure and _fail read is what they       *)
(* overwrite.                                                              *)
(***************************************************************************)
THEOREM AttemptsAreBounded ==
  ASSUME WorkerAlone
  PROVE  Spec => []AttemptBound
<1>1. Alone => AttemptBound
  BY DEF Alone, AttemptsLeft, AttemptBound
<1> QED
  BY <1>1, AlwaysAlone, PTL

(***************************************************************************)
(* A job that ended keeps its status: no write that was decided before it  *)
(* ended is committed afterwards.                                          *)
(***************************************************************************)
THEOREM TerminalStaysFinal ==
  ASSUME WorkerAlone
  PROVE  Spec => TerminalIsFinal
<1> DEFINE Final == \A j \in Job : job[j].status \in Terminal =>
                                     job'[j].status = job[j].status
<1>1. TypeOK /\ TypeOK' /\ Integrity /\ Alone /\ [Next]_vars => [Final]_vars
  <2> SUFFICES ASSUME TypeOK, TypeOK', Integrity, Alone, [Next]_vars,
                      NEW j \in Job, job[j].status \in Terminal
               PROVE  job'[j].status = job[j].status
    OBVIOUS
  <2>1. Transition(job[j], job'[j])
    BY AloneKept, AloneTransition DEF Alone
  <2> QED
    BY <2>1 DEF Transition, Follows, Terminal, Active, InFlight, Claimable
<1> QED
  BY <1>1, AlwaysAlone, TypeCorrect, AlwaysIntegrity, PTL DEF Spec, TerminalIsFinal

(***************************************************************************)
(* The rows of generation_jobs go through the transitions of the abstract  *)
(* lifecycle and no other: the backend implements Lifecycle!Spec, the      *)
(* table of the README, when the worker alone drives the jobs.             *)
(***************************************************************************)
THEOREM RowsFollowLifecycle ==
  ASSUME WorkerAlone
  PROVE  Spec => FollowsLifecycle
<1>1. Init => Documented!Init
  BY DEF Init, StoreInit, Documented!Init
<1>2. TypeOK /\ TypeOK' /\ Integrity /\ Alone /\ Alone' /\ [Next]_vars
        => [Documented!Next]_<<[j \in Job |-> job[j].status],
                               [j \in Job |-> job[j].attempts]>>
  <2> SUFFICES ASSUME TypeOK, TypeOK', Integrity, Alone, Alone', [Next]_vars
               PROVE  Documented!Next
    OBVIOUS
  <2>1. ASSUME NEW j \in Job
        PROVE  /\ job'[j].status \in Documented!Status
               /\ job'[j].attempts \in 0 .. MaxAttempts
    BY StoreAssumption DEF TypeOK, StoreTypeOK, Row, JobStatus, Documented!Status,
       Alone, AttemptsLeft
  <2>2. ASSUME NEW j \in Job
        PROVE  Documented!Step(j)
    <3>1. Transition(job[j], job'[j])
      BY AloneKept, AloneTransition DEF Alone
    <3>2. ASSUME NEW from, NEW to, job[j].status \in from, job'[j].status = to,
                 job'[j].attempts = job[j].attempts
          PROVE  Documented!Moves(j, from, to)
      BY <3>2 DEF Documented!Moves
    <3>3. CASE job'[j].status = job[j].status /\ job'[j].attempts = job[j].attempts
      BY <3>3 DEF Documented!Step, Documented!Stay
    <3>4. CASE job[j].status = "ABSENT" /\ job'[j].status = "QUEUED"
               /\ job'[j].attempts = 0
      <4>1. job[j].attempts = 0
        BY <3>4 DEF Alone, AttemptsLeft
      <4> QED
        BY <3>2, <3>4, <4>1 DEF Documented!Step, Documented!Create
    <3>5. CASE Follows(job[j], job'[j])
      <4>1. job'[j].attempts = job[j].attempts
        BY <3>5 DEF Follows
      <4>2. CASE job[j].status \in Claimable /\ job'[j].status = "FAILED"
        BY <3>2, <4>1, <4>2 DEF Claimable, Documented!Step, Documented!LoseSource
      <4>3. CASE job[j].status \in InFlight /\ job'[j].status = "FAILED"
        BY <3>2, <4>1, <4>3 DEF InFlight, Documented!Step, Documented!Fail
      <4>4. CASE /\ job[j].status \in InFlight /\ job'[j].status = "RETRY_WAIT"
                 /\ job[j].attempts < MaxAttempts
        BY <3>2, <4>1, <4>4 DEF InFlight, Documented!Step, Documented!Retry
      <4>5. CASE job[j].status = "SUBMITTING" /\ job'[j].status = "PROCESSING"
        BY <3>2, <4>1, <4>5 DEF Documented!Step, Documented!Accept
      <4>6. CASE job[j].status = "PROCESSING" /\ job'[j].status = "SUCCEEDED"
        BY <3>2, <4>1, <4>6 DEF Documented!Step, Documented!Succeed
      <4> QED
        BY <3>3, <3>5, <4>2, <4>3, <4>4, <4>5, <4>6
           DEF Follows, Active, InFlight, Claimable
    <3>6. CASE /\ job[j].status \in Claimable /\ job'[j].status = "SUBMITTING"
               /\ job[j].attempts < MaxAttempts
               /\ job'[j].attempts = job[j].attempts + 1
      BY <3>6 DEF Claimable, Documented!Step, Documented!Submit
    <3> QED
      BY <3>1, <3>3, <3>4, <3>5, <3>6 DEF Transition
  <2> QED
    BY <2>1, <2>2 DEF Documented!Next
<1> QED
  BY <1>1, <1>2, AlwaysAlone, TypeCorrect, AlwaysIntegrity, PTL
     DEF Spec, FollowsLifecycle, Documented!Spec

----------------------------------------------------------------------------
(***************************************************************************)
(* What is known of the submissions.                                       *)
(***************************************************************************)
Uncertain(j, a) == ledger[j][a] \in {"sent", "lost"}

\* A row whose pending status writes all fail it, if any, fails or stays.
LEMMA FailsOrStays ==
  ASSUME TypeOK, Integrity, Fresh, AloneStep, NEW j \in Job,
         job[j].status \in {"SUBMITTING", "FAILED"},
         \A p \in Proc : "status" \in tx[p].cols[j] => tx[p].set[j].status = "FAILED"
  PROVE  /\ job'[j].status \in {"SUBMITTING", "FAILED"}
         /\ job'[j].attempts = job[j].attempts
<1>1. ASSUME NEW p \in Proc, Commit(p)
      PROVE  /\ job'[j].status \in {"SUBMITTING", "FAILED"}
             /\ job'[j].attempts = job[j].attempts
  <2>1. CASE tx[p].cols[j] = {}
    BY <1>1, <2>1, Unwritten DEF Exists
  <2>2. CASE tx[p].cols[j] # {}
    <3>1. /\ job[j] \in Row /\ tx[p].set[j] \in Row
          /\ tx[p].cols[j] \in SUBSET Column
          /\ Legal(job[j], tx[p].set[j], tx[p].cols[j])
      BY <2>2 DEF TypeOK, StoreTypeOK, Transaction, Fresh, Lawful
    <3>2. /\ "status" \in tx[p].cols[j] /\ tx[p].set[j].status = "FAILED"
          /\ "attempts" \notin tx[p].cols[j]
      BY <3>1 DEF Legal
    <3>3. job'[j] = Merge(job[j], tx[p].set[j], tx[p].cols[j])
      BY <1>1, CommitRows
    <3> QED
      BY <3>1, <3>2, <3>3, MergeType, MergeColumns
  <2> QED
    BY <2>1, <2>2
<1>2. CASE Elapses
  BY <1>2 DEF Elapses, WakeReached, DeadlineReached, TypeOK, StoreTypeOK, Row
<1>3. CASE job' = job
  BY <1>3
<1> QED
  BY <1>1, <1>2, <1>3 DEF AloneStep, Ends, Conflict, LockedOut, Open, Restarts,
     storeVars

\* A row that nobody writes stays.
LEMMA StaysUnwritten ==
  ASSUME TypeOK, AloneStep, NEW j \in Job, Exists(j),
         \A p \in Proc : tx[p].cols[j] = {}
  PROVE  job'[j].status = job[j].status
<1>1. ASSUME NEW p \in Proc, Commit(p)
      PROVE  job'[j].status = job[j].status
  BY <1>1, Unwritten
<1>2. CASE Elapses
  BY <1>2 DEF Elapses, WakeReached, DeadlineReached, TypeOK, StoreTypeOK, Row
<1>3. CASE job' = job
  BY <1>3
<1> QED
  BY <1>1, <1>2, <1>3 DEF AloneStep, Ends, Conflict, LockedOut, Open, Restarts,
     storeVars

\* While a call has not come back, nobody writes its job.
LEMMA NobodyWrites ==
  ASSUME Control, NEW c \in gather, ~tx[c].open, NEW p \in Proc
  PROVE  tx[p].cols[JobOf(c)] = {}
<1> SUFFICES ASSUME tx[p].cols[JobOf(c)] # {} PROVE FALSE
  OBVIOUS
<1>1. c \in Call /\ JobOf(c) \in Job
  BY CallJob DEF Control, Out
<1>2. tx[p].open /\ (p = Worker \/ (p \in Call /\ JobOf(p) = JobOf(c)))
  BY <1>1 DEF Control
<1>3. p # Worker
  BY <1>2 DEF Control, WritePhases
<1>4. p \in gather
  BY <1>2, <1>3 DEF Control
<1> QED
  BY <1>2, <1>3, <1>4 DEF Control

\* What becomes of one job's submissions when none is made.
LEMMA NoneSubmitted ==
  ASSUME TypeOK, TypeOK', Integrity, Alone, Accounted, AloneStep, NEW j \in Job,
         \A a \in Attempt :
           /\ ledger[j][a] = "unsent" => ledger'[j][a] = "unsent"
           /\ ledger'[j][a] \in {"sent", "lost"} => Uncertain(j, a),
         \A p \in Proc, a \in Attempt :
           /\ "status" \in tx'[p].cols[j]
           /\ ledger'[j][a] \in {"sent", "lost"}
           /\ job[j].status \in {"SUBMITTING", "FAILED"}
           => tx'[p].set[j].status = "FAILED" \/ tx'[p] = tx[p]
  PROVE  \A a \in Attempt :
           /\ a > job'[j].attempts => ledger'[j][a] = "unsent"
           /\ ledger'[j][a] \in {"sent", "lost"} =>
                /\ a = job'[j].attempts
                /\ job'[j].status \in {"SUBMITTING", "FAILED"}
                /\ \A p \in Proc : "status" \in tx'[p].cols[j] =>
                     tx'[p].set[j].status = "FAILED"
<1> SUFFICES ASSUME NEW a \in Attempt
             PROVE  /\ a > job'[j].attempts => ledger'[j][a] = "unsent"
                    /\ ledger'[j][a] \in {"sent", "lost"} =>
                         /\ a = job'[j].attempts
                         /\ job'[j].status \in {"SUBMITTING", "FAILED"}
                         /\ \A p \in Proc : "status" \in tx'[p].cols[j] =>
                              tx'[p].set[j].status = "FAILED"
  OBVIOUS
<1>1. a \in Nat /\ job[j].attempts \in Nat /\ job'[j].attempts \in Nat
  BY WorkerAssumption DEF Attempt, TypeOK, StoreTypeOK, Row
<1>2. job[j].attempts <= job'[j].attempts
  <2>1. Transition(job[j], job'[j])
    BY AloneTransition DEF Alone
  <2>2. job[j].status = "ABSENT" => job[j].attempts = 0
    BY DEF Alone, AttemptsLeft
  <2> QED
    BY <1>1, <2>1, <2>2 DEF Transition, Follows
<1>3. a > job'[j].attempts => ledger'[j][a] = "unsent"
  BY <1>1, <1>2 DEF Accounted
<1>4. ASSUME ledger'[j][a] \in {"sent", "lost"}
      PROVE  /\ a = job'[j].attempts
             /\ job'[j].status \in {"SUBMITTING", "FAILED"}
             /\ \A p \in Proc : "status" \in tx'[p].cols[j] =>
                  tx'[p].set[j].status = "FAILED"
  <2>1. Uncertain(j, a)
    BY <1>4
  <2>2. /\ a = job[j].attempts /\ job[j].status \in {"SUBMITTING", "FAILED"}
        /\ \A p \in Proc : "status" \in tx[p].cols[j] =>
             tx[p].set[j].status = "FAILED"
    BY <2>1 DEF Accounted, Uncertain
  <2>3. /\ job'[j].status \in {"SUBMITTING", "FAILED"}
        /\ job'[j].attempts = job[j].attempts
    BY <2>2, FailsOrStays DEF Alone
  <2> QED
    BY <1>4, <2>2, <2>3
<1> QED
  BY <1>3, <1>4

\* What _fail writes is a failure.
LEMMA FailSets ==
  ASSUME StoreTypeOK, NEW i \in Job, NEW j \in Job, "status" \in FailTx(i).cols[j]
  PROVE  FailTx(i).set[j].status = "FAILED"
<1>1. Failed(job[i]) \in Row /\ Failed(job[i]).status = "FAILED"
  BY RowTypes DEF StoreTypeOK
<1>2. /\ FailTx(i).set[i] = Failed(job[i])
      /\ j # i => FailTx(i).cols[j] = {}
  BY <1>1, UpdateColumns DEF FailTx, Stamps
<1> QED
  BY <1>1, <1>2

\* What a claim submits becomes its job's last attempt.
LEMMA ClaimedRows ==
  ASSUME TypeOK, Integrity, Alone, ClaimCommit, NEW j \in Requests
  PROVE  LET n == tx[Worker].set[j].attempts IN
         /\ j \in Job /\ n \in Attempt
         /\ job[j].status \in Claimable /\ n = job[j].attempts + 1
         /\ job'[j].status = "SUBMITTING" /\ job'[j].attempts = n
         /\ ledger'[j] = [ledger[j] EXCEPT ![n] = "sent"]
<1> DEFINE t == tx[Worker]
<1>0. /\ j \in Job /\ t.set[j].status = "SUBMITTING" /\ Commit(Worker)
      /\ Worker \in Proc
  BY WorkerAssumption DEF Requests, ClaimCommit
<1>1. "attempts" \in t.cols[j] /\ t.set[j].attempts \in Attempt
  BY DEF Alone, Claiming
<1>2. /\ job[j] \in Row /\ t.set[j] \in Row /\ t.cols[j] \in SUBSET Column
      /\ Legal(job[j], t.set[j], t.cols[j])
  BY <1>0, <1>1 DEF TypeOK, StoreTypeOK, Transaction, Alone, Fresh, Lawful
<1>3. ledger'[j] = [ledger[j] EXCEPT ![t.set[j].attempts] = "sent"]
  BY <1>0 DEF ClaimCommit
<1> HIDE DEF t
<1>4. /\ "status" \in t.cols[j] /\ job[j].status \in Claimable
      /\ t.set[j].attempts = job[j].attempts + 1
  BY <1>1, <1>2 DEF Legal
<1>5. job'[j] = Merge(job[j], t.set[j], t.cols[j])
  BY <1>0, <1>4, CommitRows DEF Claimable, t
<1>6. job'[j].status = "SUBMITTING" /\ job'[j].attempts = t.set[j].attempts
  BY <1>0, <1>1, <1>2, <1>4, <1>5, MergeType, MergeColumns DEF t
<1> QED
  BY <1>0, <1>1, <1>3, <1>4, <1>6 DEF t

\* A claim keeps Accounted.
LEMMA AccountedByClaim ==
  ASSUME WorkerAlone, TypeOK, TypeOK', Integrity, Alone, Accounted, AloneStep, ClaimCommit
  PROVE  Accounted'
<1>0. /\ Worker \in Proc /\ \A q \in Proc : tx'[q] = IF q = Worker THEN Closed ELSE tx[q]
  BY WorkerAssumption, EndCloses DEF TypeOK, StoreTypeOK, ClaimCommit
<1> DEFINE Known(j, a) ==
      /\ a > job'[j].attempts => ledger'[j][a] = "unsent"
      /\ ledger'[j][a] \in {"sent", "lost"} =>
           /\ a = job'[j].attempts
           /\ job'[j].status \in {"SUBMITTING", "FAILED"}
           /\ \A p \in Proc : "status" \in tx'[p].cols[j] =>
                tx'[p].set[j].status = "FAILED"
<1>1. ASSUME NEW j \in Requests, NEW a \in Attempt
      PROVE  Known(j, a)
  <2> DEFINE n == tx[Worker].set[j].attempts
  <2>1. /\ j \in Job /\ n \in Attempt
        /\ job[j].status \in Claimable /\ n = job[j].attempts + 1
        /\ job'[j].status = "SUBMITTING" /\ job'[j].attempts = n
        /\ ledger'[j] = [ledger[j] EXCEPT ![n] = "sent"]
    BY ClaimedRows
  <2>2. job[j].attempts \in Nat /\ a \in Nat /\ ledger[j] \in [Attempt -> LedgerState]
    BY <2>1, WorkerAssumption DEF TypeOK, StoreTypeOK, WorkerTypeOK, Row, Attempt
  <2>3. tx[Worker].cols[j] # {}
    BY DEF Alone, Claiming
  <2> HIDE DEF n
  <2>4. ledger'[j][a] = IF a = n THEN "sent" ELSE ledger[j][a]
    BY <2>1, <2>2
  <2>5. a > n => ledger'[j][a] = "unsent"
    BY <2>1, <2>2, <2>4 DEF Accounted
  <2>6. a # n => ledger[j][a] \notin {"sent", "lost"}
    BY <2>1 DEF Accounted, Claimable
  <2>7. \A p \in Proc : tx'[p].cols[j] = {}
    <3>1. \A p \in Proc : p # Worker => tx[p].cols[j] = {}
      BY <1>0, <2>1, <2>3, SoleWriter DEF Alone
    <3> QED
      BY <1>0, <2>1, <3>1, ClosedWritesNothing
  <2> QED
    BY <2>1, <2>4, <2>5, <2>6, <2>7
<1>2. ASSUME NEW j \in Job \ Requests, NEW a \in Attempt
      PROVE  Known(j, a)
  <2>1. ledger'[j] = ledger[j]
    BY <1>2 DEF ClaimCommit
  <2>2. \A b \in Attempt :
          /\ ledger[j][b] = "unsent" => ledger'[j][b] = "unsent"
          /\ ledger'[j][b] \in {"sent", "lost"} => Uncertain(j, b)
    BY <2>1 DEF Uncertain
  <2>3. \A p \in Proc, b \in Attempt :
          /\ "status" \in tx'[p].cols[j]
          /\ ledger'[j][b] \in {"sent", "lost"}
          /\ job[j].status \in {"SUBMITTING", "FAILED"}
          => tx'[p].set[j].status = "FAILED" \/ tx'[p] = tx[p]
    BY <1>0, <1>2, ClosedWritesNothing
  <2> QED
    BY <1>2, <2>2, <2>3, NoneSubmitted
<1>3. \A j \in Job, a \in Attempt : Known(j, a)
  BY <1>1, <1>2
<1> QED
  BY <1>3 DEF Accounted

\* No submission is written back otherwise than as its provider answered.
LEMMA AccountedStep ==
  ASSUME WorkerAlone, TypeOK, TypeOK', Integrity, Alone, Accounted, Awaited, AloneStep,
         [Next]_vars
  PROVE  Accounted'
<1>0. /\ StoreTypeOK /\ Worker \in Proc /\ Worker \notin Call
      /\ tx \in [Proc -> Transaction]
      /\ ledger \in [Job -> [Attempt -> LedgerState]]
      /\ Hook = {} /\ Control
  BY WorkerAssumption DEF TypeOK, StoreTypeOK, WorkerTypeOK, WorkerAlone, Alone
<1> DEFINE Forgets ==
             \A j \in Job, a \in Attempt :
               /\ ledger[j][a] = "unsent" => ledger'[j][a] = "unsent"
               /\ ledger'[j][a] \in {"sent", "lost"} => Uncertain(j, a)
           Spares(p) ==
             \A j \in Job :
               /\ "status" \in tx'[p].cols[j]
               /\ job[j].status \in {"SUBMITTING", "FAILED"}
               => tx'[p].set[j].status = "FAILED" \/ tx'[p] = tx[p]
<1>1. ASSUME Forgets, \A p \in Proc : Spares(p)
      PROVE  Accounted'
  BY <1>1, NoneSubmitted DEF Accounted
<1>2. ledger' = ledger => Forgets
  BY DEF Uncertain
<1>3. ASSUME NEW p \in Proc, tx'[p] = tx[p] \/ tx'[p] = Closed
      PROVE  Spares(p)
  BY <1>3, ClosedWritesNothing
<1>4. ASSUME Forgets, UNCHANGED tx
      PROVE  Accounted'
  BY <1>1, <1>3, <1>4
<1>5. ASSUME Forgets, NEW p \in Proc, Commit(p) \/ Conflict(p) \/ LockedOut(p)
      PROVE  Accounted'
  <2>1. \A q \in Proc : tx'[q] = IF q = p THEN Closed ELSE tx[q]
    BY <1>0, <1>5, EndCloses
  <2> QED
    BY <1>1, <1>3, <1>5, <2>1
<1>6. ASSUME Forgets, NEW p \in Proc, NEW t, Open(p, t),
             \A j \in Job : /\ "status" \in t.cols[j]
                            /\ job[j].status \in {"SUBMITTING", "FAILED"}
                            => t.set[j].status = "FAILED"
      PROVE  Accounted'
  <2>1. \A q \in Proc : tx'[q] = IF q = p THEN t ELSE tx[q]
    BY <1>0, <1>6 DEF Open
  <2> QED
    BY <1>1, <1>3, <1>6, <2>1
<1>7. ASSUME Forgets, NEW p \in Proc, NEW t, NEW jobs, Open(p, t), Writes(t, jobs),
             \A j \in jobs : job[j].status \notin {"SUBMITTING", "FAILED"}
      PROVE  Accounted'
  BY <1>6, <1>7 DEF Writes
<1>8. ASSUME TickStep
      PROVE  Accounted'
  <2>1. CASE ClaimCommit
    BY <2>1, AccountedByClaim
  <2>2. CASE ~ClaimCommit
    <3>0. Forgets
      BY <1>2, <1>8, <2>2 DEF TickStep, Goto, NothingToRecover, RecoverRead,
         RecoverCommit, NothingToClaim, ClaimRead, ClaimOnlyOrphans,
         NothingToExpire, ExpireRead, ExpireCommit, NothingToPoll, PollStart,
         WorkerRollback
    <3> HIDE DEF Forgets
    <3>1. CASE \/ NothingToRecover \/ NothingToClaim \/ NothingToExpire
               \/ NothingToPoll \/ PollStart
      BY <1>4, <3>0, <3>1 DEF NothingToRecover, NothingToClaim, NothingToExpire,
         NothingToPoll, PollStart, storeVars
    <3>2. CASE RecoverCommit \/ ClaimOnlyOrphans \/ ExpireCommit \/ WorkerRollback
      BY <1>0, <1>5, <3>0, <3>2 DEF RecoverCommit, ClaimOnlyOrphans,
         ExpireCommit, WorkerRollback
    <3>3. CASE RecoverRead
      <4>1. First(Submitting) \in Job
        BY <3>3, FirstJob DEF RecoverRead, Submitting
      <4>2. \A j \in Job : "status" \in FailTx(First(Submitting)).cols[j] =>
              FailTx(First(Submitting)).set[j].status = "FAILED"
        BY <1>0, <4>1, FailSets
      <4> QED
        BY <1>0, <1>6, <3>0, <3>3, <4>2 DEF RecoverRead
    <3>4. CASE ClaimRead
      <4>1. Writes(ClaimTx, Touched)
        BY <1>0, <3>4, ClaimWrites DEF ClaimRead, Alone
      <4>2. \A j \in Touched : job[j].status \notin {"SUBMITTING", "FAILED"}
        BY DEF Touched, Visited, Due, Claimable
      <4> QED
        BY <1>0, <1>7, <3>0, <3>4, <4>1, <4>2 DEF ClaimRead
    <3>5. CASE ExpireRead
      <4>1. PICK j \in Overdue : Open(Worker, RetryTx(j))
        BY <3>5 DEF ExpireRead
      <4>2. Writes(RetryTx(j), {j}) /\ job[j].status = "PROCESSING"
        BY <1>0, <4>1, RetryWrites DEF Overdue, InFlight
      <4> QED
        BY <1>0, <1>7, <3>0, <4>1, <4>2
    <3> QED
      BY <1>8, <2>2, <3>1, <3>2, <3>3, <3>4, <3>5 DEF TickStep
  <2> QED
    BY <2>1, <2>2
<1>9. ASSUME NEW c \in Call, CallStep(c)
      PROVE  Accounted'
  <2> DEFINE i == JobOf(c)
  <2>0. c \in gather /\ c \in Proc /\ i \in Job
    BY <1>0, <1>9, CallIsOut, CallJob
  <2>1. CASE CallCommit(c) \/ CallRollback(c)
    BY <1>2, <1>5, <2>0, <2>1 DEF CallCommit, CallRollback
  <2>2. CASE ledger' = ledger /\ \E t : Reads(c, "PROCESSING", t)
    <3>1. PICK t : Reads(c, "PROCESSING", t)
      BY <2>2
    <3>2. CASE job[i].status = "PROCESSING"
      BY <1>2, <1>7, <2>0, <2>2, <3>1, <3>2 DEF Reads, ReadThen
    <3>3. CASE job[i].status # "PROCESSING"
      BY <1>2, <1>4, <2>2, <3>1, <3>3 DEF Reads, ReadThen, storeVars
    <3> QED
      BY <3>2, <3>3
  <2>3. CASE PollUnsettled(c) \/ PollFailed(c) \/ PollRetryable(c) \/ PollSucceeded(c)
    <3>1. PICK t \in {RescheduleTx(i), FailTx(i), RetryTx(i), CompleteTx(i)} :
            ReadThen(c, "PROCESSING", t)
      BY <2>3 DEF PollUnsettled, PollFailed, PollRetryable, PollSucceeded
    <3>2. call[c] # None /\ ledger' = ledger
      BY <2>3 DEF PollUnsettled, PollFailed, PollRetryable, PollSucceeded, Returning
    <3>3. Reads(c, "PROCESSING", t)
      BY <3>1, <3>2, CallWrites DEF Reads
    <3> QED
      BY <2>2, <3>2, <3>3
  <2>4. ASSUME c[1] = "submit", ~tx[c].open, NEW outcome, outcome # "unsent",
               Record(c, outcome)
        PROVE  /\ job[i].status = "SUBMITTING" /\ call[c] \in Attempt
               /\ ledger[i][call[c]] = "sent"
               /\ \A j \in Job, a \in Attempt :
                    ledger'[j][a] = IF j = i /\ a = call[c] THEN outcome
                                                            ELSE ledger[j][a]
               /\ \A a \in Attempt : Uncertain(i, a) => a = call[c]
    <3>1. /\ job[i].status = "SUBMITTING" /\ call[c] \in Attempt
          /\ ledger[i][call[c]] = "sent"
      BY <2>0, <2>4 DEF Awaited
    <3>2. \A a \in Attempt : Uncertain(i, a) => a = call[c]
      BY <2>0, <3>1 DEF Accounted, Uncertain
    <3>3. \A j \in Job, a \in Attempt :
            ledger'[j][a] = IF j = i /\ a = call[c] THEN outcome ELSE ledger[j][a]
      BY <1>0, <2>0, <2>4, <3>1 DEF Record
    <3> QED
      BY <3>1, <3>2, <3>3
  <2>5. CASE SubmitAccepted(c) \/ SubmitRejected(c)
    <3>1. PICK t \in {ProcessingTx(i, call[c]), RetryTx(i)} :
            ReadThen(c, "SUBMITTING", t)
      BY <2>5 DEF SubmitAccepted, SubmitRejected
    <3>2. PICK outcome \in {"running", "rejected"} : Record(c, outcome)
      BY <2>5 DEF SubmitAccepted, SubmitRejected
    <3>3. c[1] = "submit" /\ ~tx[c].open /\ call[c] # None
      BY <2>5 DEF SubmitAccepted, SubmitRejected, Returning
    <3>4. /\ job[i].status = "SUBMITTING"
          /\ Forgets /\ \A a \in Attempt : ledger'[i][a] \notin {"sent", "lost"}
      <4>1. /\ job[i].status = "SUBMITTING" /\ call[c] \in Attempt
            /\ ledger[i][call[c]] = "sent"
            /\ \A j \in Job, a \in Attempt :
                 ledger'[j][a] = IF j = i /\ a = call[c] THEN outcome
                                                         ELSE ledger[j][a]
            /\ \A a \in Attempt : Uncertain(i, a) => a = call[c]
        BY <2>4, <3>2, <3>3
      <4>2. Forgets
        BY <3>2, <4>1 DEF Uncertain
      <4>3. \A a \in Attempt : ledger'[i][a] \notin {"sent", "lost"}
        BY <2>0, <3>2, <4>1 DEF Uncertain
      <4> QED
        BY <4>1, <4>2, <4>3
    <3>5. Open(c, t) /\ Writes(t, {i})
      BY <3>1, <3>3, <3>4, CallWrites DEF ReadThen
    <3>6. \A q \in Proc : tx'[q] = IF q = c THEN t ELSE tx[q]
      BY <1>0, <2>0, <3>5 DEF Open
    <3>7. \A j \in Job : j # i => t.cols[j] = {}
      BY <3>5 DEF Writes
    <3>8. \A j \in Job :
            /\ \A a \in Attempt :
                 /\ ledger[j][a] = "unsent" => ledger'[j][a] = "unsent"
                 /\ ledger'[j][a] \in {"sent", "lost"} => Uncertain(j, a)
            /\ \A p \in Proc, a \in Attempt :
                 /\ "status" \in tx'[p].cols[j]
                 /\ ledger'[j][a] \in {"sent", "lost"}
                 /\ job[j].status \in {"SUBMITTING", "FAILED"}
                 => tx'[p].set[j].status = "FAILED" \/ tx'[p] = tx[p]
      BY <3>4, <3>6, <3>7
    <3> QED
      BY <3>8, NoneSubmitted DEF Accounted
  <2>6. CASE SubmitRefused(c)
    <3>1. /\ ReadThen(c, "SUBMITTING", FailTx(i)) /\ Record(c, "lost")
          /\ c[1] = "submit" /\ ~tx[c].open
      BY <2>6 DEF SubmitRefused, Returning
    <3>2. job[i].status = "SUBMITTING" /\ Forgets
      BY <2>4, <3>1 DEF Uncertain
    <3>3. Open(c, FailTx(i))
      BY <3>1, <3>2 DEF ReadThen
    <3>4. \A j \in Job : "status" \in FailTx(i).cols[j] =>
            FailTx(i).set[j].status = "FAILED"
      BY <1>0, <2>0, FailSets
    <3> HIDE DEF Forgets
    <3> QED
      BY <1>6, <2>0, <3>2, <3>3, <3>4
  <2>7. CASE Unroutable(c)
    <3>1. Forgets
      <4>1. CASE c[1] = "submit"
        <5>1. Record(c, "rejected") /\ ~tx[c].open
          BY <2>7, <4>1 DEF Unroutable
        <5> QED
          BY <2>4, <4>1, <5>1 DEF Uncertain
      <4>2. CASE c[1] # "submit"
        BY <1>2, <2>7, <4>2 DEF Unroutable
      <4> QED
        BY <4>1, <4>2
    <3> HIDE DEF Forgets
    <3> QED
      BY <1>4, <2>7, <3>1 DEF Unroutable, storeVars
  <2> QED
    BY <1>9, <2>1, <2>3, <2>5, <2>6, <2>7 DEF CallStep, CallReturns
<1>10. ASSUME NEW p \in Client, ClientActs(p)
       PROVE  Accounted'
  <2>1. p \in Proc /\ Forgets
    BY <1>2, <1>10, ClientShape, ApiAssumption DEF workerVars
  <2>2. UNCHANGED storeVars => UNCHANGED tx
    BY DEF storeVars
  <2>3. ASSUME NEW t, Requested(t), Open(p, t)
        PROVE  Accounted'
    BY <1>6, <2>1, <2>3 DEF Requested
  <2> HIDE DEF Forgets
  <2> QED
    BY <1>4, <1>5, <1>10, <2>1, <2>2, <2>3, ClientShape
<1>11. CASE Crash
  <2>1. Forgets
    BY <1>11 DEF Crash, Uncertain
  <2>2. \A p \in Proc : tx'[p] = Closed
    BY <1>11 DEF Crash
  <2> QED
    BY <1>1, <1>3, <2>1, <2>2
<1>12. CASE \E j \in Job, a \in Attempt : Provider(j, a)
  <2>1. Forgets /\ UNCHANGED tx
    BY <1>0, <1>12 DEF Provider, ProviderFinishes, storeVars, Uncertain
  <2> QED
    BY <1>4, <2>1
<1>13. CASE Switch \/ UNCHANGED vars \/ \E j \in Job : Wakes(j) \/ Expires(j)
  <2>1. ledger' = ledger /\ UNCHANGED tx
    BY <1>13 DEF Switch, vars, Wakes, Expires, WakeReached, DeadlineReached,
       storeVars, workerVars
  <2> QED
    BY <1>2, <1>4, <2>1
<1> QED
  BY <1>0, <1>8, <1>9, <1>10, <1>11, <1>12, <1>13 DEF Next, Tick, CallActs

\* A call that has not come back is waited for until it does.
LEMMA StillAwaited ==
  ASSUME WorkerAlone, TypeOK, Integrity, Alone, Awaited, [Next]_vars,
         ~ClaimCommit, ~PollStart,
         NEW c \in gather', c[1] = "submit", ~tx'[c].open
  PROVE  /\ c \in gather /\ ~tx[c].open /\ call'[c] = call[c]
         /\ ledger'[JobOf(c)][call[c]] = ledger[JobOf(c)][call[c]]
<1> DEFINE Holds == /\ c \in gather /\ ~tx[c].open /\ call'[c] = call[c]
                    /\ ledger'[JobOf(c)][call[c]] = ledger[JobOf(c)][call[c]]
<1>0. /\ StoreTypeOK /\ Worker \in Proc /\ Worker \notin Call
      /\ tx \in [Proc -> Transaction] /\ call \in [Call -> Nat \cup {None}]
      /\ ledger \in [Job -> [Attempt -> LedgerState]]
      /\ Hook = {} /\ Control /\ gather \subseteq Call
  BY WorkerAssumption DEF TypeOK, StoreTypeOK, WorkerTypeOK, WorkerAlone, Alone
<1>1. ASSUME UNCHANGED <<gather, call, ledger>>, tx'[c] = tx[c]
      PROVE  Holds
  BY <1>1
<1>2. ASSUME NEW p \in Proc, p # c, c \in Proc,
             Commit(p) \/ Conflict(p) \/ LockedOut(p) \/ \E t : Open(p, t)
      PROVE  tx'[c] = tx[c]
  BY <1>0, <1>2, EndCloses DEF Open
<1>3. CASE TickStep
  <2>1. UNCHANGED <<gather, call, ledger>>
    BY <1>3 DEF TickStep, Goto, NothingToRecover, RecoverRead,
       RecoverCommit, NothingToClaim, ClaimRead, ClaimOnlyOrphans,
       NothingToExpire, ExpireRead, ExpireCommit, NothingToPoll, WorkerRollback
  <2>2. c \in Proc /\ c # Worker
    BY <1>0, <2>1, CallJob
  <2>3. UNCHANGED tx => tx'[c] = tx[c]
    OBVIOUS
  <2>4. tx'[c] = tx[c]
    BY <1>0, <1>2, <1>3, <2>2, <2>3 DEF TickStep, NothingToRecover, RecoverRead,
       RecoverCommit, NothingToClaim, ClaimRead, ClaimOnlyOrphans,
       NothingToExpire, ExpireRead, ExpireCommit, NothingToPoll, WorkerRollback,
       storeVars
  <2> QED
    BY <1>1, <2>1, <2>4
<1>4. ASSUME NEW d \in Call, CallStep(d)
      PROVE  Holds
  <2>0. d \in gather /\ d \in Proc
    BY <1>0, <1>4, CallIsOut, CallJob
  <2>1. \/ UNCHANGED <<gather, call>> /\ \E t : t.open /\ Open(d, t)
        \/ /\ CallEnds(d) \/ CallRaises(d)
           /\ UNCHANGED tx \/ Commit(d) \/ Conflict(d) \/ LockedOut(d)
    <3>1. CASE \E expected, t : Reads(d, expected, t)
      BY <3>1 DEF Reads, ReadThen, Writes, storeVars
    <3>2. CASE CallRaises(d) /\ UNCHANGED storeVars
      BY <3>2 DEF storeVars
    <3> QED
      BY <1>4, <3>1, <3>2, CallReturnsShape DEF CallStep, CallCommit, CallRollback
  <2>2. gather' \subseteq gather
    BY <2>1 DEF CallEnds, CallRaises
  <2>3. c # d
    <3>1. CASE UNCHANGED <<gather, call>> /\ \E t : t.open /\ Open(d, t)
      BY <1>0, <2>0, <3>1 DEF Open
    <3>2. CASE CallEnds(d) \/ CallRaises(d)
      BY <2>0, <3>2 DEF CallEnds, CallRaises
    <3> QED
      BY <2>1, <3>1, <3>2
  <2>4. tx'[c] = tx[c]
    BY <1>0, <1>2, <2>0, <2>1, <2>2, <2>3, CallJob
  <2>5. call'[c] = call[c]
    BY <1>0, <2>1, <2>2, <2>3 DEF CallEnds, CallRaises
  <2>6. JobOf(c) # JobOf(d) /\ JobOf(c) \in Job
    BY <1>0, <2>0, <2>2, <2>3, CallJob DEF Control
  <2>7. ledger' = ledger \/ \E outcome : Record(d, outcome)
    BY <1>4 DEF CallStep, CallReturns, CallCommit, CallRollback, SubmitAccepted,
       SubmitRejected, SubmitRefused, PollUnsettled, PollFailed, PollRetryable,
       PollSucceeded, Unroutable
  <2>8. ledger'[JobOf(c)] = ledger[JobOf(c)]
    BY <1>0, <2>6, <2>7 DEF Record
  <2> QED
    BY <2>2, <2>4, <2>5, <2>8
<1>5. ASSUME NEW p \in Client, ClientActs(p)
      PROVE  Holds
  <2>1. UNCHANGED <<gather, call, ledger>>
    BY <1>5, ClientShape DEF workerVars
  <2>2. p \in Proc /\ p # c /\ c \in Proc
    BY <1>0, <2>1, CallJob, ApiAssumption, SystemAssumption
  <2>3. UNCHANGED storeVars => tx'[c] = tx[c]
    BY DEF storeVars
  <2>4. tx'[c] = tx[c]
    BY <1>2, <1>5, <2>2, <2>3, ClientShape
  <2> QED
    BY <1>1, <2>1, <2>4
<1>6. CASE Crash
  BY <1>6 DEF Crash
<1>7. ASSUME NEW j \in Job, NEW a \in Attempt, Provider(j, a)
      PROVE  Holds
  <2>1. UNCHANGED <<gather, call, tx>> /\ ledger[j][a] = "running"
    BY <1>7 DEF Provider, ProviderFinishes, storeVars
  <2>2. call[c] \in Attempt /\ ledger[JobOf(c)][call[c]] = "sent"
    BY <2>1 DEF Awaited
  <2>3. \A i \in Job, b \in Attempt :
          ledger[i][b] # "running" => ledger'[i][b] = ledger[i][b]
    BY <1>0, <1>7, <2>1 DEF Provider, ProviderFinishes
  <2>4. JobOf(c) \in Job
    BY <1>0, <2>1, CallJob
  <2> QED
    BY <2>1, <2>2, <2>3, <2>4
<1>8. CASE Switch \/ UNCHANGED vars \/ \E j \in Job : Wakes(j) \/ Expires(j)
  <2>1. UNCHANGED <<gather, call, ledger, tx>>
    BY <1>8 DEF Switch, vars, Wakes, Expires, WakeReached, DeadlineReached,
       storeVars, workerVars
  <2> QED
    BY <1>1, <2>1
<1> QED
  BY <1>0, <1>3, <1>4, <1>5, <1>6, <1>7, <1>8 DEF Next, Tick, CallActs

\* Its submission is the one that is out.
LEMMA AwaitedStep ==
  ASSUME WorkerAlone, TypeOK, TypeOK', Integrity, Alone, Awaited, AloneStep,
         [Next]_vars
  PROVE  Awaited'
<1> SUFFICES ASSUME NEW c \in gather', c[1] = "submit", ~tx'[c].open
             PROVE  /\ job'[JobOf(c)].status = "SUBMITTING"
                    /\ call'[c] \in Attempt
                    /\ ledger'[JobOf(c)][call'[c]] = "sent"
  BY DEF Awaited, JobOf
<1>0. /\ Control /\ StoreTypeOK /\ tx[Worker] \in Transaction
      /\ ledger \in [Job -> [Attempt -> LedgerState]]
  BY WorkerAssumption DEF Alone, TypeOK, StoreTypeOK, WorkerTypeOK
<1>1. CASE ClaimCommit
  <2> DEFINE attempt == [j \in Job |-> tx[Worker].set[j].attempts]
  <2>1. /\ attempt \in [Job -> Nat \cup {None}]
        /\ \A j \in Requests : attempt[j] # None
        /\ Requests \in SUBSET Job
    BY <1>0, StoreAssumption DEF Transaction, Row, Requests
  <2>2. Gather("submit", Requests, attempt) /\ Out = {}
    BY <1>0, <1>1 DEF ClaimCommit, Control
  <2> HIDE DEF attempt
  <2>3. JobOf(c) \in Requests /\ call'[c] = attempt[JobOf(c)]
    BY <2>1, <2>2, GatherShape
  <2>4. attempt[JobOf(c)] = tx[Worker].set[JobOf(c)].attempts
    BY <2>1, <2>3 DEF attempt
  <2>5. LET n == tx[Worker].set[JobOf(c)].attempts IN
        /\ JobOf(c) \in Job /\ n \in Attempt
        /\ job'[JobOf(c)].status = "SUBMITTING"
        /\ ledger'[JobOf(c)] = [ledger[JobOf(c)] EXCEPT ![n] = "sent"]
    BY <1>1, <2>3, ClaimedRows
  <2> QED
    BY <1>0, <2>3, <2>4, <2>5
<1>2. CASE PollStart
  <2> DEFINE attempt == [j \in Job |-> job[j].task]
  <2>1. PICK polled \in SUBSET PollDue : Gather("poll", polled, attempt)
    BY <1>2 DEF PollStart
  <2>2. /\ attempt \in [Job -> Nat \cup {None}]
        /\ \A j \in polled : attempt[j] # None
        /\ polled \in SUBSET Job /\ Out = {}
    BY <1>0, <1>2 DEF StoreTypeOK, Row, PollDue, Control, PollStart
  <2> HIDE DEF attempt
  <2>3. c[1] = "poll"
    BY <2>1, <2>2, GatherShape
  <2> QED
    BY <2>3
<1>3. CASE ~ClaimCommit /\ ~PollStart
  <2>1. /\ c \in gather /\ ~tx[c].open /\ call'[c] = call[c]
        /\ ledger'[JobOf(c)][call[c]] = ledger[JobOf(c)][call[c]]
    BY <1>3, StillAwaited
  <2>2. /\ job[JobOf(c)].status = "SUBMITTING" /\ call[c] \in Attempt
        /\ ledger[JobOf(c)][call[c]] = "sent"
    BY <2>1 DEF Awaited
  <2>3. JobOf(c) \in Job
    BY <1>0, <2>1, CallJob DEF Control, Out
  <2>4. \A p \in Proc : tx[p].cols[JobOf(c)] = {}
    BY <1>0, <2>1, NobodyWrites
  <2>5. job'[JobOf(c)].status = job[JobOf(c)].status
    BY <2>2, <2>3, <2>4, StaysUnwritten DEF Exists
  <2> QED
    BY <2>1, <2>2, <2>5
<1> QED
  BY <1>1, <1>2, <1>3

\* At the start every submission has come back.
LEMMA LedgerInit ==
  ASSUME Init
  PROVE  Accounted /\ Awaited
<1>1. Awaited
  BY DEF Init, WorkerInit, Awaited
<1>2. Accounted
  <2> SUFFICES ASSUME NEW j \in Job, NEW a \in Attempt
               PROVE  /\ a > job[j].attempts => ledger[j][a] = "unsent"
                      /\ ledger[j][a] \notin {"sent", "lost"}
    BY DEF Accounted
  <2> QED
    BY DEF Init, WorkerInit, StoreInit
<1> QED
  BY <1>1, <1>2

(***************************************************************************)
(* A submission of which nobody learned what became of it, after a read    *)
(* timeout or a crash with the call out, is the last of its job: no later  *)
(* attempt is made, when the worker alone drives the jobs.  The job stays  *)
(* SUBMITTING until it fails, and nothing pending says otherwise.          *)
(***************************************************************************)
THEOREM NeverResubmitsBlindly ==
  ASSUME WorkerAlone
  PROVE  Spec => []NoBlindResubmit
<1>1. Init => Accounted /\ Awaited
  BY LedgerInit
<1>2. TypeOK /\ TypeOK' /\ Integrity /\ Alone /\ [Next]_vars /\ Accounted /\ Awaited
        => Accounted' /\ Awaited'
  BY AloneKept, AccountedStep, AwaitedStep
<1>3. TypeOK /\ Accounted => NoBlindResubmit
  <2> SUFFICES ASSUME TypeOK, Accounted, NEW j \in Job, NEW a \in Attempt,
                      NEW b \in Attempt, a < b, ledger[j][a] = "lost"
               PROVE  ledger[j][b] = "unsent"
    BY DEF NoBlindResubmit
  <2> QED
    BY DEF Accounted
<1> QED
  BY <1>1, <1>2, <1>3, AlwaysAlone, TypeCorrect, AlwaysIntegrity, PTL DEF Spec

----------------------------------------------------------------------------
(***************************************************************************)
(* How many are with a provider, and which the gate lets through.          *)
(***************************************************************************)
\* A job gets in flight by a claim of the tick.
LEMMA GetsInFlight ==
  ASSUME TypeOK, Integrity, Fresh, AloneStep, NEW j \in Job,
         job[j].status \notin InFlight, job'[j].status \in InFlight
  PROVE  Commit(Worker) /\ j \in Requests /\ Exists(j)
<1>1. ASSUME NEW p \in Proc, Commit(p)
      PROVE  p = Worker /\ j \in Requests /\ Exists(j)
  <2>1. /\ job[j] \in Row /\ tx[p].set[j] \in Row
        /\ tx[p].cols[j] \in SUBSET Column
        /\ tx[p].insert.status \in {"ABSENT", "QUEUED"}
        /\ tx[p].cols[j] # {} => Legal(job[j], tx[p].set[j], tx[p].cols[j])
    BY DEF TypeOK, StoreTypeOK, Transaction, Fresh, Lawful, Integrity, Sound
  <2>2. job'[j] = Merge(job[j], tx[p].set[j], tx[p].cols[j])
    BY <1>1, <2>1, CommitRows DEF InFlight
  <2>3. /\ "status" \in tx[p].cols[j] /\ tx[p].set[j].status \in InFlight
    BY <2>1, <2>2, MergeType
  <2>4. tx[p].set[j].status = "SUBMITTING" /\ Exists(j)
    BY <2>1, <2>3 DEF Legal, InFlight, Claimable, Exists
  <2>5. p = Worker
    BY <2>4 DEF Fresh, SubmitsNone
  <2> QED
    BY <2>4, <2>5 DEF Requests
<1>2. CASE Elapses
  BY <1>2 DEF Elapses, WakeReached, DeadlineReached, TypeOK, StoreTypeOK, Row
<1>3. CASE job' = job
  BY <1>3
<1> QED
  BY <1>1, <1>2, <1>3 DEF AloneStep, Ends, Conflict, LockedOut, Open, Restarts,
     storeVars

\* What a claim submits are jobs it visited that are ready.
LEMMA ClaimRequests ==
  ASSUME TypeOK, AttemptsLeft, ClaimRead
  PROVE  /\ tx'[Worker] = ClaimTx
         /\ Requests' \subseteq {j \in Visited : Ready(j)}
         /\ \A j \in Requests' : ClaimTx.set[j] = Claimed(j)
<1>1. StoreTypeOK /\ tx'[Worker] = ClaimTx
  BY WorkerAssumption DEF TypeOK, StoreTypeOK, ClaimRead, Open
<1>2. \A j \in Job : ClaimTx.set[j].status = "SUBMITTING" =>
        j \in Visited /\ Ready(j) /\ ClaimTx.set[j] = Claimed(j)
  BY <1>1, ClaimWrites DEF ClaimRead
<1> HIDE DEF ClaimTx
<1> QED
  BY <1>1, <1>2 DEF Requests, Visited, Due

\* The claim takes what the jobs in flight leave of the concurrency.
LEMMA FitsStep ==
  ASSUME WorkerAlone, TypeOK, TypeOK', Integrity, Alone, Fits, AloneStep, [Next]_vars
  PROVE  Fits'
<1>0. /\ InFlightJobs \in SUBSET Job /\ Requests \in SUBSET Job
      /\ InFlightJobs' \in SUBSET Job /\ Requests' \in SUBSET Job
      /\ Concurrency \in Nat
  BY WorkerAssumption DEF InFlightJobs, Requests
<1>1. ASSUME (InFlightJobs \cup Requests)' \subseteq InFlightJobs \cup Requests
      PROVE  Fits'
  <2>1. /\ Cardinality((InFlightJobs \cup Requests)') <= Cardinality(InFlightJobs \cup Requests)
        /\ Cardinality((InFlightJobs \cup Requests)') \in Nat
        /\ Cardinality(InFlightJobs \cup Requests) \in Nat
    BY <1>0, <1>1, JobsCount, JobsFinite
  <2> QED
    BY <1>0, <2>1 DEF Fits
<1>2. InFlightJobs' \subseteq InFlightJobs \cup Requests
  BY GetsInFlight DEF Alone, InFlightJobs
<1>3. CASE Requests' = {} \/ Requests' = Requests
  BY <1>1, <1>2, <1>3
<1>4. CASE ClaimRead
  <2> DEFINE ready == {j \in Visited : Ready(j)}
  <2>1. InFlightJobs' = InFlightJobs
    BY <1>4 DEF ClaimRead, Open, InFlightJobs
  <2>2. Requests' \subseteq ready /\ ready \in SUBSET Job
    BY <1>4, ClaimRequests DEF Alone, Visited, Due
  <2>3. /\ Cardinality(ready) \in Nat /\ Cardinality(ready) <= Budget
        /\ Budget = 0 => ready = {}
    BY WalkWithinBudget
  <2> HIDE DEF ready
  <2>4. CASE ready = {}
    BY <1>1, <2>1, <2>2, <2>4
  <2>5. CASE ready # {}
    <3>1. Cardinality(InFlightJobs \cup ready) <= Cardinality(InFlightJobs) + Cardinality(ready)
      <4>1. IsFiniteSet(InFlightJobs) /\ IsFiniteSet(ready)
        BY <1>0, <2>2, JobsFinite
      <4>2. /\ Cardinality(InFlightJobs \cup ready) =
                 Cardinality(InFlightJobs) + Cardinality(ready)
                   - Cardinality(InFlightJobs \cap ready)
        BY <4>1, FS_Union
      <4>3. Cardinality(InFlightJobs \cap ready) \in Nat
        BY <1>0, JobsFinite
      <4> QED
        BY <2>3, <4>2, <4>3, BudgetType
    <3>2. /\ Budget # 0 /\ Budget \in Nat /\ Cardinality(InFlightJobs) \in Nat
          /\ Cardinality(InFlightJobs) + Budget = Concurrency
      BY <2>3, <2>5, BudgetType
    <3>3. /\ Cardinality((InFlightJobs \cup Requests)') <= Cardinality(InFlightJobs \cup ready)
          /\ Cardinality((InFlightJobs \cup Requests)') \in Nat
          /\ Cardinality(InFlightJobs \cup ready) \in Nat
      BY <1>0, <2>1, <2>2, JobsCount, JobsFinite
    <3> QED
      BY <1>0, <2>3, <3>1, <3>2, <3>3 DEF Fits
  <2> QED
    BY <2>4, <2>5
<1> QED
  BY <1>3, <1>4, RequestsShape DEF Alone, WorkerAlone

(***************************************************************************)
(* No more than GENERATION_CONCURRENCY jobs are with a provider, counted   *)
(* on the rows, over crashes, timeouts and requests, when no more were in  *)
(* flight at the start and the worker alone drives the jobs: between the   *)
(* count of a claim and its commit no job gets in flight.                  *)
(***************************************************************************)
THEOREM ConcurrencyIsBounded ==
  ASSUME WorkerAlone,
         Cardinality({j \in Job : Backlog[j].status \in InFlight}) <= Concurrency
  PROVE  Spec => []ConcurrencyBound
<1>1. Init => Fits
  <2> SUFFICES ASSUME Init PROVE Fits
    OBVIOUS
  <2>1. InFlightJobs = {j \in Job : Backlog[j].status \in InFlight}
    BY DEF Init, StoreInit, InFlightJobs
  <2>2. Requests = {}
    BY WorkerAssumption, ClosedWritesNothing DEF Init, StoreInit, Requests
  <2>3. InFlightJobs \cup Requests = InFlightJobs
    BY <2>2
  <2> QED
    BY <2>1, <2>3 DEF Fits
<1>2. TypeOK /\ TypeOK' /\ Integrity /\ Alone /\ Fits /\ [Next]_vars => Fits'
  BY AloneKept, FitsStep
<1>3. Fits => ConcurrencyBound
  <2>1. InFlightJobs \cup Requests \in SUBSET Job
    BY DEF InFlightJobs, Requests
  <2>2. /\ Cardinality(InFlightJobs) <= Cardinality(InFlightJobs \cup Requests)
        /\ Cardinality(InFlightJobs) \in Nat
        /\ Cardinality(InFlightJobs \cup Requests) \in Nat
    BY <2>1, JobsCount, JobsFinite
  <2> QED
    BY <2>2, WorkerAssumption DEF Fits, ConcurrencyBound
<1> QED
  BY <1>1, <1>2, <1>3, AlwaysAlone, TypeCorrect, AlwaysIntegrity, PTL DEF Spec
=============================================================================
