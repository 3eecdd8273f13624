---------------------------- MODULE SystemProofs ----------------------------
(***************************************************************************)
(* Proofs about the backend, for every number of jobs, cuts, calls,        *)
(* callbacks, requests and crashes.                                        *)
(*                                                                         *)
(* Every handler touches the rows in one of a few ways: it leaves them     *)
(* alone, opens a transaction, ends one, or lets a timer run out.  The     *)
(* proofs go through that: StoreStep lists the ways, NextIsStoreStep shows *)
(* there is no other and that what a handler opens is sound, and the       *)
(* invariants are shown to survive a StoreStep.                            *)
(***************************************************************************)
EXTENDS Properties, TLAPS, WellFoundedInduction

(***************************************************************************)
(* Order: First(S), by which rows and cuts are picked, is the least of S.  *)
(***************************************************************************)
Below == {r \in Nat \X Nat : r[1] < r[2]}

\* < on the naturals is well founded, as a relation the library knows.
LEMMA BelowWellFounded == IsWellFoundedOn(Below, Nat)
<1>1. OpToRel(<, Nat) = Below
  BY Zenon DEF OpToRel, Below
<1> QED
  BY <1>1, NatLessThanWellFounded, Zenon

\* A set of naturals that is not empty has a least element, and First is it.
LEMMA FirstIn ==
  ASSUME NEW S, S \subseteq Nat, S # {}
  PROVE  First(S) \in S /\ \A k \in S : First(S) <= k
<1>1. PICK x \in S : \A y \in S : <<y, x>> \notin Below
  BY BelowWellFounded, WFMin, Zenon
<1>2. ASSUME NEW y \in S
      PROVE  x <= y
  <2>1. x \in Nat /\ y \in Nat
    OBVIOUS
  <2>2. ~ (y < x)
    BY <1>1, <2>1 DEF Below
  <2> QED
    BY <2>1, <2>2
<1>3. \A y \in S : x <= y
  BY <1>2
<1> QED
  BY <1>3 DEF First

\* The first of some jobs is one of them.
LEMMA FirstJob ==
  ASSUME NEW S, S \subseteq Job, S # {}
  PROVE  First(S) \in S /\ First(S) \in Job
<1>1. S \subseteq Nat
  BY DEF Job
<1> QED
  BY <1>1, FirstIn

\* The first of some cuts is one of them.
LEMMA FirstCut ==
  ASSUME NEW S, S \subseteq Cut, S # {}
  PROVE  First(S) \in S /\ First(S) \in Cut
<1>1. S \subseteq Nat
  BY DEF Cut
<1> QED
  BY <1>1, FirstIn

\* NULL is not the id of a job.
LEMMA NoneIsNoJob == None \notin Job
  BY StoreAssumption DEF Job

----------------------------------------------------------------------------
(***************************************************************************)
(* Rows and transactions.                                                  *)
(***************************************************************************)
\* What _terminal_failure, the retry and _complete assign makes a row, with
\* the status it is meant to have.
LEMMA RowTypes ==
  /\ NoRow \in Row
  /\ \A r \in Row :
       /\ Failed(r) \in Row /\ Failed(r).status = "FAILED"
       /\ Retried(r) \in Row /\ Retried(r).status = "RETRY_WAIT"
       /\ Succeeded(r) \in Row /\ Succeeded(r).status = "SUCCEEDED"
<1>1. NoRow \in Row
  BY DEF NoRow, Row, Timer
<1>2. ASSUME NEW r \in Row
      PROVE  Failed(r) \in Row /\ Failed(r).status = "FAILED"
  BY DEF Failed, Row, Timer, JobStatus
<1>3. ASSUME NEW r \in Row
      PROVE  Retried(r) \in Row /\ Retried(r).status = "RETRY_WAIT"
  BY DEF Retried, Row, Timer, JobStatus
<1>4. ASSUME NEW r \in Row
      PROVE  Succeeded(r) \in Row /\ Succeeded(r).status = "SUCCEEDED"
  BY DEF Succeeded, Row, Timer, JobStatus
<1> QED
  BY <1>1, <1>2, <1>3, <1>4

\* Assigning the columns a handler may assign leaves a row.
LEMMA RowColumns ==
  ASSUME NEW r \in Row,
         NEW status \in JobStatus \cup {"ABSENT"}, NEW reference \in Job \cup {None},
         NEW attempts \in Nat, NEW task \in Nat \cup {None},
         NEW wake \in Timer, NEW deadline \in Timer
  PROVE  [r EXCEPT !.status = status, !.reference = reference,
                   !.attempts = attempts, !.task = task,
                   !.wake = wake, !.deadline = deadline] \in Row
  BY DEF Row

\* Assigning the columns of an INSERT leaves a row.
LEMMA RowInserted ==
  ASSUME NEW r \in Row,
         NEW status \in JobStatus \cup {"ABSENT"}, NEW c \in Cut \cup {None},
         NEW kind \in Kind \cup {None}, NEW m \in Mode \cup {None},
         NEW version \in Nat, NEW source \in Job \cup {None}
  PROVE  [r EXCEPT !.status = status, !.cut = c, !.kind = kind, !.mode = m,
                   !.version = version, !.source = source] \in Row
  BY DEF Row

\* A stale UPDATE leaves a row, with the status of one of the two, and never
\* touches what the row was created for.
LEMMA MergeType ==
  ASSUME NEW now \in Row, NEW want \in Row, NEW cols \in SUBSET Column
  PROVE  /\ Merge(now, want, cols) \in Row
         /\ Merge(now, want, cols).status =
              IF "status" \in cols THEN want.status ELSE now.status
         /\ Merge(now, want, cols).cut = now.cut
         /\ Merge(now, want, cols).kind = now.kind
         /\ Merge(now, want, cols).mode = now.mode
         /\ Merge(now, want, cols).source = now.source
<1> DEFINE m == Merge(now, want, cols)
           status    == IF "status" \in cols THEN want.status ELSE now.status
           reference == IF "reference" \in cols THEN want.reference
                                                ELSE now.reference
           attempts  == IF "attempts" \in cols THEN want.attempts
                                               ELSE now.attempts
           task      == IF "task" \in cols THEN want.task ELSE now.task
           wake      == IF "wake" \in cols THEN want.wake ELSE now.wake
           deadline  == IF "deadline" \in cols THEN want.deadline
                                               ELSE now.deadline
<1>1. /\ status \in JobStatus \cup {"ABSENT"} /\ reference \in Job \cup {None}
      /\ attempts \in Nat /\ task \in Nat \cup {None}
      /\ wake \in Timer /\ deadline \in Timer
  BY DEF Row
<1>2. m = [now EXCEPT !.status = status, !.reference = reference,
                      !.attempts = attempts, !.task = task,
                      !.wake = wake, !.deadline = deadline]
  BY DEF Merge
<1>3. m \in Row
  <2> HIDE DEF status, reference, attempts, task, wake, deadline
  <2>1. [now EXCEPT !.status = status, !.reference = reference,
                    !.attempts = attempts, !.task = task,
                    !.wake = wake, !.deadline = deadline] \in Row
    BY <1>1, RowColumns, Zenon
  <2> QED
    BY <1>2, <2>1, Zenon
<1>4. m.status = status
  BY DEF Merge, Row
<1>5. m.cut = now.cut /\ m.kind = now.kind /\ m.mode = now.mode /\ m.source = now.source
  BY DEF Merge, Row
<1> QED
  BY <1>3, <1>4, <1>5

\* A process with nothing pending holds a sound transaction.
LEMMA ClosedSound == Closed \in Transaction /\ Sound(Closed)
<1>1. NoRow \in Row
  BY RowTypes
<1>2. Closed \in Transaction
  BY <1>1 DEF Closed, Transaction, Selection
<1>3. Sound(Closed)
  BY StoreAssumption DEF Closed, Sound, SourceFits, OfSomeCut, NoRow
<1> QED
  BY <1>2, <1>3

\* The UPDATE of one job sets a status on no other job, and inserts nothing.
LEMMA UpdateShape ==
  ASSUME StoreTypeOK,
         NEW j \in Job, NEW want \in Row, NEW stamped \in SUBSET {"wake", "deadline"}
  PROVE  LET t == Update(j, want, stamped) IN
         /\ t \in Transaction
         /\ \A i \in Job : "status" \in t.cols[i] =>
              /\ i = j
              /\ t.set[i] = want
              /\ want.status # job[j].status
         /\ t.insert = NoRow /\ t.artifact = None /\ t.selCols = {}
<1> DEFINE t == Update(j, want, stamped)
<1>1. Dirty(job[j], want) \cup stamped \in SUBSET Column
  BY DEF Dirty, Column
<1>2. /\ t.cols = [[i \in Job |-> {}] EXCEPT
                     ![j] = Dirty(job[j], want) \cup stamped]
      /\ t.set = [[i \in Job |-> NoRow] EXCEPT ![j] = want]
  BY DEF Update, Closed
<1>3. /\ t.insert = NoRow /\ t.artifact = None /\ t.cut = None
      /\ t.selCols = {} /\ t.sel = [image |-> None, video |-> None]
      /\ t.open = TRUE
  BY DEF Update, Closed
<1>4. t \in Transaction
  BY <1>1, <1>2, <1>3, RowTypes DEF Transaction, Selection, Update, Closed
<1>5. ASSUME NEW i \in Job, "status" \in t.cols[i]
      PROVE  i = j /\ t.set[i] = want /\ want.status # job[j].status
  <2>1. i = j
    BY <1>2, <1>5
  <2>2. "status" \in Dirty(job[j], want)
    BY <1>2, <1>5, <2>1
  <2> QED
    BY <1>2, <2>1, <2>2 DEF Dirty
<1> QED
  BY <1>3, <1>4, <1>5

\* The UPDATE of one job is sound unless it sets SUCCEEDED or takes the row
\* away.
LEMMA UpdateSound ==
  ASSUME StoreTypeOK,
         NEW j \in Job, NEW want \in Row, NEW stamped \in SUBSET {"wake", "deadline"},
         want.status # "ABSENT",
         want.status = "SUCCEEDED" => want.status = job[j].status
  PROVE  /\ Update(j, want, stamped) \in Transaction
         /\ Sound(Update(j, want, stamped))
<1> DEFINE t == Update(j, want, stamped)
<1>1. /\ t \in Transaction
      /\ \A i \in Job : "status" \in t.cols[i] =>
           t.set[i] = want /\ want.status # job[j].status
      /\ t.insert = NoRow /\ t.artifact = None /\ t.selCols = {}
  BY UpdateShape
<1>2. SourceFits(NoRow) /\ OfSomeCut(NoRow)
  BY StoreAssumption DEF SourceFits, OfSomeCut, NoRow
<1> HIDE DEF t
<1>3. Sound(t)
  BY <1>1, <1>2 DEF Sound, NoRow
<1> QED
  BY <1>1, <1>3 DEF t

----------------------------------------------------------------------------
(***************************************************************************)
(* What the handlers open is a transaction, and a sound one.               *)
(***************************************************************************)
\* _fail opens a sound transaction.
LEMMA FailSound ==
  ASSUME StoreTypeOK, NEW j \in Job
  PROVE  FailTx(j) \in Transaction /\ Sound(FailTx(j))
<1>1. job[j] \in Row
  BY DEF StoreTypeOK
<1>2. Failed(job[j]) \in Row /\ Failed(job[j]).status = "FAILED"
  BY <1>1, RowTypes
<1> QED
  BY <1>2, UpdateSound DEF FailTx

\* _set_retry_or_failure opens a sound transaction.
LEMMA RetrySound ==
  ASSUME StoreTypeOK, NEW j \in Job
  PROVE  RetryTx(j) \in Transaction /\ Sound(RetryTx(j))
<1>1. job[j] \in Row
  BY DEF StoreTypeOK
<1>2. Retried(job[j]) \in Row /\ Retried(job[j]).status = "RETRY_WAIT"
  BY <1>1, RowTypes
<1>3. /\ Update(j, Retried(job[j]), {"wake"}) \in Transaction
      /\ Sound(Update(j, Retried(job[j]), {"wake"}))
  BY <1>2, UpdateSound
<1> QED
  BY <1>3, FailSound DEF RetryTx

\* Rescheduling a poll opens a sound transaction.
LEMMA RescheduleSound ==
  ASSUME StoreTypeOK, NEW j \in Job, Exists(j)
  PROVE  RescheduleTx(j) \in Transaction /\ Sound(RescheduleTx(j))
<1> DEFINE want == [job[j] EXCEPT !.wake = "ahead"]
<1>1. job[j] \in Row
  BY DEF StoreTypeOK
<1>2. want \in Row /\ want.status = job[j].status
  BY <1>1 DEF Row, Timer
<1>3. want.status # "ABSENT"
  BY <1>2 DEF Exists
<1> QED
  BY <1>2, <1>3, UpdateSound DEF RescheduleTx

\* The success branch of _submit opens a sound transaction.
LEMMA ProcessingSound ==
  ASSUME StoreTypeOK, NEW j \in Job, NEW task \in Nat \cup {None}
  PROVE  ProcessingTx(j, task) \in Transaction /\ Sound(ProcessingTx(j, task))
<1> DEFINE want == [job[j] EXCEPT !.status = "PROCESSING", !.task = task,
                                  !.wake = "ahead", !.deadline = "ahead"]
<1>1. job[j] \in Row
  BY DEF StoreTypeOK
<1>2. want \in Row /\ want.status = "PROCESSING"
  BY <1>1 DEF Row, Timer, JobStatus
<1> QED
  BY <1>2, UpdateSound DEF ProcessingTx

\* _complete opens a sound transaction: SUCCEEDED comes with the artifact, and
\* the selection it takes over is of the job's own cut and kind.
LEMMA CompleteSound ==
  ASSUME StoreTypeOK, NEW j \in Job, Exists(j)
  PROVE  CompleteTx(j) \in Transaction /\ Sound(CompleteTx(j))
<1>1. job[j] \in Row
  BY DEF StoreTypeOK
<1>2. CASE job[j].kind = "VIDEO" /\ job[j].source = None
  BY <1>2, FailSound DEF CompleteTx
<1>3. CASE ~ (job[j].kind = "VIDEO" /\ job[j].source = None)
  <2> DEFINE u == Update(j, Succeeded(job[j]), {})
             t == CompleteTx(j)
             sel == [image |-> IF job[j].kind = "IMAGE" THEN j ELSE None,
                     video |-> IF job[j].kind = "VIDEO" THEN j ELSE None]
  <2>1. /\ u \in Transaction
        /\ \A i \in Job : "status" \in u.cols[i] =>
             i = j /\ u.set[i] = Succeeded(job[j])
        /\ u.insert = NoRow
    BY <1>1, RowTypes, UpdateShape
  <2>2. Succeeded(job[j]).status = "SUCCEEDED"
    BY <1>1, RowTypes
  <2>3. t = [u EXCEPT !.artifact = j, !.cut = job[j].cut,
                      !.selCols = TakesOver(j), !.sel = sel]
    BY <1>3, Zenon DEF CompleteTx
  <2>4. /\ TakesOver(j) \in SUBSET {"image", "video"}
        /\ "image" \in TakesOver(j) => job[j].kind = "IMAGE"
        /\ "video" \in TakesOver(j) => job[j].kind # "IMAGE"
    BY DEF TakesOver
  <2>5. job[j].cut \in Cut \cup {None} /\ sel \in Selection
    BY <1>1 DEF Row, Selection
  <2> HIDE DEF u, t, sel
  <2>6. /\ t \in Transaction
        /\ t.cols = u.cols /\ t.set = u.set /\ t.insert = u.insert
        /\ t.artifact = j /\ t.cut = job[j].cut
        /\ t.selCols = TakesOver(j) /\ t.sel = sel
    BY <2>1, <2>3, <2>4, <2>5 DEF Transaction
  <2>7. \A i \in Job : "status" \in t.cols[i] =>
          t.set[i].status = "SUCCEEDED" /\ t.artifact = i
    BY <2>1, <2>2, <2>6
  <2>8. /\ SourceFits(t.insert) /\ OfSomeCut(t.insert)
        /\ t.insert.status = "ABSENT"
    BY <2>1, <2>6, StoreAssumption DEF SourceFits, OfSomeCut, NoRow
  <2>9. /\ "image" \in t.selCols => SelectionFits(t, t.sel.image, "IMAGE")
        /\ "video" \in t.selCols /\ t.sel.video # None =>
             SelectionFits(t, t.sel.video, "VIDEO")
    BY <2>4, <2>6 DEF sel, SelectionFits
  <2>10. Sound(t)
    BY <2>6, <2>7, <2>8, <2>9 DEF Sound
  <2> QED
    BY <2>6, <2>10 DEF t
<1> QED
  BY <1>2, <1>3

\* The claim opens a sound transaction, whatever it visits.
LEMMA ClaimSound ==
  ASSUME StoreTypeOK
  PROVE  ClaimTx \in Transaction /\ Sound(ClaimTx)
<1> DEFINE orphans == {j \in Visited : Orphaned(j)}
           ready == {j \in Visited : Ready(j)}
           want(j) == IF j \in orphans THEN Failed(job[j]) ELSE Claimed(j)
           cols == [j \in Job |-> IF j \in orphans \cup ready
                                  THEN Dirty(job[j], want(j)) ELSE {}]
           set == [j \in Job |-> IF j \in orphans \cup ready
                                 THEN want(j) ELSE NoRow]
<1>1. ClaimTx = [Closed EXCEPT !.open = TRUE, !.cols = cols, !.set = set]
  BY Zenon DEF ClaimTx
<1>2. ASSUME NEW j \in Job
      PROVE  Claimed(j) \in Row /\ Claimed(j).status = "SUBMITTING"
  <2> DEFINE image == IF job[j].kind = "IMAGE" /\ AnchorDecision(j) = "REFERENCE"
                      THEN cut[AnchorOrder].image ELSE job[j].reference
  <2>1. job[j] \in Row
    BY DEF StoreTypeOK
  <2>2. AnchorDecision(j) = "REFERENCE" => AnchorOrder \in Cut
    BY DEF AnchorDecision, DecideAnchor
  <2>3. image \in Job \cup {None}
    BY <2>1, <2>2 DEF StoreTypeOK, Selection, Row
  <2>4. Claimed(j) = [job[j] EXCEPT !.status = "SUBMITTING",
                                    !.reference = image,
                                    !.attempts = job[j].attempts + 1,
                                    !.task = None, !.wake = "null",
                                    !.deadline = "null"]
    BY DEF Claimed
  <2> HIDE DEF image
  <2>5. /\ "SUBMITTING" \in JobStatus \cup {"ABSENT"}
        /\ job[j].attempts + 1 \in Nat
        /\ None \in Nat \cup {None} /\ "null" \in Timer
    BY <2>1 DEF Row, Timer, JobStatus
  <2>6. [job[j] EXCEPT !.status = "SUBMITTING", !.reference = image,
                       !.attempts = job[j].attempts + 1, !.task = None,
                       !.wake = "null", !.deadline = "null"] \in Row
    BY <2>1, <2>3, <2>5, RowColumns, Zenon
  <2>7. Claimed(j).status = "SUBMITTING"
    BY <2>1, <2>4 DEF Row
  <2> QED
    BY <2>4, <2>6, <2>7, Zenon
<1>3. ASSUME NEW j \in Job
      PROVE  want(j) \in Row /\ want(j).status \in {"FAILED", "SUBMITTING"}
  BY <1>2, RowTypes DEF StoreTypeOK
<1>4. cols \in [Job -> SUBSET Column] /\ set \in [Job -> Row]
  BY <1>3, RowTypes DEF Dirty
<1>5. ASSUME NEW j \in Job, "status" \in cols[j]
      PROVE  set[j].status \in {"FAILED", "SUBMITTING"}
  BY <1>3, <1>5
<1> HIDE DEF cols, set
<1>6. /\ ClaimTx \in Transaction
      /\ ClaimTx.cols = cols /\ ClaimTx.set = set
      /\ ClaimTx.insert = NoRow /\ ClaimTx.artifact = None /\ ClaimTx.selCols = {}
  BY <1>1, <1>4, RowTypes DEF Closed, Transaction, Selection
<1> QED
  BY <1>5, <1>6, StoreAssumption DEF Sound, SourceFits, OfSomeCut, NoRow

\* _create_job opens a sound transaction: the source of a video is an image of
\* the cut and mode it is created for.
LEMMA CreateSound ==
  ASSUME StoreTypeOK,
         NEW c \in Cut, NEW kind \in Kind, NEW m \in Mode, NEW v \in Nat,
         ~ (kind = "VIDEO" /\ ~ SourceUsable(c, m))
  PROVE  LET t == [Closed EXCEPT !.open = TRUE, !.insert = NewRow(c, kind, m, v)]
         IN  t \in Transaction /\ Sound(t)
<1> DEFINE r == NewRow(c, kind, m, v)
           t == [Closed EXCEPT !.open = TRUE, !.insert = r]
           source == IF kind = "VIDEO" THEN SelectedImage(c) ELSE None
<1>1. SelectedImage(c) \in Job \cup {None}
  BY DEF SelectedImage, StoreTypeOK, Selection
<1>2. /\ r \in Row
      /\ r.status = "QUEUED" /\ r.kind = kind /\ r.cut = c /\ r.mode = m
      /\ r.source = source
  <2>1. r = [NoRow EXCEPT !.status = "QUEUED", !.cut = c, !.kind = kind,
                          !.mode = m, !.version = v, !.source = source]
    BY Zenon DEF NewRow
  <2>2. source \in Job \cup {None}
    BY <1>1
  <2> HIDE DEF source
  <2>3. [NoRow EXCEPT !.status = "QUEUED", !.cut = c, !.kind = kind,
                      !.mode = m, !.version = v, !.source = source] \in Row
    <3>1. /\ NoRow \in Row /\ "QUEUED" \in JobStatus \cup {"ABSENT"}
          /\ c \in Cut \cup {None} /\ kind \in Kind \cup {None}
          /\ m \in Mode \cup {None}
      BY RowTypes DEF JobStatus
    <3> QED
      BY <2>2, <3>1, RowInserted, Zenon
  <2>4. /\ r.status = "QUEUED" /\ r.kind = kind /\ r.cut = c /\ r.mode = m
        /\ r.source = source
    BY <2>1 DEF NoRow
  <2> QED
    BY <2>1, <2>3, <2>4
<1>3. SourceFits(r) /\ OfSomeCut(r)
  BY <1>2 DEF SourceFits, OfSomeCut, SourceUsable, SelectedImage
<1> HIDE DEF r
<1>4. /\ t \in Transaction
      /\ t.cols = Closed.cols /\ t.insert = r
      /\ t.artifact = None /\ t.selCols = {}
  BY <1>2, RowTypes DEF Closed, Transaction, Selection
<1>5. \A j \in Job : t.cols[j] = {}
  BY <1>4 DEF Closed
<1>6. Sound(t)
  BY <1>2, <1>3, <1>4, <1>5 DEF Sound
<1> QED
  BY <1>4, <1>6 DEF r

\* A selection of selectable artifacts is a sound transaction.
LEMMA SelectSound ==
  ASSUME StoreTypeOK, NEW c \in Cut, NEW want \in Selection,
         want.image # cut[c].image =>
           Selectable(c, want.image, "IMAGE"),
         want.video # cut[c].video /\ want.video # None =>
           Selectable(c, want.video, "VIDEO")
  PROVE  SelectTx(c, want) \in Transaction /\ Sound(SelectTx(c, want))
<1> DEFINE t == SelectTx(c, want)
           selCols == {col \in {"image", "video"} : want[col] # cut[c][col]}
<1>0. artifact \subseteq Job
  BY DEF StoreTypeOK
<1>1. /\ "image" \in selCols <=> want.image # cut[c].image
      /\ "video" \in selCols <=> want.video # cut[c].video
      /\ selCols \in SUBSET {"image", "video"}
  OBVIOUS
<1>2. t = [Closed EXCEPT !.open = TRUE, !.cut = c, !.sel = want,
                         !.selCols = selCols]
  BY Zenon DEF SelectTx
<1> HIDE DEF selCols
<1>3. /\ t \in Transaction
      /\ t.cols = Closed.cols /\ t.insert = NoRow /\ t.artifact = None
      /\ t.cut = c /\ t.sel = want /\ t.selCols = selCols
  <2>1. t \in Transaction
    BY <1>1, <1>2, ClosedSound DEF Transaction
  <2>2. /\ t.cols = Closed.cols /\ t.insert = Closed.insert
        /\ t.artifact = Closed.artifact
        /\ t.cut = c /\ t.sel = want /\ t.selCols = selCols
    BY <1>2, ClosedSound DEF Transaction
  <2> QED
    BY <2>1, <2>2 DEF Closed
<1>4. \A j \in Job : t.cols[j] = {}
  BY <1>3 DEF Closed
<1>5. /\ "image" \in t.selCols => SelectionFits(t, t.sel.image, "IMAGE")
      /\ "video" \in t.selCols /\ t.sel.video # None =>
           SelectionFits(t, t.sel.video, "VIDEO")
  BY <1>0, <1>1, <1>3 DEF SelectionFits, Selectable, IsArtifact, Selection
<1> QED
  BY <1>3, <1>4, <1>5, StoreAssumption
     DEF Sound, SourceFits, OfSomeCut, NoRow

----------------------------------------------------------------------------
(***************************************************************************)
(* The ways of touching the rows.                                          *)
(***************************************************************************)
Opens == \E p \in Proc : \E t \in Transaction : Sound(t) /\ Open(p, t)

Ends == \E p \in Proc : Commit(p) \/ Conflict(p) \/ LockedOut(p)

Elapses == \E j \in Job : WakeReached(j) \/ DeadlineReached(j)

Restarts == tx' = [p \in Proc |-> Closed] /\ UNCHANGED <<job, artifact, cut>>

StoreStep == UNCHANGED storeVars \/ Opens \/ Ends \/ Elapses \/ Restarts

\* A handler that opens a sound transaction takes a StoreStep.
LEMMA OpensSound ==
  ASSUME NEW p \in Proc, NEW t, t \in Transaction, Sound(t), Open(p, t)
  PROVE  StoreStep
  BY DEF StoreStep, Opens

\* A handler that ends its transaction takes a StoreStep.
LEMMA EndsStep ==
  ASSUME NEW p \in Proc, Commit(p) \/ Conflict(p) \/ LockedOut(p)
  PROVE  StoreStep
  BY DEF StoreStep, Ends

\* A step of the tick touches the rows in one of these ways.
LEMMA TickIsStoreStep ==
  ASSUME TypeOK, TickStep
  PROVE  StoreStep
<1> USE WorkerAssumption
<1>0. StoreTypeOK
  BY DEF TypeOK
<1>1. CASE NothingToRecover \/ NothingToClaim \/ NothingToExpire \/ NothingToPoll
  BY <1>1 DEF NothingToRecover, NothingToClaim, NothingToExpire,
              NothingToPoll, StoreStep
<1>2. CASE RecoverRead
  <2>1. First(Submitting) \in Job
    BY <1>2, FirstJob DEF RecoverRead, Submitting
  <2>2. Open(Worker, FailTx(First(Submitting)))
    BY <1>2 DEF RecoverRead
  <2> QED
    BY <1>0, <2>1, <2>2, FailSound, OpensSound
<1>3. CASE ClaimRead
  <2>1. Open(Worker, ClaimTx)
    BY <1>3 DEF ClaimRead
  <2> QED
    BY <1>0, <2>1, ClaimSound, OpensSound
<1>4. CASE ExpireRead
  <2>1. PICK j \in Overdue : Open(Worker, RetryTx(j))
    BY <1>4 DEF ExpireRead
  <2>2. j \in Job
    BY DEF Overdue
  <2> QED
    BY <1>0, <2>1, <2>2, RetrySound, OpensSound
<1>5. CASE RecoverCommit \/ ClaimCommit \/ ClaimOnlyOrphans \/ ExpireCommit
           \/ WorkerRollback
  <2>1. Commit(Worker) \/ Conflict(Worker) \/ LockedOut(Worker)
    BY <1>5 DEF RecoverCommit, ClaimCommit, ClaimOnlyOrphans, ExpireCommit,
                WorkerRollback
  <2> QED
    BY <2>1, EndsStep
<1>6. CASE PollStart
  BY <1>6 DEF PollStart, StoreStep
<1> QED
  BY <1>1, <1>2, <1>3, <1>4, <1>5, <1>6 DEF TickStep

\* So does a step of a provider call.
LEMMA CallIsStoreStep ==
  ASSUME TypeOK, NEW c \in Call, CallStep(c)
  PROVE  StoreStep
<1>0. /\ StoreTypeOK /\ c \in Proc /\ JobOf(c) \in Job
      /\ call[c] \in Nat \cup {None}
  BY WorkerAssumption DEF TypeOK, WorkerTypeOK, Call, JobOf
<1>1. ASSUME NEW expected \in {"SUBMITTING", "PROCESSING"}, NEW t,
             ReadThen(c, expected, t),
             job[JobOf(c)].status = expected => t \in Transaction /\ Sound(t)
      PROVE  StoreStep
  <2>1. CASE job[JobOf(c)].status = expected
    <3>1. Open(c, t)
      BY <1>1, <2>1 DEF ReadThen
    <3> QED
      BY <1>0, <1>1, <2>1, <3>1, OpensSound
  <2>2. CASE job[JobOf(c)].status # expected
    BY <1>1, <2>2 DEF ReadThen, StoreStep
  <2> QED
    BY <2>1, <2>2
<1>2. CASE SubmitAccepted(c)
  BY <1>0, <1>1, <1>2, ProcessingSound DEF SubmitAccepted
<1>3. CASE SubmitRejected(c) \/ PollRetryable(c)
  BY <1>0, <1>1, <1>3, RetrySound DEF SubmitRejected, PollRetryable
<1>4. CASE SubmitRefused(c) \/ PollFailed(c)
  BY <1>0, <1>1, <1>4, FailSound DEF SubmitRefused, PollFailed
<1>5. CASE PollUnsettled(c)
  <2>1. job[JobOf(c)].status = "PROCESSING" => Exists(JobOf(c))
    BY DEF Exists
  <2> QED
    BY <1>0, <1>1, <1>5, <2>1, RescheduleSound DEF PollUnsettled
<1>6. CASE PollSucceeded(c)
  <2>1. job[JobOf(c)].status = "PROCESSING" => Exists(JobOf(c))
    BY DEF Exists
  <2> QED
    BY <1>0, <1>1, <1>6, <2>1, CompleteSound DEF PollSucceeded
<1>7. CASE Unroutable(c)
  BY <1>7 DEF Unroutable, StoreStep
<1>8. CASE CallCommit(c) \/ CallRollback(c)
  <2>1. Commit(c) \/ Conflict(c) \/ LockedOut(c)
    BY <1>8 DEF CallCommit, CallRollback
  <2> QED
    BY <1>0, <2>1, EndsStep
<1> QED
  BY <1>2, <1>3, <1>4, <1>5, <1>6, <1>7, <1>8 DEF CallStep, CallReturns

\* So does a step of a callback handler.
LEMMA HookIsStoreStep ==
  ASSUME TypeOK, NEW h \in Hook, HookStep(h)
  PROVE  StoreStep
<1>0. StoreTypeOK /\ h \in Proc
  BY WebhookAssumption DEF TypeOK
<1>1. CASE Receive(h)
  BY <1>1 DEF Receive, StoreStep
<1>2. CASE Apply(h)
  <2>1. hook[h].job \in Job
    BY <1>2 DEF Apply, TypeOK, HookTypeOK, Found
  <2>2. CASE StillProcessing(h)
    <3>1. Open(h, OutcomeTx(h))
      BY <1>2, <2>2 DEF Apply
    <3>2. Exists(hook[h].job)
      BY <2>2 DEF StillProcessing, Exists
    <3>3. OutcomeTx(h) \in Transaction /\ Sound(OutcomeTx(h))
      BY <1>0, <2>1, <3>2, CompleteSound, RetrySound, FailSound DEF OutcomeTx
    <3> QED
      BY <1>0, <3>1, <3>3, OpensSound
  <2>3. CASE ~ StillProcessing(h)
    BY <1>2, <2>3 DEF Apply, StoreStep
  <2> QED
    BY <2>2, <2>3
<1>3. CASE HookCommit(h) \/ HookRollback(h)
  <2>1. Commit(h) \/ Conflict(h) \/ LockedOut(h)
    BY <1>3 DEF HookCommit, HookRollback
  <2> QED
    BY <1>0, <2>1, EndsStep
<1> QED
  BY <1>1, <1>2, <1>3 DEF HookStep

\* So does a step of a request handler.
LEMMA ClientIsStoreStep ==
  ASSUME TypeOK, NEW p \in Client,
         ClientStep(p) \/ RequestSelection(p) \/ CreateLockedOut(p)
                       \/ SelectLockedOut(p)
  PROVE  StoreStep
<1>0. StoreTypeOK /\ p \in Proc
  BY ApiAssumption DEF TypeOK
<1>1. CASE RequestCreation(p)
  BY <1>1 DEF RequestCreation, RequestJobs, StoreStep
<1>2. CASE CreateRead(p)
  <2>1. client[p] \in Request
    BY <1>2 DEF CreateRead, TypeOK, ApiTypeOK
  <2>2. /\ client[p].kind \in Kind /\ client[p].mode \in Mode
        /\ client[p].left \in SUBSET Cut /\ client[p].left # {}
    BY <2>1 DEF Request
  <2>3. NextCut(p) \in Cut
    BY <2>2, FirstCut DEF NextCut
  <2>4. PICK v \in NextVersion(NextCut(p), client[p].kind) :
          Open(p, [Closed EXCEPT
                     !.open = TRUE,
                     !.insert = NewRow(NextCut(p), client[p].kind,
                                       client[p].mode, v)])
    BY <1>2 DEF CreateRead
  <2>5. v \in Nat
    BY <2>4 DEF NextVersion
  <2>6. ~ (client[p].kind = "VIDEO" /\ ~ SourceUsable(NextCut(p), client[p].mode))
    BY <1>2 DEF CreateRead, Refusable
  <2> QED
    BY <1>0, <2>2, <2>3, <2>4, <2>5, <2>6, CreateSound, OpensSound
<1>3. CASE CreateRefused(p)
  BY <1>3 DEF CreateRefused, StoreStep
<1>4. CASE ClientCommits(p) \/ CreateLockedOut(p) \/ SelectLockedOut(p)
  <2>1. Commit(p) \/ Conflict(p) \/ LockedOut(p)
    BY <1>4 DEF ClientCommits, CreateCommit, CreateConflict, SelectCommit,
                CreateLockedOut, SelectLockedOut
  <2> QED
    BY <1>0, <2>1, EndsStep
<1>5. CASE RequestSelection(p)
  <2>1. PICK c \in Cut, j \in Job : SelectImage(p, c, j) \/ SelectVideo(p, c, j)
    BY <1>5 DEF RequestSelection
  <2>2. cut[c] \in Selection
    BY <1>0 DEF StoreTypeOK
  <2>3. CASE SelectImage(p, c, j)
    <3> DEFINE want == [image |-> j, video |-> None]
    <3>1. want \in Selection
      BY DEF Selection
    <3>2. SelectTx(c, want) \in Transaction /\ Sound(SelectTx(c, want))
      BY <1>0, <2>3, <3>1, SelectSound DEF SelectImage
    <3> QED
      BY <1>0, <2>3, <3>2, OpensSound DEF SelectImage
  <2>4. CASE SelectVideo(p, c, j)
    <3> DEFINE want == [cut[c] EXCEPT !.video = j]
    <3>1. want \in Selection /\ want.image = cut[c].image /\ want.video = j
      BY <2>2 DEF Selection
    <3> HIDE DEF want
    <3>2. SelectTx(c, want) \in Transaction /\ Sound(SelectTx(c, want))
      BY <1>0, <2>4, <3>1, SelectSound DEF SelectVideo
    <3> QED
      BY <1>0, <2>4, <3>2, OpensSound DEF SelectVideo, want
  <2> QED
    BY <2>1, <2>3, <2>4
<1> QED
  BY <1>1, <1>2, <1>3, <1>4, <1>5 DEF ClientStep

\* No step of the system touches the rows in another way.
LEMMA NextIsStoreStep ==
  ASSUME TypeOK, [Next]_vars
  PROVE  StoreStep
<1>1. CASE Tick
  BY <1>1, TickIsStoreStep DEF Tick
<1>2. CASE \E c \in Call : CallActs(c)
  BY <1>2, CallIsStoreStep DEF CallActs
<1>3. CASE \E h \in Hook : HookActs(h)
  BY <1>3, HookIsStoreStep DEF HookActs
<1>4. CASE \E p \in Client : ClientActs(p)
  BY <1>4, ClientIsStoreStep DEF ClientActs
<1>5. CASE Switch
  BY <1>5 DEF Switch, SwitchMode, StoreStep, storeVars
<1>6. CASE \E j \in Job : Wakes(j) \/ Expires(j)
  BY <1>6 DEF Wakes, Expires, StoreStep, Elapses
<1>7. CASE \E j \in Job, a \in Attempt : Provider(j, a)
  BY <1>7 DEF Provider, ProviderFinishes, StoreStep
<1>8. CASE Crash
  BY <1>8 DEF Crash, StoreStep, Restarts
<1>9. CASE UNCHANGED vars
  BY <1>9 DEF vars, StoreStep
<1> QED
  BY <1>1, <1>2, <1>3, <1>4, <1>5, <1>6, <1>7, <1>8, <1>9 DEF Next

----------------------------------------------------------------------------
(***************************************************************************)
(* Type correctness.                                                       *)
(***************************************************************************)
\* The rows after a transaction are rows.
LEMMA JobsAfterType ==
  ASSUME StoreTypeOK, NEW t \in Transaction
  PROVE  JobsAfter(t) \in [Job -> Row]
<1>1. ASSUME NEW j \in Job
      PROVE  Merge(job[j], t.set[j], t.cols[j]) \in Row
  BY MergeType DEF StoreTypeOK, Transaction
<1>2. t.insert \in Row
  BY DEF Transaction
<1> QED
  BY <1>1, <1>2 DEF JobsAfter

\* The ways of touching the rows keep them well typed.
LEMMA StoreStepTyped ==
  ASSUME StoreTypeOK, StoreStep
  PROVE  StoreTypeOK'
<1>1. CASE UNCHANGED storeVars
  BY <1>1 DEF storeVars, StoreTypeOK
<1>2. CASE Opens
  BY <1>2 DEF Opens, Open, StoreTypeOK
<1>3. CASE Ends
  <2>1. PICK p \in Proc : Commit(p) \/ Conflict(p) \/ LockedOut(p)
    BY <1>3 DEF Ends
  <2>2. CASE Commit(p)
    <3> DEFINE t == tx[p]
    <3>1. t \in Transaction
      BY DEF StoreTypeOK
    <3>2. job' \in [Job -> Row]
      BY <2>2, <3>1, JobsAfterType DEF Commit
    <3>3. artifact' \in SUBSET Job
      <4>1. t.artifact \in Job \cup {None}
        BY <3>1 DEF Transaction
      <4> QED
        BY <2>2, <4>1 DEF Commit, StoreTypeOK
    <3>4. cut' \in [Cut -> Selection]
      <4>1. t.sel.image \in Job \cup {None} /\ t.sel.video \in Job \cup {None}
        BY <3>1 DEF Transaction, Selection
      <4>2. cut' = [c \in Cut |->
              IF c # t.cut THEN cut[c]
              ELSE [image |-> IF "image" \in t.selCols THEN t.sel.image
                                                       ELSE cut[c].image,
                    video |-> IF "video" \in t.selCols THEN t.sel.video
                                                       ELSE cut[c].video]]
        BY <2>2 DEF Commit
      <4> QED
        BY <4>1, <4>2 DEF StoreTypeOK, Selection
    <3>5. tx' \in [Proc -> Transaction]
      BY <2>2, ClosedSound DEF Commit, StoreTypeOK
    <3> QED
      BY <3>2, <3>3, <3>4, <3>5 DEF StoreTypeOK
  <2>3. CASE Conflict(p) \/ LockedOut(p)
    BY <2>3, ClosedSound DEF Conflict, LockedOut, StoreTypeOK
  <2> QED
    BY <2>1, <2>2, <2>3
<1>4. CASE Elapses
  <2>1. PICK j \in Job : WakeReached(j) \/ DeadlineReached(j)
    BY <1>4 DEF Elapses
  <2>2. job[j] \in Row
    BY DEF StoreTypeOK
  <2>3. /\ [job[j] EXCEPT !.wake = "reached"] \in Row
        /\ [job[j] EXCEPT !.deadline = "reached"] \in Row
    BY <2>2 DEF Row, Timer
  <2>4. \/ job' = [job EXCEPT ![j] = [job[j] EXCEPT !.wake = "reached"]]
        \/ job' = [job EXCEPT ![j] = [job[j] EXCEPT !.deadline = "reached"]]
    BY <2>1 DEF WakeReached, DeadlineReached
  <2>5. UNCHANGED <<artifact, cut, tx>>
    BY <2>1 DEF WakeReached, DeadlineReached
  <2> QED
    BY <2>3, <2>4, <2>5 DEF StoreTypeOK
<1>5. CASE Restarts
  BY <1>5, ClosedSound DEF Restarts, StoreTypeOK
<1> QED
  BY <1>1, <1>2, <1>3, <1>4, <1>5 DEF StoreStep

\* Every step keeps the mode a mode.
LEMMA RuntimeTyped ==
  ASSUME TypeOK, [Next]_vars
  PROVE  RuntimeTypeOK'
<1>1. CASE UNCHANGED runtimeVars
  BY <1>1 DEF TypeOK, RuntimeTypeOK, runtimeVars
<1>2. CASE Switch
  BY <1>2, RuntimeAssumption DEF Switch, SwitchMode, TypeOK, RuntimeTypeOK
<1>3. CASE Crash
  BY <1>3, RuntimeAssumption DEF Crash, RuntimeRestart, RuntimeTypeOK
<1> QED
  BY <1>1, <1>2, <1>3 DEF Next, vars, Tick, CallActs, HookActs, ClientActs,
     Wakes, Expires, Provider

\* Starting a gather keeps the tick and its calls well typed.
LEMMA GatherTyped ==
  ASSUME WorkerTypeOK,
         NEW kind \in {"submit", "poll"}, NEW jobs \in SUBSET Job,
         NEW attempt \in [Job -> Nat \cup {None}],
         Gather(kind, jobs, attempt)
  PROVE  /\ phase' \in Phase
         /\ gather' \subseteq Call
         /\ call' \in [Call -> Nat \cup {None}]
<1>1. ASSUME NEW j \in jobs
      PROVE  NewCall(kind, j) \in Call
  <2>1. Idle(kind, j) # {} /\ Idle(kind, j) \subseteq Nat
    BY WorkerAssumption DEF Gather, Idle
  <2>2. First(Idle(kind, j)) \in Generations
    BY <2>1, FirstIn DEF Idle
  <2> QED
    BY <2>2 DEF NewCall, Call
<1>2. gather' = {NewCall(kind, j) : j \in jobs}
  BY DEF Gather
<1>3. ASSUME NEW c \in Call
      PROVE  JobOf(c) \in Job
  BY DEF JobOf, Call
<1>4. call' \in [Call -> Nat \cup {None}]
  BY <1>3 DEF Gather, WorkerTypeOK
<1> QED
  BY <1>1, <1>2, <1>4 DEF Gather, Phase

\* The tick keeps the worker's state well typed.
LEMMA TickTyped ==
  ASSUME TypeOK, TickStep
  PROVE  WorkerTypeOK'
<1>0. WorkerTypeOK /\ StoreTypeOK
  BY DEF TypeOK
<1>1. CASE ClaimCommit
  <2> DEFINE attempt == [j \in Job |-> tx[Worker].set[j].attempts]
  <2>1. tx[Worker] \in Transaction
    BY <1>0, WorkerAssumption DEF StoreTypeOK
  <2>2. attempt \in [Job -> Nat]
    BY <2>1 DEF Transaction, Row
  <2>3. Gather("submit", Requests, attempt)
    BY <1>1 DEF ClaimCommit
  <2>4. Requests \in SUBSET Job
    BY DEF Requests
  <2>5. ledger' \in [Job -> [Attempt -> LedgerState]]
    BY <1>0, <1>1 DEF ClaimCommit, WorkerTypeOK, LedgerState
  <2>6. attempt \in [Job -> Nat \cup {None}]
    BY <2>2
  <2> HIDE DEF attempt
  <2> QED
    BY <1>0, <2>3, <2>4, <2>5, <2>6, GatherTyped DEF WorkerTypeOK
<1>2. CASE PollStart
  <2>1. PICK polled \in SUBSET PollDue :
          Gather("poll", polled, [j \in Job |-> job[j].task])
    BY <1>2 DEF PollStart
  <2>2. polled \in SUBSET Job
    BY DEF PollDue
  <2>3. [j \in Job |-> job[j].task] \in [Job -> Nat \cup {None}]
    BY <1>0 DEF StoreTypeOK, Row
  <2>4. ledger' = ledger
    BY <1>2 DEF PollStart
  <2> QED
    BY <1>0, <2>1, <2>2, <2>3, <2>4, GatherTyped DEF WorkerTypeOK
<1>3. ASSUME NEW next \in Phase, Goto(next)
      PROVE  WorkerTypeOK'
  BY <1>0, <1>3 DEF Goto, WorkerTypeOK
<1>4. CASE \/ NothingToRecover \/ RecoverRead \/ RecoverCommit
           \/ NothingToClaim \/ ClaimRead \/ ClaimOnlyOrphans
           \/ NothingToExpire \/ ExpireRead \/ ExpireCommit
           \/ NothingToPoll \/ WorkerRollback
  <2>1. \E next \in Phase : Goto(next)
    BY <1>4 DEF NothingToRecover, RecoverRead, RecoverCommit, NothingToClaim,
       ClaimRead, ClaimOnlyOrphans, NothingToExpire, ExpireRead, ExpireCommit,
       NothingToPoll, WorkerRollback, Phase
  <2> QED
    BY <1>3, <2>1
<1> QED
  BY <1>1, <1>2, <1>4 DEF TickStep

\* A provider call keeps the worker's state well typed.
LEMMA CallTyped ==
  ASSUME TypeOK, NEW c \in Call, CallStep(c)
  PROVE  WorkerTypeOK'
<1>0. WorkerTypeOK
  BY DEF TypeOK
<1>1. /\ phase' \in Phase
      /\ gather' \subseteq Call
      /\ call' \in [Call -> Nat \cup {None}]
  <2>1. CASE CallEnds(c)
    BY <1>0, <2>1 DEF CallEnds, WorkerTypeOK, Phase
  <2>2. CASE CallRaises(c)
    BY <1>0, <2>2 DEF CallRaises, WorkerTypeOK, Phase
  <2>3. CASE UNCHANGED <<call, gather, phase>>
    BY <1>0, <2>3 DEF WorkerTypeOK
  <2>4. \/ CallEnds(c) \/ CallRaises(c) \/ UNCHANGED <<call, gather, phase>>
    BY DEF CallStep, CallReturns, SubmitAccepted, SubmitRejected,
       SubmitRefused, PollUnsettled, PollFailed, PollRetryable, PollSucceeded,
       Unroutable, CallCommit, CallRollback, ReadThen
  <2> QED
    BY <2>1, <2>2, <2>3, <2>4
<1>2. ledger' \in [Job -> [Attempt -> LedgerState]]
  <2>1. ASSUME NEW outcome \in LedgerState, Record(c, outcome)
        PROVE  ledger' \in [Job -> [Attempt -> LedgerState]]
    BY <1>0, <2>1 DEF Record, WorkerTypeOK
  <2>2. UNCHANGED ledger \/ \E outcome \in LedgerState : Record(c, outcome)
    BY DEF CallStep, CallReturns, SubmitAccepted, SubmitRejected,
       SubmitRefused, PollUnsettled, PollFailed, PollRetryable, PollSucceeded,
       Unroutable, CallCommit, CallRollback, LedgerState
  <2> QED
    BY <1>0, <2>1, <2>2 DEF WorkerTypeOK
<1> QED
  BY <1>1, <1>2 DEF WorkerTypeOK

\* Every step keeps the worker's state well typed.
LEMMA WorkerTyped ==
  ASSUME TypeOK, [Next]_vars
  PROVE  WorkerTypeOK'
<1>0. WorkerTypeOK
  BY DEF TypeOK
<1>1. CASE Tick
  BY <1>1, TickTyped DEF Tick
<1>2. CASE \E c \in Call : CallActs(c)
  BY <1>2, CallTyped DEF CallActs
<1>3. CASE \E j \in Job, a \in Attempt : Provider(j, a)
  BY <1>0, <1>3 DEF Provider, ProviderFinishes, WorkerTypeOK, LedgerState
<1>4. CASE Crash
  BY <1>0, <1>4 DEF Crash, WorkerTypeOK, Phase, LedgerState
<1>5. CASE UNCHANGED workerVars
  BY <1>0, <1>5 DEF workerVars, WorkerTypeOK
<1>6. ASSUME NEW h \in Hook, HookStep(h)
      PROVE  UNCHANGED workerVars
  BY <1>6 DEF HookStep, Receive, Apply, HookCommit, HookRollback
<1>7. (\E h \in Hook : HookActs(h)) => UNCHANGED workerVars
  BY <1>6 DEF HookActs
<1>8. \/ \E p \in Client : ClientActs(p)
      \/ Switch
      \/ \E j \in Job : Wakes(j) \/ Expires(j)
      \/ UNCHANGED vars
      => UNCHANGED workerVars
  BY DEF ClientActs, Switch, Wakes, Expires, vars
<1> QED
  BY <1>1, <1>2, <1>3, <1>4, <1>5, <1>7, <1>8 DEF Next

\* Every step keeps the callbacks' state well typed.
LEMMA HookTyped ==
  ASSUME TypeOK, [Next]_vars
  PROVE  HookTypeOK'
<1>0. HookTypeOK
  BY DEF TypeOK
<1>1. ASSUME NEW h \in Hook, HookStep(h)
      PROVE  HookTypeOK'
  <2>1. CASE Receive(h)
    BY <1>0, <2>1 DEF Receive, HookTypeOK, Found
  <2>2. CASE Apply(h) \/ HookCommit(h) \/ HookRollback(h)
    BY <1>0, <2>2 DEF Apply, HookCommit, HookRollback, Done, HookTypeOK
  <2> QED
    BY <1>1, <2>1, <2>2 DEF HookStep
<1>2. CASE Crash
  BY <1>0, <1>2 DEF Crash, HookTypeOK
<1>3. CASE UNCHANGED hookVars
  BY <1>0, <1>3 DEF hookVars, HookTypeOK
<1> QED
  BY <1>1, <1>2, <1>3 DEF Next, vars, Tick, CallActs, HookActs, ClientActs,
     Switch, Wakes, Expires, Provider

\* Going on with a batch leaves a request, or none.
LEMMA ProceedTyped ==
  ASSUME ApiTypeOK, NEW p \in Client, client[p] # None, Proceed(p)
  PROVE  ApiTypeOK'
<1>1. client[p] \in Request
  BY DEF ApiTypeOK
<1>2. client[p].left \in (SUBSET Cut) \ {{}}
  BY <1>1 DEF Request
<1> DEFINE left == client[p].left \ {NextCut(p)}
<1>3. client' = [client EXCEPT
                   ![p] = IF left = {} THEN None
                                       ELSE [client[p] EXCEPT !.left = left]]
  BY DEF Proceed
<1>4. left # {} => [client[p] EXCEPT !.left = left] \in Request
  BY <1>1, <1>2 DEF Request
<1> HIDE DEF left
<1> QED
  BY <1>3, <1>4 DEF ApiTypeOK

\* Every step keeps the requests well typed.
LEMMA ApiTyped ==
  ASSUME TypeOK, [Next]_vars
  PROVE  ApiTypeOK'
<1>0. ApiTypeOK /\ mode \in Mode
  BY DEF TypeOK, RuntimeTypeOK
<1>1. CASE UNCHANGED apiVars
  BY <1>0, <1>1 DEF apiVars, ApiTypeOK
<1>2. ASSUME NEW p \in Client, RequestCreation(p)
      PROVE  ApiTypeOK'
  <2>1. PICK kind \in RequestKinds, cuts \in (SUBSET Cut) \ {{}} :
          RequestJobs(p, kind, cuts)
    <3>1. Cut # {}
      BY StoreAssumption DEF Cut
    <3> QED
      BY <1>2, <3>1 DEF RequestCreation
  <2>2. [kind |-> kind, mode |-> mode, left |-> cuts] \in Request
    BY <1>0, <2>1, ApiAssumption DEF Request
  <2> QED
    BY <1>0, <2>1, <2>2 DEF RequestJobs, ApiTypeOK
<1>3. ASSUME NEW p \in Client, CreateRefused(p) \/ CreateCommit(p) \/ CreateConflict(p)
      PROVE  ApiTypeOK'
  BY <1>0, <1>3, ProceedTyped DEF CreateRefused, CreateCommit, CreateConflict
<1>4. ASSUME NEW p \in Client, CreateLockedOut(p)
      PROVE  ApiTypeOK'
  BY <1>0, <1>4 DEF CreateLockedOut, Answered, ApiTypeOK
<1>5. ASSUME NEW p \in Client,
             CreateRead(p) \/ SelectCommit(p) \/ SelectLockedOut(p)
                           \/ RequestSelection(p)
      PROVE  UNCHANGED apiVars
  BY <1>5 DEF CreateRead, SelectCommit, SelectLockedOut, RequestSelection,
     SelectImage, SelectVideo
<1>6. ASSUME NEW p \in Client, ClientActs(p)
      PROVE  ApiTypeOK'
  BY <1>1, <1>2, <1>3, <1>4, <1>5, <1>6
     DEF ClientActs, ClientStep, ClientCommits
<1>7. CASE Crash
  BY <1>7 DEF Crash, ApiTypeOK
<1> QED
  BY <1>1, <1>6, <1>7 DEF Next, vars, Tick, CallActs, HookActs, Switch, Wakes,
     Expires, Provider

\* Crashes are counted in naturals.
LEMMA CrashesTyped ==
  ASSUME TypeOK, [Next]_vars
  PROVE  crashes' \in Nat
  BY DEF TypeOK, Next, vars, Tick, CallActs, HookActs, ClientActs, Switch,
     Wakes, Expires, Provider, Crash

\* The state at startup is well typed.
LEMMA InitTyped ==
  ASSUME Init
  PROVE  TypeOK
<1>1. StoreTypeOK
  <2>1. \A c \in Cut : StartImages(c) # {} => First(StartImages(c)) \in Job
    BY FirstJob DEF StartImages
  <2>2. cut \in [Cut -> Selection]
    BY <2>1 DEF Init, StoreInit, Selection
  <2>3. artifact \subseteq Job
    BY DEF Init, StoreInit
  <2>4. tx \in [Proc -> Transaction]
    BY ClosedSound DEF Init, StoreInit
  <2>5. job \in [Job -> Row]
    BY BacklogAssumption DEF Init, StoreInit
  <2> QED
    BY <2>2, <2>3, <2>4, <2>5 DEF StoreTypeOK
<1>2. RuntimeTypeOK
  BY RuntimeAssumption DEF Init, RuntimeInit, RuntimeTypeOK
<1>3. WorkerTypeOK
  BY DEF Init, WorkerInit, WorkerTypeOK, Phase, LedgerState
<1>4. HookTypeOK
  BY DEF Init, HookInit, HookTypeOK
<1>5. ApiTypeOK
  BY DEF Init, ApiInit, ApiTypeOK
<1> QED
  BY <1>1, <1>2, <1>3, <1>4, <1>5 DEF Init, TypeOK

(***************************************************************************)
(* The state of the backend is well typed, whatever commits over whatever. *)
(***************************************************************************)
THEOREM TypeCorrect == Spec => []TypeOK
<1>1. Init => TypeOK
  BY InitTyped
<1>2. TypeOK /\ [Next]_vars => TypeOK'
  <2> SUFFICES ASSUME TypeOK, [Next]_vars
               PROVE  TypeOK'
    OBVIOUS
  <2>1. StoreTypeOK'
    BY NextIsStoreStep, StoreStepTyped DEF TypeOK
  <2> QED
    BY <2>1, RuntimeTyped, WorkerTyped, HookTyped, ApiTyped, CrashesTyped
       DEF TypeOK
<1> QED
  BY <1>1, <1>2, PTL DEF Spec

----------------------------------------------------------------------------
(***************************************************************************)
(* Integrity of the rows.                                                  *)
(***************************************************************************)

\* What no step takes back: the rows there are, what they were created for,
\* and the artifacts.
Kept ==
  /\ \A i \in Job : Exists(i) =>
       /\ job'[i].status # "ABSENT"
       /\ job'[i].cut = job[i].cut /\ job'[i].kind = job[i].kind
       /\ job'[i].mode = job[i].mode
  /\ artifact \subseteq artifact'

\* A source image that fits keeps fitting.
LEMMA SourceKept ==
  ASSUME Kept, artifact \subseteq Job, \A j \in artifact : Exists(j),
         NEW r, SourceFits(r)
  PROVE  SourceFits(r)'
  BY DEF Kept, SourceFits, IsArtifact

\* A pending write that is sound stays sound while others commit.
LEMMA SoundKept ==
  ASSUME Kept, StoreTypeOK, \A j \in artifact : Exists(j),
         NEW t, t \in Transaction, Sound(t)
  PROVE  Sound(t)'
<1>1. t.artifact # None => t.artifact \in Job /\ Exists(t.artifact)
  BY DEF Transaction, Sound
<1>2. (t.artifact # None => Exists(t.artifact))'
  BY <1>1 DEF Kept, Exists
<1>3. SourceFits(t.insert)'
  BY SourceKept DEF Sound, StoreTypeOK
<1>4. ASSUME NEW i, NEW kind, SelectionFits(t, i, kind)
      PROVE  SelectionFits(t, i, kind)'
  <2>1. Exists(i) /\ i \in Job
    <3>1. i \in Job /\ (i \in artifact \/ i = t.artifact)
      BY <1>4 DEF SelectionFits
    <3> QED
      BY <1>1, <3>1, NoneIsNoJob
  <2> QED
    BY <1>4, <2>1 DEF SelectionFits, Kept
<1>5. ("image" \in t.selCols => SelectionFits(t, t.sel.image, "IMAGE"))'
  BY <1>4 DEF Sound
<1>6. ("video" \in t.selCols /\ t.sel.video # None =>
         SelectionFits(t, t.sel.video, "VIDEO"))'
  BY <1>4 DEF Sound
<1>7. OfSomeCut(t.insert)'
  BY DEF Sound, OfSomeCut
<1> QED
  BY <1>2, <1>3, <1>5, <1>6, <1>7 DEF Sound

\* The rows themselves, without what is under way.
RowsConsistent ==
  /\ SucceededHasArtifact
  /\ SelectionOfOwnCut
  /\ SourceOfOwnCutAndMode
  /\ OneActiveJob
  /\ \A j \in artifact : Exists(j)
  /\ \A j \in Job : OfSomeCut(job[j])

\* A commit takes nothing back, and marks a job SUCCEEDED only with its
\* artifact.
LEMMA CommitKeeps ==
  ASSUME StoreTypeOK, NEW p \in Proc, Sound(tx[p]), Commit(p)
  PROVE  /\ Kept
         /\ \A j \in Job :
              \/ job'[j] = tx[p].insert /\ tx[p].insert.status = "QUEUED"
              \/ /\ job'[j].cut = job[j].cut /\ job'[j].kind = job[j].kind
                 /\ job'[j].mode = job[j].mode /\ job'[j].source = job[j].source
                 /\ \/ job'[j].status = job[j].status
                    \/ job'[j].status = "SUCCEEDED" => tx[p].artifact = j
<1> DEFINE t == tx[p]
<1>0. t \in Transaction
  BY DEF StoreTypeOK
<1>1. /\ job' = [j \in Job |-> IF j = NewId(t) THEN t.insert
                               ELSE Merge(job[j], t.set[j], t.cols[j])]
      /\ artifact \subseteq artifact'
  BY DEF Commit, JobsAfter
<1>2. ASSUME NEW j \in Job, j = NewId(t)
      PROVE  ~ Exists(j) /\ t.insert.status = "QUEUED"
  <2>1. t.insert.status # "ABSENT"
    BY <1>2, NoneIsNoJob DEF NewId
  <2>2. Absent # {} /\ Absent \subseteq Job
    BY <2>1 DEF Commit, Absent
  <2>3. j \in Absent
    BY <1>2, <2>1, <2>2, FirstJob DEF NewId
  <2> QED
    BY <2>1, <2>3 DEF Absent, Sound
<1>3. ASSUME NEW j \in Job, j # NewId(t)
      PROVE  /\ job'[j].cut = job[j].cut /\ job'[j].kind = job[j].kind
             /\ job'[j].mode = job[j].mode /\ job'[j].source = job[j].source
             /\ job'[j].status = IF "status" \in t.cols[j] THEN t.set[j].status
                                                           ELSE job[j].status
  <2>1. job[j] \in Row /\ t.set[j] \in Row /\ t.cols[j] \in SUBSET Column
    BY <1>0 DEF StoreTypeOK, Transaction
  <2>2. job'[j] = Merge(job[j], t.set[j], t.cols[j])
    BY <1>1, <1>3
  <2> QED
    BY <2>1, <2>2, MergeType
<1>4. \A j \in Job : "status" \in t.cols[j] =>
        /\ t.set[j].status # "ABSENT"
        /\ t.set[j].status = "SUCCEEDED" => t.artifact = j
  BY DEF Sound
<1> HIDE DEF t
<1>5. Kept
  BY <1>1, <1>2, <1>3, <1>4 DEF Kept, Exists
<1>6. \A j \in Job :
        \/ job'[j] = t.insert /\ t.insert.status = "QUEUED"
        \/ /\ job'[j].cut = job[j].cut /\ job'[j].kind = job[j].kind
           /\ job'[j].mode = job[j].mode /\ job'[j].source = job[j].source
           /\ \/ job'[j].status = job[j].status
              \/ job'[j].status = "SUCCEEDED" => t.artifact = j
  BY <1>1, <1>2, <1>3, <1>4
<1> QED
  BY <1>5, <1>6 DEF t

\* A sound commit keeps the rows consistent, whatever was committed since the
\* rows it was computed from were read.
LEMMA CommitConsistent ==
  ASSUME StoreTypeOK, RowsConsistent, NEW p \in Proc, Sound(tx[p]), Commit(p)
  PROVE  RowsConsistent'
<1> DEFINE t == tx[p]
<1>0. t \in Transaction
  BY DEF StoreTypeOK
<1>1. Kept
  BY CommitKeeps
<1>2. \A j \in Job :
        \/ job'[j] = t.insert /\ t.insert.status = "QUEUED"
        \/ /\ job'[j].cut = job[j].cut /\ job'[j].kind = job[j].kind
           /\ job'[j].mode = job[j].mode /\ job'[j].source = job[j].source
           /\ \/ job'[j].status = job[j].status
              \/ job'[j].status = "SUCCEEDED" => t.artifact = j
  BY CommitKeeps
<1>3. /\ artifact' = artifact \cup ({t.artifact} \ {None})
      /\ cut' = [c \in Cut |->
              IF c # t.cut THEN cut[c]
              ELSE [image |-> IF "image" \in t.selCols THEN t.sel.image
                                                       ELSE cut[c].image,
                    video |-> IF "video" \in t.selCols THEN t.sel.video
                                                       ELSE cut[c].video]]
  BY DEF Commit
<1>4. /\ t.artifact # None => t.artifact \in Job /\ Exists(t.artifact)
      /\ SourceFits(t.insert) /\ OfSomeCut(t.insert)
      /\ "image" \in t.selCols => SelectionFits(t, t.sel.image, "IMAGE")
      /\ "video" \in t.selCols /\ t.sel.video # None =>
           SelectionFits(t, t.sel.video, "VIDEO")
  BY <1>0 DEF Sound, Transaction
<1>5. \A j \in artifact : j \in Job /\ Exists(j)
  BY DEF RowsConsistent, StoreTypeOK
<1>6. OneActiveJob'
  BY DEF Commit, Accepted, ActiveIndexHolds, OneActiveJob
<1> HIDE DEF t
<1>7. SucceededHasArtifact'
  BY <1>2, <1>3, NoneIsNoJob DEF SucceededHasArtifact, RowsConsistent
<1>8. (\A j \in artifact : Exists(j))'
  BY <1>1, <1>3, <1>4, <1>5 DEF Kept, Exists
<1>9. ASSUME NEW i, NEW kind, SelectionFits(t, i, kind)
      PROVE  IsArtifact(i, kind)' /\ job'[i].cut = t.cut
  <2>1. i \in Job /\ i \in artifact'
    BY <1>3, <1>9, NoneIsNoJob DEF SelectionFits
  <2>2. Exists(i)
    BY <1>4, <1>5, <1>9, NoneIsNoJob DEF SelectionFits
  <2> QED
    BY <1>1, <1>9, <2>1, <2>2 DEF SelectionFits, IsArtifact, Kept
<1>10. ASSUME NEW i, NEW kind, IsArtifact(i, kind)
       PROVE  IsArtifact(i, kind)' /\ job'[i].cut = job[i].cut
                                   /\ job'[i].mode = job[i].mode
  BY <1>1, <1>5, <1>10 DEF IsArtifact, Kept
<1>11. SelectionOfOwnCut'
  <2> SUFFICES ASSUME NEW c \in Cut
               PROVE  /\ cut'[c].image # None =>
                           /\ IsArtifact(cut[c].image, "IMAGE")'
                           /\ job'[cut'[c].image].cut = c
                      /\ cut'[c].video # None =>
                           /\ IsArtifact(cut[c].video, "VIDEO")'
                           /\ job'[cut'[c].video].cut = c
    BY DEF SelectionOfOwnCut
  <2>1. /\ \/ cut'[c].image = cut[c].image
           \/ c = t.cut /\ "image" \in t.selCols /\ cut'[c].image = t.sel.image
        /\ \/ cut'[c].video = cut[c].video
           \/ c = t.cut /\ "video" \in t.selCols /\ cut'[c].video = t.sel.video
    BY <1>3
  <2>2. /\ cut[c].image # None => /\ IsArtifact(cut[c].image, "IMAGE")
                                  /\ job[cut[c].image].cut = c
        /\ cut[c].video # None => /\ IsArtifact(cut[c].video, "VIDEO")
                                  /\ job[cut[c].video].cut = c
    BY DEF RowsConsistent, SelectionOfOwnCut
  <2>3. PICK i : i = cut'[c].image
    OBVIOUS
  <2>4. PICK v : v = cut'[c].video
    OBVIOUS
  <2>5. i # None => IsArtifact(i, "IMAGE")' /\ job'[i].cut = c
    BY <1>4, <1>9, <1>10, <2>1, <2>2, <2>3
  <2>6. v # None => IsArtifact(v, "VIDEO")' /\ job'[v].cut = c
    BY <1>4, <1>9, <1>10, <2>1, <2>2, <2>4
  <2> QED
    BY <2>3, <2>4, <2>5, <2>6 DEF IsArtifact
<1>12. SourceOfOwnCutAndMode'
  <2> SUFFICES ASSUME NEW j \in Job, job'[j].kind = "VIDEO", job'[j].source # None
               PROVE  /\ job'[j].source \in artifact'
                      /\ job'[job'[j].source].kind = "IMAGE"
                      /\ job'[job'[j].source].cut = job'[j].cut
                      /\ job'[job'[j].source].mode = job'[j].mode
    BY DEF SourceOfOwnCutAndMode, SourceFits, IsArtifact
  <2>1. CASE job'[j] = t.insert
    BY <1>4, <1>10, <2>1 DEF SourceFits, IsArtifact
  <2>2. CASE /\ job'[j].cut = job[j].cut /\ job'[j].kind = job[j].kind
             /\ job'[j].mode = job[j].mode /\ job'[j].source = job[j].source
    <3>1. SourceFits(job[j])
      BY DEF RowsConsistent, SourceOfOwnCutAndMode
    <3> QED
      BY <1>10, <2>2, <3>1 DEF SourceFits, IsArtifact
  <2> QED
    BY <1>2, <2>1, <2>2
<1>13. (\A j \in Job : OfSomeCut(job[j]))'
  BY <1>2, <1>4 DEF RowsConsistent, OfSomeCut
<1> QED
  BY <1>6, <1>7, <1>8, <1>11, <1>12, <1>13 DEF RowsConsistent

\* Integrity survives every way of touching the rows.
LEMMA StoreStepIntegrity ==
  ASSUME StoreTypeOK, Integrity, StoreStep
  PROVE  Integrity'
<1>0. StoreTypeOK'
  BY StoreStepTyped
<1>1. RowsConsistent /\ \A p \in Proc : Sound(tx[p])
  BY DEF Integrity, RowsConsistent
<1>2. Kept /\ RowsConsistent'
  <2>1. CASE UNCHANGED <<job, artifact, cut>>
    BY <1>1, <2>1 DEF Kept, Exists, RowsConsistent, SucceededHasArtifact,
       SelectionOfOwnCut, SourceOfOwnCutAndMode, SourceFits, IsArtifact,
       OneActiveJob, OfSomeCut
  <2>2. ASSUME NEW p \in Proc, Commit(p)
        PROVE  Kept /\ RowsConsistent'
    BY <1>1, <2>2, CommitKeeps, CommitConsistent
  <2>3. CASE Elapses
    <3>1. PICK j \in Job : WakeReached(j) \/ DeadlineReached(j)
      BY <2>3 DEF Elapses
    <3>2. /\ UNCHANGED <<artifact, cut>>
          /\ \A i \in Job : /\ job'[i].status = job[i].status
                            /\ job'[i].cut = job[i].cut
                            /\ job'[i].kind = job[i].kind
                            /\ job'[i].mode = job[i].mode
                            /\ job'[i].source = job[i].source
      BY <3>1 DEF WakeReached, DeadlineReached, StoreTypeOK, Row
    <3>3. artifact \subseteq Job
      BY DEF StoreTypeOK
    <3>4. Kept
      BY <3>2 DEF Kept, Exists
    <3>5. /\ SucceededHasArtifact' /\ OneActiveJob'
          /\ (\A i \in artifact : Exists(i))'
      BY <1>1, <3>2, <3>3 DEF RowsConsistent, SucceededHasArtifact,
         OneActiveJob, Exists
    <3>6. SelectionOfOwnCut'
      BY <1>1, <3>2, <3>3 DEF RowsConsistent, SelectionOfOwnCut, IsArtifact
    <3>7. SourceOfOwnCutAndMode'
      BY <1>1, <3>2, <3>3 DEF RowsConsistent, SourceOfOwnCutAndMode,
         SourceFits, IsArtifact
    <3>8. (\A i \in Job : OfSomeCut(job[i]))'
      BY <1>1, <3>2 DEF RowsConsistent, OfSomeCut
    <3> QED
      BY <3>4, <3>5, <3>6, <3>7, <3>8 DEF RowsConsistent
  <2>4. \/ UNCHANGED <<job, artifact, cut>> \/ Elapses
        \/ \E p \in Proc : Commit(p)
    BY DEF StoreStep, storeVars, Opens, Open, Ends, Conflict, LockedOut, Restarts
  <2> QED
    BY <2>1, <2>2, <2>3, <2>4
<1>3. ASSUME NEW p \in Proc
      PROVE  \E t \in Transaction : tx'[p] = t /\ Sound(t)
  <2>1. CASE Opens
    <3>1. PICK q \in Proc, t \in Transaction : Sound(t) /\ Open(q, t)
      BY <2>1 DEF Opens
    <3> QED
      BY <1>1, <3>1 DEF Open, StoreTypeOK
  <2>2. CASE Ends \/ Restarts
    <3>1. tx'[p] = tx[p] \/ tx'[p] = Closed
      BY <2>2 DEF Ends, Commit, Conflict, LockedOut, Restarts, StoreTypeOK
    <3> QED
      BY <1>1, <3>1, ClosedSound DEF StoreTypeOK
  <2>3. CASE UNCHANGED storeVars \/ Elapses
    <3>1. tx' = tx
      BY <2>3 DEF storeVars, Elapses, WakeReached, DeadlineReached
    <3> QED
      BY <1>1, <3>1 DEF StoreTypeOK
  <2> QED
    BY <2>1, <2>2, <2>3 DEF StoreStep
<1>4. ASSUME NEW p \in Proc
      PROVE  Sound(tx[p])'
  <2>1. PICK t \in Transaction : tx'[p] = t /\ Sound(t)
    BY <1>3
  <2>2. Sound(t)'
    BY <1>1, <1>2, <2>1, SoundKept DEF RowsConsistent
  <2> QED
    BY <2>1, <2>2 DEF Sound, SourceFits, SelectionFits, Exists, IsArtifact,
                      OfSomeCut
<1> QED
  BY <1>2, <1>4 DEF Integrity, RowsConsistent

\* The rows found at startup are consistent.
LEMMA InitIntegrity ==
  ASSUME Init
  PROVE  Integrity
<1>1. /\ job = Backlog
      /\ artifact = {j \in Job : Backlog[j].status = "SUCCEEDED"}
      /\ tx = [p \in Proc |-> Closed]
      /\ cut = [c \in Cut |->
                 [image |-> IF StartImages(c) = {} THEN None
                                                   ELSE First(StartImages(c)),
                  video |-> None]]
  BY DEF Init, StoreInit
<1>2. SucceededHasArtifact /\ \A j \in artifact : Exists(j)
  BY <1>1 DEF SucceededHasArtifact, Exists
<1>3. SelectionOfOwnCut
  <2>1. ASSUME NEW c \in Cut, StartImages(c) # {}
        PROVE  First(StartImages(c)) \in StartImages(c)
    BY <2>1, FirstJob DEF StartImages
  <2> QED
    BY <1>1, <2>1 DEF SelectionOfOwnCut, StartImages, IsArtifact
<1>4. SourceOfOwnCutAndMode
  <2> SUFFICES ASSUME NEW j \in Job
               PROVE  SourceFits(Backlog[j])
    BY <1>1 DEF SourceOfOwnCutAndMode
  <2>1. Backlog[j].source \in Job \cup {None}
    BY BacklogAssumption DEF Row
  <2> QED
    BY <1>1, <2>1, BacklogAssumption DEF SourceFits, IsArtifact
<1>5. OneActiveJob
  BY <1>1, BacklogAssumption DEF OneActiveJob
<1>6. \A p \in Proc : Sound(tx[p])
  BY <1>1, ClosedSound
<1>7. \A j \in Job : OfSomeCut(job[j])
  BY <1>1, BacklogAssumption DEF OfSomeCut
<1> QED
  BY <1>2, <1>3, <1>4, <1>5, <1>6, <1>7 DEF Integrity

(***************************************************************************)
(* The rows are consistent, and so is every write that is under way: the   *)
(* inductive invariant behind the theorems that follow.                    *)
(***************************************************************************)
THEOREM AlwaysIntegrity == Spec => []Integrity
<1>1. Init => TypeOK /\ Integrity
  BY InitTyped, InitIntegrity
<1>2. TypeOK /\ Integrity /\ [Next]_vars => Integrity'
  BY NextIsStoreStep, StoreStepIntegrity DEF TypeOK
<1> QED
  BY <1>1, <1>2, TypeCorrect, PTL DEF Spec

(***************************************************************************)
(* A job that says SUCCEEDED has its artifact.                             *)
(***************************************************************************)
THEOREM SucceededAlwaysHasArtifact == Spec => []SucceededHasArtifact
<1>1. Integrity => SucceededHasArtifact
  BY DEF Integrity
<1> QED
  BY <1>1, AlwaysIntegrity, PTL

(***************************************************************************)
(* What a cut selects was generated for it.                                *)
(***************************************************************************)
THEOREM SelectionAlwaysOfOwnCut == Spec => []SelectionOfOwnCut
<1>1. Integrity => SelectionOfOwnCut
  BY DEF Integrity
<1> QED
  BY <1>1, AlwaysIntegrity, PTL

(***************************************************************************)
(* A video job's source image is there, of its cut and of its mode.        *)
(***************************************************************************)
THEOREM SourceAlwaysOfOwnCutAndMode == Spec => []SourceOfOwnCutAndMode
<1>1. Integrity => SourceOfOwnCutAndMode
  BY DEF Integrity
<1> QED
  BY <1>1, AlwaysIntegrity, PTL
=============================================================================
