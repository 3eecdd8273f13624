----------------------------- MODULE BoardProofs -----------------------------
(***************************************************************************)
(* Proof that the backend, when its worker alone drives the jobs,          *)
(* implements Board: what readers see of its rows are jobs that run and    *)
(* end once, artifacts that come with their success, and selections made   *)
(* among those, over every interleaving of stale writes.                   *)
(*                                                                         *)
(* A commit must be one step of the board as the rows are by then.  What a *)
(* transaction decided on the rows it read is in its columns: that a first *)
(* image selects itself, that a selection was made beside an image that is *)
(* there.  Formed says that these decisions still fit.                     *)
(*                                                                         *)
(* From the same invariant: what the anchor gate decided when a claim was  *)
(* read still holds when it commits, requests in between included.         *)
(***************************************************************************)
EXTENDS LifecycleProofs

\* A transaction that only updates rows of jobs.
RowsOnly(t) == t.artifact = None /\ t.selCols = {} /\ t.insert.status = "ABSENT"

\* _complete: it writes no job but its own, and a first image is selected
\* exactly when, now, the cut has none.
Completes(t, rows, cuts) ==
  LET j == t.artifact IN
  /\ t.insert.status = "ABSENT"
  /\ t.cut = rows[j].cut
  /\ \A i \in Job \ {j} : t.cols[i] = {}
  /\ rows[j].kind = "IMAGE" =>
       /\ t.selCols = IF cuts[t.cut].image = None THEN {"image"} ELSE {}
       /\ t.sel.image = j
  /\ rows[j].kind = "VIDEO" =>
       /\ t.selCols \subseteq {"video"}
       /\ t.sel.video = j

\* _create_job
Inserts(t) ==
  /\ t.artifact = None /\ t.selCols = {}
  /\ \A i \in Job : t.cols[i] = {}
  /\ t.insert.kind \in Kind
  /\ t.insert.source = None <=> t.insert.kind = "IMAGE"

\* select_image and select_video: a video is dropped only beside an image.
Selects(t, cuts) ==
  /\ t.insert.status = "ABSENT"
  /\ \A i \in Job : t.cols[i] = {}
  /\ t.cut \in Cut
  /\ "image" \in t.selCols => t.sel.image # None /\ t.sel.video = None
  /\ t.sel.video = None => cuts[t.cut].image # None

Formed(t, rows, cuts) ==
  /\ t.artifact # None => Completes(t, rows, cuts)
  /\ t.insert.status # "ABSENT" => Inserts(t)
  /\ t.artifact = None /\ t.selCols # {} => Selects(t, cuts)

(***************************************************************************)
(* The invariant: every job is of a kind, a cut with an image has one      *)
(* selected, and every pending write is formed.                            *)
(***************************************************************************)
Kinds == \A j \in Job : Exists(j) => job[j].kind \in Kind

ImageSelected ==
  \A j \in artifact : job[j].kind = "IMAGE" => cut[job[j].cut].image # None

AllFormed == \A p \in Proc : Formed(tx[p], job, cut)

Seen == Kinds /\ ImageSelected /\ AllFormed

----------------------------------------------------------------------------
(***************************************************************************)
(* What the handlers open is formed.                                       *)
(***************************************************************************)
\* Nothing is asked of a transaction that only updates rows.
LEMMA RowsOnlyFormed ==
  ASSUME NEW t, RowsOnly(t), NEW rows, NEW cuts
  PROVE  Formed(t, rows, cuts)
  BY DEF RowsOnly, Formed

\* _fail, the retry, the reschedule and the success of _submit only update the
\* row of their job.
LEMMA AnswerRowsOnly ==
  ASSUME StoreTypeOK, NEW j \in Job, NEW task \in Nat \cup {None}
  PROVE  /\ RowsOnly(FailTx(j)) /\ RowsOnly(RetryTx(j))
         /\ RowsOnly(RescheduleTx(j)) /\ RowsOnly(ProcessingTx(j, task))
<1>1. ASSUME NEW want \in Row, NEW stamped \in Stamps
      PROVE  RowsOnly(Update(j, want, stamped))
  BY <1>1, UpdateColumns DEF RowsOnly, NoRow
<1>2. job[j] \in Row /\ Failed(job[j]) \in Row /\ Retried(job[j]) \in Row
  BY RowTypes DEF StoreTypeOK
<1>3. [job[j] EXCEPT !.wake = "ahead"] \in Row
  BY <1>2 DEF Row, Timer
<1>8. [job[j] EXCEPT !.status = "PROCESSING", !.task = task,
                     !.wake = "ahead", !.deadline = "ahead"] \in Row
  <2>1. "PROCESSING" \in JobStatus \cup {"ABSENT"} /\ "ahead" \in Timer
    BY DEF JobStatus, Timer
  <2> QED
    BY <1>2, <2>1 DEF Row
<1>4. {} \in Stamps /\ {"wake"} \in Stamps /\ {"wake", "deadline"} \in Stamps
  BY DEF Stamps
<1>5. RowsOnly(FailTx(j))
  BY <1>1, <1>2, <1>4 DEF FailTx
<1>6. RowsOnly(RetryTx(j))
  BY <1>1, <1>2, <1>4, <1>5 DEF RetryTx
<1>7. RowsOnly(RescheduleTx(j)) /\ RowsOnly(ProcessingTx(j, task))
  BY <1>1, <1>3, <1>4, <1>8 DEF RescheduleTx, ProcessingTx
<1> QED
  BY <1>5, <1>6, <1>7

\* So does the claim, row by row.
LEMMA ClaimRowsOnly == RowsOnly(ClaimTx)
  BY DEF RowsOnly, ClaimTx, Closed, NoRow

\* _complete reads the cut and the job in one step.
LEMMA CompleteFormed ==
  ASSUME StoreTypeOK, NEW j \in Job, Exists(j), job[j].kind \in Kind
  PROVE  Formed(CompleteTx(j), job, cut)
<1>1. CASE job[j].kind = "VIDEO" /\ job[j].source = None
  BY <1>1, AnswerRowsOnly, RowsOnlyFormed, StoreAssumption DEF CompleteTx
<1>2. CASE ~ (job[j].kind = "VIDEO" /\ job[j].source = None)
  <2> DEFINE u == Update(j, Succeeded(job[j]), {})
             t == CompleteTx(j)
             sel == [image |-> IF job[j].kind = "IMAGE" THEN j ELSE None,
                     video |-> IF job[j].kind = "VIDEO" THEN j ELSE None]
  <2>1. Succeeded(job[j]) \in Row
    BY RowTypes DEF StoreTypeOK
  <2>2. /\ u \in Transaction /\ u.insert.status = "ABSENT"
        /\ \A i \in Job \ {j} : u.cols[i] = {}
    BY <2>1, UpdateColumns DEF Stamps, NoRow
  <2>3. t = [u EXCEPT !.artifact = j, !.cut = job[j].cut,
                      !.selCols = TakesOver(j), !.sel = sel]
    BY <1>2, Zenon DEF CompleteTx
  <2> HIDE DEF u, t, sel
  <2>4. /\ t.cols = u.cols /\ t.insert = u.insert /\ t.artifact = j
        /\ t.cut = job[j].cut /\ t.selCols = TakesOver(j) /\ t.sel = sel
    BY <2>2, <2>3 DEF Transaction
  <2>5. /\ job[j].kind = "IMAGE" =>
             TakesOver(j) = IF cut[job[j].cut].image = None THEN {"image"} ELSE {}
        /\ job[j].kind = "VIDEO" => TakesOver(j) \subseteq {"video"}
    BY DEF TakesOver
  <2>6. Completes(t, job, cut)
    BY <2>2, <2>4, <2>5 DEF Completes, sel
  <2>7. t.artifact # None /\ t.insert.status = "ABSENT"
    BY <2>2, <2>4, NoneIsNoJob
  <2> QED
    BY <2>6, <2>7 DEF Formed, t
<1> QED
  BY <1>1, <1>2

\* A call that comes back opens a formed transaction, or none.
LEMMA CallFormed ==
  ASSUME TypeOK, Kinds, NEW c \in Call, CallReturns(c)
  PROVE  UNCHANGED storeVars \/ \E t : Formed(t, job, cut) /\ Open(c, t)
<1>0. StoreTypeOK /\ JobOf(c) \in Job /\ call[c] \in Nat \cup {None}
  BY CallJob DEF TypeOK, WorkerTypeOK
<1>1. ASSUME NEW expected, NEW t, ReadThen(c, expected, t),
             job[JobOf(c)].status = expected => Formed(t, job, cut)
      PROVE  UNCHANGED storeVars \/ \E u : Formed(u, job, cut) /\ Open(c, u)
  BY <1>1 DEF ReadThen
<1>2. /\ Formed(FailTx(JobOf(c)), job, cut) /\ Formed(RetryTx(JobOf(c)), job, cut)
      /\ Formed(RescheduleTx(JobOf(c)), job, cut)
      /\ Formed(ProcessingTx(JobOf(c), call[c]), job, cut)
  BY <1>0, AnswerRowsOnly, RowsOnlyFormed
<1>3. CASE SubmitAccepted(c)
  BY <1>1, <1>2, <1>3 DEF SubmitAccepted
<1>4. CASE SubmitRejected(c) \/ PollRetryable(c)
  BY <1>1, <1>2, <1>4 DEF SubmitRejected, PollRetryable
<1>5. CASE SubmitRefused(c) \/ PollFailed(c)
  BY <1>1, <1>2, <1>5 DEF SubmitRefused, PollFailed
<1>6. CASE PollUnsettled(c)
  BY <1>1, <1>2, <1>6 DEF PollUnsettled
<1>7. CASE PollSucceeded(c)
  <2>1. job[JobOf(c)].status = "PROCESSING" => Formed(CompleteTx(JobOf(c)), job, cut)
    BY <1>0, CompleteFormed DEF Exists, Kinds
  <2> QED
    BY <1>1, <1>7, <2>1 DEF PollSucceeded
<1>8. CASE Unroutable(c)
  BY <1>8 DEF Unroutable
<1> QED
  BY <1>3, <1>4, <1>5, <1>6, <1>7, <1>8 DEF CallReturns

\* A request opens a formed transaction, ends one, or leaves the rows alone.
LEMMA ClientFormed ==
  ASSUME TypeOK, ImageSelected, NEW p \in Client, ClientActs(p)
  PROVE  \/ UNCHANGED storeVars
         \/ Commit(p) \/ Conflict(p) \/ LockedOut(p)
         \/ \E t : Formed(t, job, cut) /\ Open(p, t)
<1>0. StoreTypeOK /\ p \in Proc /\ \A j \in Job : Closed.cols[j] = {}
  BY ApiAssumption, ClosedWritesNothing DEF TypeOK
<1>1. CASE RequestCreation(p) \/ CreateRefused(p)
  BY <1>1 DEF RequestCreation, RequestJobs, CreateRefused
<1>2. CASE ClientCommits(p) \/ CreateLockedOut(p) \/ SelectLockedOut(p)
  BY <1>2 DEF ClientCommits, CreateCommit, CreateConflict, SelectCommit,
     CreateLockedOut, SelectLockedOut
<1>3. CASE CreateRead(p)
  <2>1. client[p] \in Request
    BY <1>3 DEF CreateRead, TypeOK, ApiTypeOK
  <2>2. client[p].kind \in Kind
    BY <2>1 DEF Request
  <2>3. PICK v \in NextVersion(NextCut(p), client[p].kind) :
          Open(p, [Closed EXCEPT
                     !.open = TRUE,
                     !.insert = NewRow(NextCut(p), client[p].kind,
                                       client[p].mode, v)])
    BY <1>3 DEF CreateRead
  <2> DEFINE r == NewRow(NextCut(p), client[p].kind, client[p].mode, v)
             t == [Closed EXCEPT !.open = TRUE, !.insert = r]
  <2>4. /\ r.kind = client[p].kind
        /\ r.source = IF client[p].kind = "VIDEO" THEN SelectedImage(NextCut(p))
                                                  ELSE None
    BY DEF NewRow, NoRow
  <2>5. client[p].kind = "VIDEO" => SelectedImage(NextCut(p)) # None
    BY <1>3 DEF CreateRead, Refusable, SourceUsable
  <2>6. r.kind \in Kind /\ (r.source = None <=> r.kind = "IMAGE")
    BY <2>2, <2>4, <2>5 DEF Kind
  <2> HIDE DEF r
  <2>7. /\ t.cols = Closed.cols /\ t.insert = r
        /\ t.artifact = None /\ t.selCols = {}
    BY DEF Closed
  <2>8. Formed(t, job, cut)
    BY <1>0, <2>6, <2>7 DEF Formed, Inserts
  <2> QED
    BY <2>3, <2>8 DEF r
<1>4. CASE RequestSelection(p)
  <2>1. PICK c \in Cut, j \in Job : SelectImage(p, c, j) \/ SelectVideo(p, c, j)
    BY <1>4 DEF RequestSelection
  <2>2. cut[c] \in Selection /\ j # None
    BY <1>0, NoneIsNoJob DEF StoreTypeOK
  <2>3. ASSUME NEW want, Selects(SelectTx(c, want), cut)
        PROVE  Formed(SelectTx(c, want), job, cut)
    <3>1. SelectTx(c, want).artifact = None
      BY DEF SelectTx, Closed
    <3> QED
      BY <2>3, <3>1 DEF Formed, Selects
  <2>4. ASSUME NEW want
        PROVE  LET t == SelectTx(c, want) IN
               /\ t.insert.status = "ABSENT" /\ t.cols = Closed.cols
               /\ t.cut = c /\ t.sel = want
               /\ "image" \in t.selCols <=> want.image # cut[c].image
    BY DEF SelectTx, Closed, NoRow
  <2>5. CASE SelectImage(p, c, j)
    <3> DEFINE want == [image |-> j, video |-> None]
               t == SelectTx(c, want)
    <3>1. cut[c].image # None
      BY <2>5 DEF SelectImage, Selectable, IsArtifact, ImageSelected
    <3>2. want.image = j /\ want.video = None
      OBVIOUS
    <3> HIDE DEF want
    <3>3. /\ t.insert.status = "ABSENT" /\ t.cols = Closed.cols
          /\ t.cut = c /\ t.sel = want
      BY <2>4
    <3> HIDE DEF t
    <3>4. Selects(t, cut)
      BY <1>0, <2>2, <3>1, <3>2, <3>3 DEF Selects
    <3> QED
      BY <2>3, <2>5, <3>4 DEF SelectImage, want, t
  <2>6. CASE SelectVideo(p, c, j)
    <3> DEFINE want == [cut[c] EXCEPT !.video = j]
               t == SelectTx(c, want)
    <3>1. want.image = cut[c].image /\ want.video = j
      BY <2>2 DEF Selection
    <3> HIDE DEF want
    <3>2. Selects(t, cut)
      BY <1>0, <2>2, <2>4, <3>1 DEF Selects
    <3> QED
      BY <2>3, <2>6, <3>2 DEF SelectVideo, want
  <2> QED
    BY <2>1, <2>5, <2>6
<1> QED
  BY <1>1, <1>2, <1>3, <1>4 DEF ClientActs, ClientStep

\* What a step does to the rows.
FormedStep ==
  \/ UNCHANGED storeVars
  \/ \E p \in Proc : \E t : Formed(t, job, cut) /\ Open(p, t)
  \/ Ends \/ Elapses \/ Restarts

\* Every step is one of these, when there are no callbacks.
LEMMA NextIsFormedStep ==
  ASSUME Hook = {}, TypeOK, Kinds, ImageSelected, [Next]_vars
  PROVE  FormedStep
<1>0. StoreTypeOK /\ Worker \in Proc /\ Call \subseteq Proc /\ Client \subseteq Proc
  BY WorkerAssumption, ApiAssumption DEF TypeOK
<1>1. CASE Tick
  <2>1. CASE \/ NothingToRecover \/ NothingToClaim \/ NothingToExpire
             \/ NothingToPoll \/ PollStart
    BY <2>1 DEF NothingToRecover, NothingToClaim, NothingToExpire,
       NothingToPoll, PollStart, FormedStep
  <2>2. CASE \/ RecoverCommit \/ ClaimCommit \/ ClaimOnlyOrphans
             \/ ExpireCommit \/ WorkerRollback
    BY <1>0, <2>2 DEF RecoverCommit, ClaimCommit, ClaimOnlyOrphans,
       ExpireCommit, WorkerRollback, FormedStep, Ends
  <2>3. ASSUME NEW t, RowsOnly(t), Open(Worker, t)
        PROVE  FormedStep
    BY <1>0, <2>3, RowsOnlyFormed DEF FormedStep
  <2>4. CASE RecoverRead
    <3>1. First(Submitting) \in Job
      BY <2>4, FirstJob DEF RecoverRead, Submitting
    <3>2. RowsOnly(FailTx(First(Submitting)))
      BY <1>0, <3>1, AnswerRowsOnly, StoreAssumption
    <3> QED
      BY <2>3, <2>4, <3>2 DEF RecoverRead
  <2>5. CASE ClaimRead
    BY <2>3, <2>5, ClaimRowsOnly DEF ClaimRead
  <2>6. CASE ExpireRead
    <3>1. PICK j \in Overdue : Open(Worker, RetryTx(j))
      BY <2>6 DEF ExpireRead
    <3>2. RowsOnly(RetryTx(j))
      BY <1>0, <3>1, AnswerRowsOnly, StoreAssumption DEF Overdue
    <3> QED
      BY <2>3, <3>1, <3>2
  <2> QED
    BY <1>1, <2>1, <2>2, <2>4, <2>5, <2>6 DEF Tick, TickStep
<1>2. ASSUME NEW c \in Call, CallActs(c)
      PROVE  FormedStep
  <2>1. CASE CallReturns(c)
    BY <1>0, <2>1, CallFormed DEF FormedStep
  <2>2. CASE CallCommit(c) \/ CallRollback(c)
    BY <1>0, <2>2 DEF CallCommit, CallRollback, FormedStep, Ends
  <2> QED
    BY <1>2, <2>1, <2>2 DEF CallActs, CallStep
<1>3. ASSUME NEW p \in Client, ClientActs(p)
      PROVE  FormedStep
  BY <1>0, <1>3, ClientFormed DEF FormedStep, Ends
<1>4. CASE \/ Switch \/ UNCHANGED vars
           \/ \E j \in Job, a \in Attempt : Provider(j, a)
  BY <1>4 DEF Switch, vars, Provider, ProviderFinishes, FormedStep
<1>5. CASE \E j \in Job : Wakes(j) \/ Expires(j)
  BY <1>5 DEF Wakes, Expires, FormedStep, Elapses
<1>6. CASE Crash
  BY <1>6 DEF Crash, FormedStep, Restarts
<1> QED
  BY <1>1, <1>2, <1>3, <1>4, <1>5, <1>6 DEF Next

----------------------------------------------------------------------------
(***************************************************************************)
(* A commit leaves the pending writes of the others formed.                *)
(***************************************************************************)
\* Whoever is about to select an image is a finishing job whose cut has none,
\* or a request, which can only select an image there is.
LEMMA ImageWriters ==
  ASSUME TypeOK, Integrity, Kinds, AllFormed, NEW p \in Proc,
         "image" \in tx[p].selCols
  PROVE  /\ tx[p].cut \in Cut /\ tx[p].sel.image # None
         /\ \/ /\ tx[p].artifact # None
               /\ job[tx[p].artifact].kind = "IMAGE"
               /\ job[tx[p].artifact].cut = tx[p].cut
               /\ cut[tx[p].cut].image = None
            \/ /\ tx[p].sel.image \in artifact
               /\ job[tx[p].sel.image].kind = "IMAGE"
               /\ job[tx[p].sel.image].cut = tx[p].cut
<1> DEFINE t == tx[p]
<1>1. /\ t \in Transaction /\ Sound(t) /\ Formed(t, job, cut)
      /\ \A j \in Job : OfSomeCut(job[j])
  BY DEF TypeOK, StoreTypeOK, Integrity, AllFormed
<1> HIDE DEF t
<1>2. CASE t.artifact # None
  <2>1. t.artifact \in Job /\ Exists(t.artifact) /\ Completes(t, job, cut)
    BY <1>1, <1>2 DEF Transaction, Sound, Formed
  <2>2. job[t.artifact].kind = "IMAGE" /\ t.cut = job[t.artifact].cut
    BY <2>1 DEF Kinds, Kind, Completes, t
  <2>3. t.cut \in Cut
    BY <1>1, <2>1, <2>2 DEF OfSomeCut, Kind
  <2>4. cut[t.cut].image = None /\ t.sel.image = t.artifact
    BY <2>1, <2>2 DEF Completes, t
  <2> QED
    BY <1>2, <2>2, <2>3, <2>4 DEF t
<1>3. CASE t.artifact = None
  <2>1. Selects(t, cut)
    BY <1>1, <1>3 DEF Formed, t
  <2>2. t.cut \in Cut /\ t.sel.image # None
    BY <2>1 DEF Selects, t
  <2>3. SelectionFits(t, t.sel.image, "IMAGE")
    BY <1>1, <2>2 DEF Sound, t
  <2> QED
    BY <1>3, <2>2, <2>3, NoneIsNoJob DEF SelectionFits, t
<1> QED
  BY <1>2, <1>3

\* The selections after a commit.
LEMMA CommitSelections ==
  ASSUME NEW p \in Proc, Commit(p), NEW c \in Cut
  PROVE  /\ cut'[c].image = IF c = tx[p].cut /\ "image" \in tx[p].selCols
                            THEN tx[p].sel.image ELSE cut[c].image
         /\ c # tx[p].cut => cut'[c] = cut[c]
         /\ c = tx[p].cut =>
              cut'[c] = [image |-> IF "image" \in tx[p].selCols
                                   THEN tx[p].sel.image ELSE cut[c].image,
                         video |-> IF "video" \in tx[p].selCols
                                   THEN tx[p].sel.video ELSE cut[c].video]
<1>1. cut'[c] = IF c # tx[p].cut THEN cut[c]
                ELSE [image |-> IF "image" \in tx[p].selCols
                                THEN tx[p].sel.image ELSE cut[c].image,
                      video |-> IF "video" \in tx[p].selCols
                                THEN tx[p].sel.video ELSE cut[c].video]
  BY DEF Commit
<1> QED
  BY <1>1

\* A cut that has an image selected keeps one.
LEMMA ImageStays ==
  ASSUME TypeOK, Integrity, Kinds, AllFormed, NEW p \in Proc, Commit(p),
         NEW c \in Cut, cut[c].image # None
  PROVE  cut'[c].image # None
<1>1. "image" \in tx[p].selCols => tx[p].sel.image # None
  BY ImageWriters
<1>2. cut'[c].image = IF c = tx[p].cut /\ "image" \in tx[p].selCols
                      THEN tx[p].sel.image ELSE cut[c].image
  BY CommitSelections
<1> QED
  BY <1>1, <1>2

\* A write stays formed while its job is there, no cut loses its image, and
\* the cut of a first image gets none.
LEMMA FormedStays ==
  ASSUME NEW t, Formed(t, job, cut),
         t.artifact # None =>
           /\ job'[t.artifact].cut = job[t.artifact].cut
           /\ job'[t.artifact].kind = job[t.artifact].kind
           /\ job[t.artifact].kind = "IMAGE" =>
                (cut'[t.cut].image = None <=> cut[t.cut].image = None),
         \A c \in Cut : cut[c].image # None => cut'[c].image # None
  PROVE  Formed(t, job', cut')
<1>1. t.artifact # None => Completes(t, job', cut')
  BY DEF Formed, Completes
<1>2. t.artifact = None /\ t.selCols # {} => Selects(t, cut')
  BY DEF Formed, Selects
<1> QED
  BY <1>1, <1>2 DEF Formed

\* Nobody else gives the cut of a finishing image job its image: it would be
\* by another active job of the cut, or an image there is.
LEMMA FormedAfterCommit ==
  ASSUME TypeOK, Integrity, Alone, Seen,
         NEW q \in Proc, Commit(q), NEW p \in Proc, p # q
  PROVE  Formed(tx[p], job', cut')
<1> DEFINE t == tx[p]
           j == t.artifact
<1>0. /\ Kinds /\ ImageSelected /\ AllFormed /\ Control /\ Fresh
      /\ StoreTypeOK /\ Sound(tx[q])
  BY DEF Seen, Alone, TypeOK, Integrity
<1>1. /\ t \in Transaction /\ Sound(t) /\ Lawful(t, job) /\ Formed(t, job, cut)
  BY <1>0 DEF StoreTypeOK, Integrity, Fresh, AllFormed
<1>2. \A c \in Cut : cut[c].image # None => cut'[c].image # None
  BY <1>0, ImageStays
<1>3. ASSUME j # None
      PROVE  /\ job'[j].cut = job[j].cut /\ job'[j].kind = job[j].kind
             /\ job[j].kind = "IMAGE" =>
                  (cut'[t.cut].image = None <=> cut[t.cut].image = None)
  <2>1. /\ j \in Job /\ Exists(j) /\ Completes(t, job, cut)
        /\ t.cols[j] # {} /\ job[j].status = "PROCESSING"
    BY <1>1, <1>3 DEF Transaction, Sound, Formed, Lawful, Legal
  <2>2. job'[j].cut = job[j].cut /\ job'[j].kind = job[j].kind
    BY <1>0, <2>1, CommitKeeps DEF Kept
  <2>3. ASSUME job[j].kind = "IMAGE"
        PROVE  cut'[t.cut].image = None <=> cut[t.cut].image = None
    <3>1. t.cut = job[j].cut /\ t.cut \in Cut
      BY <2>1, <2>3 DEF Completes, Integrity, OfSomeCut, Kind
    <3>2. CASE cut[t.cut].image # None
      BY <1>2, <3>1, <3>2
    <3>3. CASE cut[t.cut].image = None
      <4>1. SUFFICES ASSUME t.cut = tx[q].cut, "image" \in tx[q].selCols
                     PROVE  FALSE
        BY <3>1, <3>3, CommitSelections
      <4>2. CASE /\ tx[q].artifact # None
                 /\ job[tx[q].artifact].kind = "IMAGE"
                 /\ job[tx[q].artifact].cut = tx[q].cut
        <5> DEFINE k == tx[q].artifact
        <5>1. k \in Job /\ tx[q].cols[k] # {} /\ job[k].status = "PROCESSING"
          BY <1>0, <4>2 DEF StoreTypeOK, Transaction, Fresh, Lawful, Legal
        <5>2. k = j
          BY <2>1, <2>3, <3>1, <4>1, <4>2, <5>1 DEF Integrity, OneActiveJob, Active
        <5> QED
          BY <1>0, <2>1, <5>1, <5>2, SoleWriter
      <4>3. CASE /\ tx[q].sel.image \in artifact
                 /\ job[tx[q].sel.image].kind = "IMAGE"
                 /\ job[tx[q].sel.image].cut = tx[q].cut
        BY <1>0, <3>3, <4>1, <4>3 DEF ImageSelected
      <4> QED
        BY <1>0, <4>1, <4>2, <4>3, ImageWriters
    <3> QED
      BY <3>2, <3>3
  <2> QED
    BY <2>2, <2>3
<1> QED
  BY <1>1, <1>2, <1>3, FormedStays

\* A commit gives a job a kind, and a first image its selection.
LEMMA SeenAfterCommit ==
  ASSUME TypeOK, Integrity, Alone, Seen, NEW q \in Proc, Commit(q)
  PROVE  Kinds' /\ ImageSelected'
<1> DEFINE t == tx[q]
<1>0. /\ Kinds /\ ImageSelected /\ AllFormed /\ Fresh
      /\ StoreTypeOK /\ Sound(t) /\ t \in Transaction
      /\ Lawful(t, job) /\ Formed(t, job, cut)
  BY DEF Seen, Alone, TypeOK, Integrity, StoreTypeOK, Fresh, AllFormed
<1>1. Kept
  BY <1>0, CommitKeeps
<1>2. ASSUME NEW j \in Job, job'[j].status # "ABSENT"
      PROVE  job'[j].kind \in Kind
  <2>1. CASE t.insert.status # "ABSENT" /\ job'[j] = t.insert
    BY <1>0, <2>1 DEF Formed, Inserts
  <2>2. CASE job'[j] = Merge(job[j], t.set[j], t.cols[j])
    <3>1. /\ job[j] \in Row /\ t.set[j] \in Row /\ t.cols[j] \in SUBSET Column
      BY <1>0 DEF StoreTypeOK, Transaction
    <3>2. /\ job'[j].kind = job[j].kind
          /\ job'[j].status = IF "status" \in t.cols[j] THEN t.set[j].status
                                                       ELSE job[j].status
      BY <2>2, <3>1, MergeType
    <3>3. Exists(j)
      BY <1>0, <1>2, <3>2
         DEF Exists, Lawful, Legal, Active, InFlight, Claimable
    <3> QED
      BY <1>0, <3>2, <3>3 DEF Kinds
  <2> QED
    BY <2>1, <2>2, CommitRows
<1>3. ASSUME NEW i \in artifact', job'[i].kind = "IMAGE"
      PROVE  cut'[job'[i].cut].image # None
  <2>1. i \in artifact \/ (i = t.artifact /\ i # None)
    BY <1>3 DEF Commit
  <2>2. i \in Job /\ Exists(i)
    BY <1>0, <2>1 DEF StoreTypeOK, Integrity, Sound, Transaction
  <2>3. job'[i].cut = job[i].cut /\ job[i].kind = "IMAGE"
    BY <1>1, <1>3, <2>2 DEF Kept
  <2>4. job[i].cut \in Cut
    BY <2>2, <2>3 DEF Integrity, OfSomeCut, Kind
  <2>5. CASE cut[job[i].cut].image # None
    BY <1>0, <2>3, <2>4, <2>5, ImageStays
  <2>6. CASE cut[job[i].cut].image = None
    <3>1. i = t.artifact /\ i # None
      BY <1>0, <2>1, <2>3, <2>6 DEF ImageSelected
    <3>2. t.cut = job[i].cut /\ "image" \in t.selCols /\ t.sel.image = i
      BY <1>0, <2>3, <2>6, <3>1 DEF Formed, Completes
    <3>3. cut'[job[i].cut].image = i
      BY <2>4, <3>2, CommitSelections
    <3> QED
      BY <2>3, <3>1, <3>3
  <2> QED
    BY <2>5, <2>6
<1> QED
  BY <1>2, <1>3 DEF Kinds, ImageSelected, Exists

\* Every step keeps the invariant.
LEMMA SeenKept ==
  ASSUME TypeOK, Integrity, Alone, Seen, FormedStep
  PROVE  Seen'
<1>0. /\ Kinds /\ ImageSelected /\ AllFormed
      /\ StoreTypeOK /\ artifact \subseteq Job
      /\ tx = [p \in Proc |-> tx[p]]
      /\ \A p \in Proc : tx[p] \in Transaction
  BY DEF Seen, TypeOK, StoreTypeOK
<1>1. \A rows, cuts : Formed(Closed, rows, cuts)
  BY RowsOnlyFormed DEF RowsOnly, Closed, NoRow
<1>2. ASSUME NEW q \in Proc, Commit(q)
      PROVE  Seen'
  <2>1. Kinds' /\ ImageSelected'
    BY <1>2, SeenAfterCommit
  <2>2. ASSUME NEW p \in Proc
        PROVE  Formed(tx'[p], job', cut')
    <3>1. tx'[p] = IF p = q THEN Closed ELSE tx[p]
      BY <1>0, <1>2 DEF Commit
    <3> QED
      BY <1>1, <1>2, <3>1, FormedAfterCommit
  <2> QED
    BY <2>1, <2>2 DEF Seen, AllFormed
<1>3. ASSUME UNCHANGED <<job, artifact, cut>>,
             \A p \in Proc : Formed(tx'[p], job, cut)
      PROVE  Seen'
  BY <1>0, <1>3 DEF Seen, Kinds, ImageSelected, AllFormed, Exists
<1>4. CASE \E p \in Proc : \E t : Formed(t, job, cut) /\ Open(p, t)
  <2>1. PICK p \in Proc : \E t : Formed(t, job, cut) /\ Open(p, t)
    BY <1>4
  <2>2. PICK t : Formed(t, job, cut) /\ Open(p, t)
    BY <2>1
  <2>3. \A q \in Proc : tx'[q] = IF q = p THEN t ELSE tx[q]
    BY <1>0, <2>2 DEF Open
  <2> QED
    BY <1>0, <1>3, <2>2, <2>3 DEF Open, AllFormed
<1>5. CASE \E p \in Proc : Conflict(p) \/ LockedOut(p)
  <2>1. PICK p \in Proc : Conflict(p) \/ LockedOut(p)
    BY <1>5
  <2>2. \A q \in Proc : tx'[q] = IF q = p THEN Closed ELSE tx[q]
    BY <1>0, <2>1 DEF Conflict, LockedOut
  <2> QED
    BY <1>0, <1>1, <1>3, <2>1, <2>2 DEF Conflict, LockedOut, AllFormed
<1>6. CASE Elapses
  <2>1. /\ UNCHANGED <<artifact, cut, tx>>
        /\ \A j \in Job : /\ job'[j].status = job[j].status
                          /\ job'[j].cut = job[j].cut /\ job'[j].kind = job[j].kind
    BY <1>0, <1>6 DEF Elapses, WakeReached, DeadlineReached, StoreTypeOK, Row
  <2>2. ASSUME NEW p \in Proc
        PROVE  Formed(tx[p], job', cut')
    <3>1. tx[p].artifact # None => tx[p].artifact \in Job
      BY <1>0 DEF Transaction
    <3>2. Formed(tx[p], job, cut)
      BY <1>0 DEF AllFormed
    <3> QED
      BY <2>1, <3>1, <3>2, FormedStays
  <2>3. Kinds' /\ ImageSelected'
    BY <1>0, <2>1 DEF Kinds, ImageSelected, Exists
  <2> QED
    BY <2>1, <2>2, <2>3 DEF Seen, AllFormed
<1>7. CASE UNCHANGED storeVars
  BY <1>0, <1>3, <1>7 DEF storeVars, AllFormed
<1>8. CASE Restarts
  BY <1>1, <1>3, <1>8 DEF Restarts
<1> QED
  BY <1>2, <1>4, <1>5, <1>6, <1>7, <1>8 DEF FormedStep, Ends

\* It holds at the start: the cuts select the first of their images.
LEMMA SeenInit ==
  ASSUME Init
  PROVE  Seen
<1>0. /\ job = Backlog /\ \A p \in Proc : tx[p] = Closed
      /\ artifact = {j \in Job : Backlog[j].status = "SUCCEEDED"}
  BY DEF Init, StoreInit
<1>1. Kinds
  BY <1>0, BacklogAssumption DEF Kinds, Exists
<1>2. AllFormed
  BY <1>0, RowsOnlyFormed DEF AllFormed, RowsOnly, Closed, NoRow
<1>3. ASSUME NEW j \in artifact, job[j].kind = "IMAGE"
      PROVE  cut[job[j].cut].image # None
  <2> DEFINE c == Backlog[j].cut
  <2>1. j \in StartImages(c) /\ c \in Cut
    BY <1>0, <1>3, BacklogAssumption DEF StartImages, Kind
  <2>2. StartImages(c) \subseteq Job
    BY DEF StartImages
  <2>3. First(StartImages(c)) \in Job
    BY <2>1, <2>2, FirstJob
  <2>4. cut[c].image = First(StartImages(c))
    BY <2>1 DEF Init, StoreInit
  <2> QED
    BY <1>0, <2>3, <2>4, NoneIsNoJob
<1> QED
  BY <1>1, <1>2, <1>3 DEF Seen, ImageSelected

----------------------------------------------------------------------------
(***************************************************************************)
(* A step of the backend is a step of the board, or none.                  *)
(***************************************************************************)
\* What readers see of a row whose success has its artifact.
Look(r) ==
  [status |-> IF r.status \in Active THEN "ACTIVE" ELSE r.status,
   cut |-> r.cut, kind |-> r.kind, source |-> r.source]

LEMMA ShownIsLook ==
  ASSUME NEW j, NEW r, NEW done, r.status = "SUCCEEDED" => j \in done
  PROVE  ShownRow(j, r, done) = Look(r)
  BY DEF ShownRow, ShownStatus, Look, Active

\* A row shows its status, with the four active ones as one.
LEMMA LookOf ==
  ASSUME TypeOK, Integrity, NEW j \in Job
  PROVE  /\ ShownRow(j, job[j], artifact) = Look(job[j])
         /\ Look(job[j]).status = "ABSENT" <=> job[j].status = "ABSENT"
         /\ Look(job[j]).status = "ACTIVE" <=> job[j].status \in Active
         /\ Look(job[j]).status = "SUCCEEDED" <=> job[j].status = "SUCCEEDED"
         /\ Look(job[j]).cut = job[j].cut /\ Look(job[j]).kind = job[j].kind
<1>1. job[j].status \in JobStatus \cup {"ABSENT"}
  BY DEF TypeOK, StoreTypeOK, Row
<1>2. ShownRow(j, job[j], artifact) = Look(job[j])
  BY ShownIsLook DEF Integrity, SucceededHasArtifact
<1>3. /\ Look(job[j]).status = IF job[j].status \in Active THEN "ACTIVE"
                                                            ELSE job[j].status
      /\ Look(job[j]).cut = job[j].cut /\ Look(job[j]).kind = job[j].kind
  BY DEF Look
<1> QED
  BY <1>1, <1>2, <1>3 DEF JobStatus, Active

\* What a commit shows of a row: a new job, the end of one, or nothing.
LEMMA CommitShows ==
  ASSUME TypeOK, Integrity, Fresh, NEW p \in Proc, Commit(p), NEW j \in Job
  PROVE  LET t == tx[p] IN
         \/ /\ t.insert.status = "QUEUED" /\ job[j].status = "ABSENT"
            /\ j = First(Absent) /\ job'[j] = t.insert
         \/ /\ job'[j].cut = job[j].cut /\ job'[j].kind = job[j].kind
            /\ job'[j].source = job[j].source
            /\ \/ job'[j].status = job[j].status
               \/ /\ t.cols[j] # {} /\ job[j].status \in Active
                  /\ job'[j].status \in Active \cup {"FAILED"}
               \/ /\ t.artifact = j /\ job[j].status = "PROCESSING"
                  /\ job'[j].status = "SUCCEEDED"
<1> DEFINE t == tx[p]
<1>0. /\ t \in Transaction /\ Sound(t) /\ Lawful(t, job)
      /\ job[j] \in Row /\ t.set[j] \in Row /\ t.cols[j] \in SUBSET Column
  BY DEF TypeOK, StoreTypeOK, Integrity, Fresh, Transaction
<1>1. CASE /\ job[j].status = "ABSENT" /\ t.insert.status # "ABSENT"
           /\ j = First(Absent) /\ job'[j] = t.insert
  BY <1>0, <1>1 DEF Sound
<1>2. CASE job'[j] = Merge(job[j], t.set[j], t.cols[j])
  <2>1. /\ job'[j].cut = job[j].cut /\ job'[j].kind = job[j].kind
        /\ job'[j].source = job[j].source
        /\ job'[j].status = IF "status" \in t.cols[j] THEN t.set[j].status
                                                     ELSE job[j].status
    BY <1>0, <1>2, MergeType
  <2>2. CASE "status" \notin t.cols[j]
    BY <2>1, <2>2
  <2>3. CASE "status" \in t.cols[j]
    <3>1. Legal(job[j], t.set[j], t.cols[j]) /\ job'[j].status = t.set[j].status
      BY <1>0, <2>1, <2>3 DEF Lawful
    <3>2. t.set[j].status = "SUCCEEDED" => t.artifact = j
      BY <1>0, <2>3 DEF Sound
    <3> QED
      BY <2>1, <2>3, <3>1, <3>2 DEF Legal, Active, InFlight, Claimable
  <2> QED
    BY <2>2, <2>3
<1> QED
  BY <1>1, <1>2, CommitRows

\* An artifact is of a job that says so.
LEMMA DoneIsShown ==
  ASSUME TypeOK, Integrity, NoRefusal, NEW i \in artifact
  PROVE  /\ i \in Job
         /\ ShownRow(i, job[i], artifact).status = "SUCCEEDED"
         /\ ShownRow(i, job[i], artifact).kind = job[i].kind
         /\ ShownRow(i, job[i], artifact).cut = job[i].cut
  BY DEF TypeOK, StoreTypeOK, NoRefusal, ShownRow, ShownStatus, Active

\* A commit that sets no selection leaves them all.
LEMMA NoSelection ==
  ASSUME TypeOK, NEW p \in Proc, Commit(p), tx[p].selCols = {}
  PROVE  cut' = cut
<1>1. cut \in [Cut -> Selection] /\ cut' = [c \in Cut |-> cut'[c]]
  BY DEF TypeOK, StoreTypeOK, Commit
<1>2. ASSUME NEW c \in Cut
      PROVE  cut'[c] = cut[c]
  <2>1. \/ cut'[c] = cut[c]
        \/ cut'[c] = [image |-> cut[c].image, video |-> cut[c].video]
    BY CommitSelections
  <2>2. cut[c] = [image |-> cut[c].image, video |-> cut[c].video]
    BY <1>1 DEF Selection
  <2> QED
    BY <2>1, <2>2
<1> QED
  BY <1>1, <1>2

\* The commit of a request for a job is the creation of one: the index saw no
\* active job of the cut and kind, and the source is an image of the cut.
LEMMA InsertIsCreate ==
  ASSUME TypeOK, Integrity, Integrity', Fresh, NoRefusal, NEW p \in Proc, Commit(p),
         Inserts(tx[p]), tx[p].insert.status # "ABSENT"
  PROVE  Readers!BoardNext
<1> DEFINE t == tx[p]
           r == t.insert
           n == First(Absent)
<1>0. /\ t \in Transaction /\ Sound(t) /\ r.status = "QUEUED" /\ r \in Row
      /\ cut \in [Cut -> Selection]
  BY DEF TypeOK, StoreTypeOK, Integrity, Transaction, Sound
<1>1. /\ n \in Absent /\ n \in Job /\ Absent \subseteq Job
      /\ \A k \in Absent : n <= k
  <2>1. Absent # {} /\ Absent \subseteq Job /\ Absent \subseteq Nat
    BY DEF Commit, Absent, Job
  <2> QED
    BY <2>1, FirstIn
<1>2. NewId(t) = n
  BY DEF NewId
<1>3. job' = JobsAfter(t)
  BY DEF Commit
<1>4. job'[n] = r
  BY <1>1, <1>2, <1>3 DEF JobsAfter
<1>5. ASSUME NEW j \in Job, j # n
      PROVE  /\ Look(job'[j]) = Look(job[j])
             /\ job'[j].status = job[j].status
             /\ job'[j].kind = job[j].kind /\ job'[j].cut = job[j].cut
  <2>1. /\ job'[j].cut = job[j].cut /\ job'[j].kind = job[j].kind
        /\ job'[j].source = job[j].source /\ job'[j].status = job[j].status
    BY <1>5, CommitShows, NoneIsNoJob DEF Inserts
  <2> QED
    BY <2>1 DEF Look
<1>6. artifact' = artifact /\ cut' = cut
  BY NoSelection DEF Commit, Inserts
<1>7. r.kind \in Kind /\ r.cut \in Cut
  BY <1>0 DEF Inserts, Sound, OfSomeCut
<1>8. /\ \A j \in Job : ShownRow(j, job[j], artifact) = Look(job[j])
      /\ \A j \in Job : ShownRow(j, job'[j], artifact') = Look(job'[j])
  BY ShownIsLook DEF Integrity, SucceededHasArtifact
<1>9. Look(r) = [status |-> "ACTIVE", cut |-> r.cut, kind |-> r.kind,
                 source |-> r.source]
  BY <1>0 DEF Look, Active
<1>10. /\ \A k \in Readers!Unused : n <= k
       /\ n \in Readers!Unused
  <2>1. \A k \in Job : ShownRow(k, job[k], artifact).status = "ABSENT" <=> k \in Absent
    BY LookOf DEF Absent, Exists
  <2> QED
    BY <1>1, <2>1 DEF Readers!Unused
<1>11. Readers!ActiveOf(r.cut, r.kind) = {}
  <2> SUFFICES ASSUME NEW i \in Job, job[i].status \in Active,
                      job[i].cut = r.cut, job[i].kind = r.kind
               PROVE  FALSE
    BY LookOf DEF Readers!ActiveOf, Readers!Of
  <2>1. i # n
    BY <1>1 DEF Absent, Exists, Active
  <2>2. job'[i].status \in Active /\ job'[i].cut = r.cut /\ job'[i].kind = r.kind
    BY <1>5, <2>1
  <2>3. job'[n].status \in Active
    BY <1>0, <1>4 DEF Active
  <2> QED
    BY <1>1, <1>3, <1>4, <2>1, <2>2, <2>3 DEF Commit, Accepted, ActiveIndexHolds
<1>12. \/ r.kind = "IMAGE" /\ r.source = None
       \/ r.kind = "VIDEO" /\ r.source \in Readers!DoneOf(r.cut, "IMAGE")
  <2>1. CASE r.kind = "IMAGE"
    BY <2>1 DEF Inserts
  <2>2. CASE r.kind = "VIDEO"
    <3>1. r.source # None
      BY <2>2 DEF Inserts
    <3>2. /\ r.source \in artifact /\ job[r.source].kind = "IMAGE"
          /\ job[r.source].cut = r.cut
      BY <1>0, <2>2, <3>1 DEF Sound, SourceFits, IsArtifact
    <3>3. /\ r.source \in Job
          /\ ShownRow(r.source, job[r.source], artifact).status = "SUCCEEDED"
          /\ ShownRow(r.source, job[r.source], artifact).kind = "IMAGE"
          /\ ShownRow(r.source, job[r.source], artifact).cut = r.cut
      BY <3>2, DoneIsShown
    <3>4. r.source \in Readers!DoneOf(r.cut, "IMAGE")
      BY <3>3 DEF Readers!DoneOf, Readers!Of
    <3> QED
      BY <2>2, <3>4
  <2> QED
    BY <1>7, <2>1, <2>2 DEF Kind
<1>13. [j \in Job |-> ShownRow(j, job'[j], artifact')] =
         [[j \in Job |-> ShownRow(j, job[j], artifact)] EXCEPT
            ![n] = [status |-> "ACTIVE", cut |-> r.cut, kind |-> r.kind,
                    source |-> r.source]]
  BY <1>1, <1>4, <1>5, <1>8, <1>9
<1> HIDE DEF n, r
<1>14. Readers!Create(n, r.cut, r.kind, r.source)
  BY <1>6, <1>10, <1>11, <1>12, <1>13 DEF Readers!Create
<1>15. r.source \in Job \cup {None} /\ r.kind \in Readers!Kind
  BY <1>0, <1>7 DEF Row, Kind, Readers!Kind
<1> QED
  BY <1>7, <1>10, <1>14, <1>15 DEF Readers!BoardNext

\* A commit sets the selections of one cut.
LEMMA CutAfter ==
  ASSUME TypeOK, NEW p \in Proc, Commit(p), NEW c \in Cut, c = tx[p].cut,
         NEW image, NEW video,
         image = IF "image" \in tx[p].selCols THEN tx[p].sel.image ELSE cut[c].image,
         video = IF "video" \in tx[p].selCols THEN tx[p].sel.video ELSE cut[c].video
  PROVE  /\ cut' = [cut EXCEPT ![c] = [image |-> image, video |-> video]]
         /\ video = cut[c].video => cut' = [cut EXCEPT ![c].image = image]
         /\ image = cut[c].image => cut' = [cut EXCEPT ![c].video = video]
<1>1. /\ cut \in [Cut -> Selection] /\ cut' = [d \in Cut |-> cut'[d]]
      /\ cut[c] = [image |-> cut[c].image, video |-> cut[c].video]
  BY DEF TypeOK, StoreTypeOK, Commit, Selection
<1>2. ASSUME NEW d \in Cut
      PROVE  cut'[d] = IF d = c THEN [image |-> image, video |-> video] ELSE cut[d]
  <2>1. CASE d = c
    BY <2>1, CommitSelections
  <2>2. CASE d # c
    BY <2>2, CommitSelections
  <2> QED
    BY <2>1, <2>2
<1>3. cut' = [cut EXCEPT ![c] = [image |-> image, video |-> video]]
  BY <1>1, <1>2
<1>4. video = cut[c].video =>
        [cut[c] EXCEPT !.image = image] = [image |-> image, video |-> video]
  BY <1>1
<1>5. image = cut[c].image =>
        [cut[c] EXCEPT !.video = video] = [image |-> image, video |-> video]
  BY <1>1
<1> QED
  BY <1>3, <1>4, <1>5

\* The commit of _complete finishes its job, and selects its result as the
\* board allows.
LEMMA CompleteIsFinish ==
  ASSUME TypeOK, Integrity, Integrity', Alone, Seen, NEW p \in Proc, Commit(p),
         tx[p].artifact # None
  PROVE  Readers!BoardNext
<1> DEFINE t == tx[p]
           k == t.artifact
           c == t.cut
<1>0. /\ t \in Transaction /\ Sound(t) /\ Lawful(t, job) /\ Formed(t, job, cut)
      /\ Kinds /\ Fresh
  BY DEF TypeOK, StoreTypeOK, Integrity, Alone, Fresh, Seen, AllFormed
<1>1. /\ k \in Job /\ k # None /\ Exists(k) /\ Completes(t, job, cut)
      /\ "status" \in t.cols[k] /\ t.set[k].status = "SUCCEEDED"
      /\ job[k].status = "PROCESSING"
  BY <1>0 DEF Transaction, Sound, Formed, Lawful, Legal
<1>2. job[k].kind \in Kind /\ c = job[k].cut /\ c \in Cut
  BY <1>0, <1>1 DEF Kinds, Completes, Integrity, OfSomeCut
<1>3. t.insert.status = "ABSENT"
  BY <1>1 DEF Completes
<1>4. /\ job'[k].status = "SUCCEEDED"
      /\ job'[k].cut = job[k].cut /\ job'[k].kind = job[k].kind
      /\ job'[k].source = job[k].source
  <2>1. job'[k] = Merge(job[k], t.set[k], t.cols[k])
    BY <1>1, <1>3, CommitRows
  <2>2. job[k] \in Row /\ t.set[k] \in Row /\ t.cols[k] \in SUBSET Column
    BY <1>0, <1>1 DEF TypeOK, StoreTypeOK, Transaction
  <2> QED
    BY <1>1, <2>1, <2>2, MergeType
<1>5. ASSUME NEW j \in Job, j # k
      PROVE  Look(job'[j]) = Look(job[j])
  <2>1. /\ job'[j].cut = job[j].cut /\ job'[j].kind = job[j].kind
        /\ job'[j].source = job[j].source /\ job'[j].status = job[j].status
    BY <1>0, <1>1, <1>3, <1>5, CommitShows DEF Completes
  <2> QED
    BY <2>1 DEF Look
<1>6. /\ \A j \in Job : ShownRow(j, job[j], artifact) = Look(job[j])
      /\ \A j \in Job : ShownRow(j, job'[j], artifact') = Look(job'[j])
  BY ShownIsLook DEF Integrity, SucceededHasArtifact
<1>7. /\ Look(job[k]).status = "ACTIVE" /\ Look(job[k]).cut = c
      /\ Look(job[k]).kind = job[k].kind
      /\ Look(job'[k]) = [Look(job[k]) EXCEPT !.status = "SUCCEEDED"]
  BY <1>1, <1>2, <1>4 DEF Look, Active
<1> HIDE DEF k, c
<1>8. [j \in Job |-> ShownRow(j, job'[j], artifact')] =
        [[j \in Job |-> ShownRow(j, job[j], artifact)] EXCEPT
           ![k].status = "SUCCEEDED"]
  <2>1. ASSUME NEW j \in Job
        PROVE  Look(job'[j]) = IF j = k THEN [Look(job[j]) EXCEPT !.status = "SUCCEEDED"]
                                        ELSE Look(job[j])
    <3>1. CASE j = k
      BY <1>7, <3>1
    <3>2. CASE j # k
      BY <1>5, <3>2
    <3> QED
      BY <3>1, <3>2
  <2>2. ASSUME NEW j \in Job
        PROVE  ShownRow(j, job'[j], artifact') =
                 IF j = k THEN [ShownRow(j, job[j], artifact) EXCEPT !.status = "SUCCEEDED"]
                          ELSE ShownRow(j, job[j], artifact)
    BY <1>6, <2>1
  <2> QED
    BY <1>1, <2>2
<1>9. /\ [j \in Job |-> ShownRow(j, job[j], artifact)][k].status = "ACTIVE"
      /\ [j \in Job |-> ShownRow(j, job[j], artifact)][k].cut = c
      /\ [j \in Job |-> ShownRow(j, job[j], artifact)][k].kind = job[k].kind
  BY <1>1, <1>6, <1>7
<1>10. CASE job[k].kind = "IMAGE"
  <2>1. cut' = IF cut[c].image = None THEN [cut EXCEPT ![c].image = k] ELSE cut
    <3>1. /\ t.selCols = IF cut[c].image = None THEN {"image"} ELSE {}
          /\ t.sel.image = k
      BY <1>1, <1>10 DEF Completes, k, c
    <3>2. CASE cut[c].image = None
      BY <1>2, <3>1, <3>2, CutAfter DEF c
    <3>3. CASE cut[c].image # None
      BY <3>1, <3>3, NoSelection
    <3> QED
      BY <3>2, <3>3
  <2>2. \A d : d = c =>
          cut' = IF cut[d].image = None THEN [cut EXCEPT ![d].image = k] ELSE cut
    BY <2>1
  <2>3. Readers!Finish(k)
    BY <1>8, <1>9, <1>10, <2>2 DEF Readers!Finish
  <2> QED
    BY <1>1, <2>3 DEF Readers!BoardNext
<1>11. CASE job[k].kind = "VIDEO"
  <2>1. \E v \in {cut[c].video, k} : cut' = [cut EXCEPT ![c].video = v]
    <3>1. t.selCols \subseteq {"video"} /\ t.sel.video = k
      BY <1>1, <1>11 DEF Completes, k
    <3>2. cut' = [cut EXCEPT ![c].video = IF "video" \in t.selCols THEN k
                                                             ELSE cut[c].video]
      BY <1>2, <3>1, CutAfter DEF c
    <3> QED
      BY <3>2
  <2>2. Readers!Finish(k)
    BY <1>8, <1>9, <1>11, <2>1 DEF Readers!Finish
  <2> QED
    BY <1>1, <2>2 DEF Readers!BoardNext
<1> QED
  BY <1>2, <1>10, <1>11 DEF Kind

\* The commit of a selection is a choice of the board: of the image or video
\* that is set, or, when the image was set before, of the one that is there.
LEMMA SelectIsChoice ==
  ASSUME TypeOK, Integrity, Integrity', Alone, Seen, NEW p \in Proc, Commit(p),
         tx[p].artifact = None, tx[p].selCols # {}, Selects(tx[p], cut)
  PROVE  Readers!BoardNext
<1> DEFINE t == tx[p]
           c == t.cut
           image == IF "image" \in t.selCols THEN t.sel.image ELSE cut[c].image
           video == IF "video" \in t.selCols THEN t.sel.video ELSE cut[c].video
<1>0. /\ t \in Transaction /\ Sound(t) /\ Fresh /\ NoRefusal /\ c \in Cut
      /\ Kinds /\ AllFormed
  BY DEF TypeOK, StoreTypeOK, Integrity, Alone, Selects, Seen
<1>1. ASSUME NEW j \in Job
      PROVE  Look(job'[j]) = Look(job[j])
  <2>1. /\ job'[j].cut = job[j].cut /\ job'[j].kind = job[j].kind
        /\ job'[j].source = job[j].source /\ job'[j].status = job[j].status
    BY <1>0, CommitShows, NoneIsNoJob DEF Selects
  <2> QED
    BY <2>1 DEF Look
<1>2. [j \in Job |-> ShownRow(j, job'[j], artifact')] =
        [j \in Job |-> ShownRow(j, job[j], artifact)]
  <2>1. /\ \A j \in Job : ShownRow(j, job[j], artifact) = Look(job[j])
        /\ \A j \in Job : ShownRow(j, job'[j], artifact') = Look(job'[j])
    BY ShownIsLook DEF Integrity, SucceededHasArtifact
  <2> QED
    BY <1>1, <2>1
<1>3. ASSUME NEW i \in artifact, job[i].cut = c
      PROVE  \A kind \in Kind : job[i].kind = kind => i \in Readers!DoneOf(c, kind)
  BY <1>0, <1>3, DoneIsShown DEF Readers!DoneOf, Readers!Of
<1>4. cut' = [cut EXCEPT ![c] = [image |-> image, video |-> video]]
  BY <1>0, CutAfter
<1>5. /\ "image" \in t.selCols =>
           t.sel.image \in artifact /\ job[t.sel.image].kind = "IMAGE"
                                    /\ job[t.sel.image].cut = c
      /\ "video" \in t.selCols /\ t.sel.video # None =>
           t.sel.video \in artifact /\ job[t.sel.video].kind = "VIDEO"
                                    /\ job[t.sel.video].cut = c
  BY <1>0 DEF Selects, Sound, SelectionFits
<1>6. cut[c].image # None =>
        cut[c].image \in artifact /\ job[cut[c].image].kind = "IMAGE"
                                  /\ job[cut[c].image].cut = c
  BY <1>0 DEF Integrity, SelectionOfOwnCut, IsArtifact
<1>7. CASE "image" \in t.selCols \/ t.sel.video = None
  <2>1. image # None /\ video \in {None, cut[c].video}
    BY <1>7 DEF Selects
  <2>2. image \in artifact /\ job[image].kind = "IMAGE" /\ job[image].cut = c
    BY <1>5, <1>6, <2>1
  <2> HIDE DEF image, video, c
  <2>3. image \in Readers!DoneOf(c, "IMAGE") /\ image \in Job
    BY <1>3, <2>2 DEF Kind, TypeOK, StoreTypeOK
  <2>4. Readers!ChooseImage(c, image)
    BY <1>2, <1>4, <2>1, <2>3 DEF Readers!ChooseImage
  <2> QED
    BY <1>0, <2>3, <2>4 DEF Readers!BoardNext
<1>8. CASE "image" \notin t.selCols /\ t.sel.video # None
  <2>1. "video" \in t.selCols
    BY <1>0, <1>8 DEF Transaction
  <2>2. image = cut[c].image /\ video = t.sel.video
    BY <1>8, <2>1
  <2>3. video \in artifact /\ job[video].kind = "VIDEO" /\ job[video].cut = c
    BY <1>5, <1>8, <2>1, <2>2
  <2>4. cut' = [cut EXCEPT ![c].video = video]
    BY <1>0, <2>2, CutAfter
  <2> HIDE DEF image, video, c
  <2>5. video \in Readers!DoneOf(c, "VIDEO") /\ video \in Job
    BY <1>3, <2>3 DEF Kind, TypeOK, StoreTypeOK
  <2>6. Readers!ChooseVideo(c, video)
    BY <1>2, <2>4, <2>5 DEF Readers!ChooseVideo
  <2> QED
    BY <1>0, <2>5, <2>6 DEF Readers!BoardNext
<1> QED
  BY <1>7, <1>8

\* The commit of any other write shows as the failure of some jobs, or not at
\* all.
LEMMA UpdateIsFail ==
  ASSUME TypeOK, Integrity, Integrity', Alone, NEW p \in Proc, Commit(p),
         RowsOnly(tx[p])
  PROVE  \/ Readers!BoardNext
         \/ UNCHANGED <<[j \in Job |-> ShownRow(j, job[j], artifact)], cut>>
<1> DEFINE jobs == {j \in Job : /\ job[j].status \in Active
                                /\ job'[j].status = "FAILED"}
<1>0. Fresh /\ cut' = cut
  BY NoSelection DEF Alone, RowsOnly
<1>1. /\ \A j \in Job : ShownRow(j, job[j], artifact) = Look(job[j])
      /\ \A j \in Job : ShownRow(j, job'[j], artifact') = Look(job'[j])
  BY ShownIsLook DEF Integrity, SucceededHasArtifact
<1>2. ASSUME NEW j \in Job
      PROVE  Look(job'[j]) = IF j \in jobs THEN [Look(job[j]) EXCEPT !.status = "FAILED"]
                                           ELSE Look(job[j])
  <2>1. /\ job'[j].cut = job[j].cut /\ job'[j].kind = job[j].kind
        /\ job'[j].source = job[j].source
        /\ \/ job'[j].status = job[j].status
           \/ /\ job[j].status \in Active
              /\ job'[j].status \in Active \cup {"FAILED"}
    BY <1>0, CommitShows, NoneIsNoJob DEF RowsOnly
  <2>2. CASE j \in jobs
    BY <2>1, <2>2 DEF Look, Active
  <2>3. CASE j \notin jobs
    BY <2>1, <2>3 DEF Look, Active
  <2> QED
    BY <2>2, <2>3
<1>3. jobs \in SUBSET {j \in Job : ShownRow(j, job[j], artifact).status = "ACTIVE"}
  BY LookOf
<1>4. [j \in Job |-> ShownRow(j, job'[j], artifact')] =
        [j \in Job |-> IF j \in jobs
                       THEN [ShownRow(j, job[j], artifact) EXCEPT !.status = "FAILED"]
                       ELSE ShownRow(j, job[j], artifact)]
  BY <1>1, <1>2
<1> HIDE DEF jobs
<1>5. CASE jobs = {}
  BY <1>0, <1>4, <1>5
<1>6. CASE jobs # {}
  <2>1. Readers!Fail(jobs)
    BY <1>0, <1>3, <1>4, <1>6 DEF Readers!Fail
  <2> QED
    BY <1>3, <2>1 DEF Readers!BoardNext
<1> QED
  BY <1>5, <1>6

\* So every step is one of the board, or shows nothing.
LEMMA StepShows ==
  ASSUME TypeOK, Integrity, Integrity', Alone, Seen, FormedStep
  PROVE  \/ Readers!BoardNext
         \/ UNCHANGED <<[j \in Job |-> ShownRow(j, job[j], artifact)], cut>>
<1>1. ASSUME NEW p \in Proc, Commit(p)
      PROVE  \/ Readers!BoardNext
             \/ UNCHANGED <<[j \in Job |-> ShownRow(j, job[j], artifact)], cut>>
  <2>1. Formed(tx[p], job, cut) /\ Fresh /\ NoRefusal
    BY DEF Seen, AllFormed, Alone
  <2>2. CASE tx[p].artifact # None
    BY <1>1, <2>2, CompleteIsFinish
  <2>3. CASE tx[p].insert.status # "ABSENT"
    BY <1>1, <2>1, <2>3, InsertIsCreate DEF Formed
  <2>4. CASE tx[p].artifact = None /\ tx[p].selCols # {}
    BY <1>1, <2>1, <2>4, SelectIsChoice DEF Formed
  <2>5. CASE RowsOnly(tx[p])
    BY <1>1, <2>5, UpdateIsFail
  <2> QED
    BY <2>2, <2>3, <2>4, <2>5 DEF RowsOnly
<1>2. CASE Elapses
  <2>1. /\ UNCHANGED <<artifact, cut>>
        /\ \A j \in Job : Look(job'[j]) = Look(job[j])
    BY <1>2 DEF Elapses, WakeReached, DeadlineReached, TypeOK, StoreTypeOK, Row, Look
  <2>2. /\ \A j \in Job : ShownRow(j, job[j], artifact) = Look(job[j])
        /\ \A j \in Job : ShownRow(j, job'[j], artifact') = Look(job'[j])
    BY ShownIsLook DEF Integrity, SucceededHasArtifact
  <2> QED
    BY <2>1, <2>2
<1>3. CASE UNCHANGED <<job, artifact, cut>>
  BY <1>3
<1> QED
  BY <1>1, <1>2, <1>3 DEF FormedStep, Ends, Conflict, LockedOut, Open, Restarts,
     storeVars

(***************************************************************************)
(* With the worker alone, every behaviour keeps to this: each pending      *)
(* write fits the cut and the images as they are now, though it was        *)
(* decided on what they were (_complete, select_image, _create_job).       *)
(***************************************************************************)
THEOREM AlwaysSeen ==
  ASSUME WorkerAlone
  PROVE  Spec => []Seen
<1>1. Init => Seen
  BY SeenInit
<1>2. TypeOK /\ Integrity /\ Alone /\ Seen /\ [Next]_vars => Seen'
  BY NextIsFormedStep, SeenKept DEF Seen, WorkerAlone
<1> QED
  BY <1>1, <1>2, TypeCorrect, AlwaysIntegrity, AlwaysAlone, PTL DEF Spec

(***************************************************************************)
(* To its readers the backend is a Board, when the worker alone drives the *)
(* jobs: no interleaving of stale writes shows in the rows, whatever       *)
(* requests, crashes and locks there are.                                  *)
(***************************************************************************)
THEOREM RowsFollowBoard ==
  ASSUME WorkerAlone
  PROVE  Spec => FollowsBoard
<1>1. Init => Readers!BoardInit
  <2> SUFFICES ASSUME Init PROVE Readers!BoardInit
    OBVIOUS
  <2>1. ASSUME NEW j \in Job
        PROVE  ShownRow(j, job[j], artifact) = ShownRow(j, Backlog[j], Job)
    <3>1. job[j] = Backlog[j] /\ (Backlog[j].status = "SUCCEEDED" => j \in artifact)
      BY DEF Init, StoreInit
    <3> QED
      BY <3>1, ShownIsLook
  <2>2. [j \in Job |-> ShownRow(j, job[j], artifact)] =
          [j \in Job |-> ShownRow(j, Backlog[j], Job)]
    BY <2>1
  <2> QED
    BY <2>2 DEF Init, StoreInit, Readers!BoardInit
<1>2. TypeOK /\ Integrity /\ Integrity' /\ Alone /\ Seen /\ [Next]_vars
        => [Readers!BoardNext]_<<[j \in Job |-> ShownRow(j, job[j], artifact)], cut>>
  BY NextIsFormedStep, StepShows DEF Seen, WorkerAlone
<1> QED
  BY <1>1, <1>2, AlwaysSeen, AlwaysAlone, TypeCorrect, AlwaysIntegrity, PTL
     DEF Spec, FollowsBoard, Readers!BoardSpec, Readers!boardVars

----------------------------------------------------------------------------
(***************************************************************************)
(* The anchor gate between the reading of a claim and its commit, while    *)
(* requests come in.                                                       *)
(***************************************************************************)
\* No job of the anchor is under way but one that has just been requested.
OnlyRequested == AnchorStatuses \cap Active \subseteq {"QUEUED"}

\* The gate's decision, and the reference it gave, still hold when the claim
\* commits.
GateHeld ==
  \A j \in Requests :
    /\ "reference" \notin tx[Worker].cols[j] =>
         tx[Worker].set[j].reference = job[j].reference
    /\ /\ job[j].kind = "IMAGE" /\ job[j].cut # AnchorOrder
       /\ tx[Worker].set[j].reference = None
       => /\ cut[AnchorOrder].image = None
          /\ "FAILED" \in AnchorStatuses
          /\ OnlyRequested

\* What a claim gives a job it submits.
LEMMA ClaimedReference ==
  ASSUME StoreTypeOK, NEW j \in Due, Ready(j)
  PROVE  /\ "reference" \notin Dirty(job[j], Claimed(j)) =>
              Claimed(j).reference = job[j].reference
         /\ /\ job[j].kind = "IMAGE" /\ job[j].cut # AnchorOrder
            /\ Claimed(j).reference = None
            => /\ cut[AnchorOrder].image = None
               /\ "FAILED" \in AnchorStatuses
               /\ AnchorStatuses \cap Active = {}
<1>1. j \in Job /\ job[j] \in Row /\ AnchorOrder \in Cut
  BY StoreAssumption DEF Due, StoreTypeOK, Cut, AnchorOrder
<1>2. Claimed(j).reference =
        IF job[j].kind = "IMAGE" /\ AnchorDecision(j) = "REFERENCE"
        THEN cut[AnchorOrder].image ELSE job[j].reference
  BY <1>1 DEF Claimed, Row
<1>3. ASSUME job[j].kind = "IMAGE", job[j].cut # AnchorOrder,
             Claimed(j).reference = None
      PROVE  /\ cut[AnchorOrder].image = None
             /\ "FAILED" \in AnchorStatuses
             /\ AnchorStatuses \cap Active = {}
  <2>1. AnchorDecision(j) # "WAIT"
    BY <1>3 DEF Ready
  <2>2. AnchorDecision(j) = "REFERENCE" => cut[AnchorOrder].image = None
    BY <1>2, <1>3
  <2> QED
    BY <1>1, <1>3, <2>1, <2>2 DEF AnchorDecision, DecideAnchor
<1> QED
  BY <1>3 DEF Dirty, Column

\* A request that commits inserts a queued job, and leaves the jobs there are
\* and the cuts without an image as they were: of these it can select none.
LEMMA RequestSpares ==
  ASSUME TypeOK, Integrity, Alone, Seen, NEW p \in Client, Commit(p)
  PROVE  /\ \A j \in Job : Exists(j) => /\ job'[j].status = job[j].status
                                       /\ job'[j].reference = job[j].reference
                                       /\ job'[j].kind = job[j].kind
                                       /\ job'[j].cut = job[j].cut
         /\ \A j \in Job : ~Exists(j) => job'[j].status \in {"ABSENT", "QUEUED"}
         /\ \A c \in Cut : cut[c].image = None => cut'[c].image = None
<1> DEFINE t == tx[p]
<1>0. /\ p \in Proc /\ t \in Transaction /\ Sound(t) /\ Lawful(t, job)
      /\ Kinds /\ ImageSelected /\ AllFormed
      /\ \A j \in Job : t.cols[j] = {}
  <2>1. p \in Proc /\ p # Worker /\ p \notin Call
    BY ApiAssumption, SystemAssumption
  <2> QED
    BY <2>1 DEF Alone, Control, Fresh, Seen, TypeOK, StoreTypeOK, Integrity
<1>1. ASSUME NEW j \in Job
      PROVE  /\ job[j] \in Row /\ t.set[j] \in Row /\ t.cols[j] \in SUBSET Column
             /\ job'[j] = Merge(job[j], t.set[j], {}) =>
                  /\ job'[j].status = job[j].status
                  /\ job'[j].reference = job[j].reference
                  /\ job'[j].kind = job[j].kind
                  /\ job'[j].cut = job[j].cut
  <2>1. job[j] \in Row /\ t.set[j] \in Row /\ t.cols[j] \in SUBSET Column
    BY <1>0 DEF TypeOK, StoreTypeOK, Transaction
  <2> QED
    BY <2>1, MergeType, MergeColumns
<1>2. ASSUME NEW j \in Job, Exists(j)
      PROVE  job'[j] = Merge(job[j], t.set[j], {})
  BY <1>0, <1>2, CommitRows DEF Exists
<1>3. ASSUME NEW j \in Job, ~Exists(j)
      PROVE  job'[j].status \in {"ABSENT", "QUEUED"}
  <2>1. job'[j] = t.insert \/ job'[j] = Merge(job[j], t.set[j], {})
    BY <1>0, CommitRows
  <2> QED
    BY <1>0, <1>1, <1>3, <2>1 DEF Sound, Exists
<1>4. ASSUME NEW c \in Cut, cut[c].image = None
      PROVE  cut'[c].image = None
  <2>1. SUFFICES ASSUME c = t.cut, "image" \in t.selCols
                 PROVE  FALSE
    BY <1>0, <1>4, CommitSelections
  <2>2. t.artifact = None
    BY <1>0 DEF Lawful, Transaction
  <2>3. /\ t.sel.image \in artifact /\ job[t.sel.image].kind = "IMAGE"
        /\ job[t.sel.image].cut = c
    BY <1>0, <2>1, <2>2, ImageWriters
  <2> QED
    BY <1>0, <1>4, <2>3 DEF ImageSelected
<1> QED
  BY <1>1, <1>2, <1>3, <1>4

\* While the tick is about to submit, the jobs there are stay, those that come
\* are queued, and the anchor gets no image.
LEMMA ClaimUndisturbed ==
  ASSUME WorkerAlone, TypeOK, Integrity, Alone, Seen, [Next]_vars,
         Requests' # {}, ~ClaimRead
  PROVE  /\ Requests' = Requests /\ tx'[Worker] = tx[Worker]
         /\ \A j \in Job : Exists(j) => /\ job'[j].status = job[j].status
                                       /\ job'[j].reference = job[j].reference
                                       /\ job'[j].kind = job[j].kind
                                       /\ job'[j].cut = job[j].cut
         /\ \A j \in Job : ~Exists(j) => job'[j].status \in {"ABSENT", "QUEUED"}
         /\ \A c \in Cut : cut[c].image = None => cut'[c].image = None
<1>1. /\ Requests' = Requests /\ tx'[Worker] = tx[Worker]
      /\ \/ UNCHANGED storeVars
         \/ \E j \in Job : Wakes(j) \/ Expires(j)
         \/ \E j \in Job, a \in Attempt : Provider(j, a)
         \/ \E p \in Client : ClientActs(p)
  BY RequestsShape DEF Alone, WorkerAlone
<1>2. CASE UNCHANGED <<job, cut>>
  BY <1>1, <1>2 DEF Exists
<1>3. ASSUME NEW j \in Job, Wakes(j) \/ Expires(j)
      PROVE  /\ cut' = cut
             /\ \A i \in Job : /\ job'[i].status = job[i].status
                               /\ job'[i].reference = job[i].reference
                               /\ job'[i].kind = job[i].kind
                               /\ job'[i].cut = job[i].cut
  BY <1>3 DEF Wakes, Expires, WakeReached, DeadlineReached, TypeOK, StoreTypeOK, Row
<1>4. CASE \E j \in Job : Wakes(j) \/ Expires(j)
  BY <1>1, <1>3, <1>4 DEF Exists
<1>5. CASE \E p \in Client : ClientActs(p)
  <2>1. PICK p \in Client : ClientActs(p)
    BY <1>5
  <2>2. CASE Commit(p)
    BY <1>1, <2>2, RequestSpares
  <2>3. CASE ~Commit(p)
    <3>1. UNCHANGED <<job, cut>>
      BY <2>1, <2>3, ClientShape DEF Conflict, LockedOut, Open, storeVars
    <3> QED
      BY <1>2, <3>1
  <2> QED
    BY <2>2, <2>3
<1>6. CASE UNCHANGED storeVars \/ \E j \in Job, a \in Attempt : Provider(j, a)
  BY <1>2, <1>6 DEF Provider, ProviderFinishes, storeVars
<1> QED
  BY <1>1, <1>4, <1>5, <1>6

\* The gate's decision holds until the claim commits.
LEMMA GateHeldStep ==
  ASSUME WorkerAlone, TypeOK, Integrity, Alone, Seen, GateHeld, [Next]_vars
  PROVE  GateHeld'
<1>0. StoreTypeOK /\ Worker \in Proc /\ AttemptsLeft
  BY WorkerAssumption DEF TypeOK, Alone
<1>1. CASE Requests' = {}
  BY <1>1 DEF GateHeld
<1>2. CASE ClaimRead
  <2>1. UNCHANGED <<job, cut>> /\ tx'[Worker] = ClaimTx
    BY <1>2, ClaimRequests, <1>0 DEF ClaimRead, Open
  <2>2. AnchorStatuses' = AnchorStatuses
    BY <2>1 DEF AnchorStatuses
  <2>3. ASSUME NEW j \in Requests'
        PROVE  /\ "reference" \notin ClaimTx.cols[j] =>
                    ClaimTx.set[j].reference = job[j].reference
               /\ /\ job[j].kind = "IMAGE" /\ job[j].cut # AnchorOrder
                  /\ ClaimTx.set[j].reference = None
                  => /\ cut[AnchorOrder].image = None
                     /\ "FAILED" \in AnchorStatuses
                     /\ AnchorStatuses \cap Active = {}
    <3>1. j \in Visited /\ Ready(j) /\ ClaimTx.set[j] = Claimed(j)
      BY <1>0, <1>2, <2>3, ClaimRequests
    <3>2. j \in Due /\ j \in Job /\ ~Orphaned(j)
      BY <3>1 DEF Visited, Due, Ready
    <3>3. ClaimTx.cols[j] = Dirty(job[j], Claimed(j))
      BY <3>1, <3>2 DEF ClaimTx, Closed
    <3> QED
      BY <1>0, <3>1, <3>2, <3>3, ClaimedReference
  <2> QED
    BY <2>1, <2>2, <2>3 DEF GateHeld, OnlyRequested
<1>3. CASE Requests' # {} /\ ~ClaimRead
  <2>1. /\ Requests' = Requests /\ tx'[Worker] = tx[Worker]
        /\ \A j \in Job : Exists(j) => /\ job'[j].status = job[j].status
                                      /\ job'[j].reference = job[j].reference
                                      /\ job'[j].kind = job[j].kind
                                      /\ job'[j].cut = job[j].cut
        /\ \A j \in Job : ~Exists(j) => job'[j].status \in {"ABSENT", "QUEUED"}
        /\ \A c \in Cut : cut[c].image = None => cut'[c].image = None
    BY <1>3, ClaimUndisturbed
  <2>2. "FAILED" \in AnchorStatuses => "FAILED" \in AnchorStatuses'
    <3>1. SUFFICES ASSUME NEW k \in Job, job[k].cut = AnchorOrder,
                          job[k].kind = "IMAGE", job[k].status = "FAILED"
                   PROVE  "FAILED" \in AnchorStatuses'
      BY DEF AnchorStatuses
    <3>2. job'[k].cut = AnchorOrder /\ job'[k].kind = "IMAGE" /\ job'[k].status = "FAILED"
      BY <2>1, <3>1 DEF Exists
    <3> QED
      BY <3>2 DEF AnchorStatuses
  <2>3. OnlyRequested => OnlyRequested'
    <3>1. SUFFICES ASSUME OnlyRequested, NEW k \in Job, job'[k].cut = AnchorOrder,
                          job'[k].kind = "IMAGE", job'[k].status \in Active
                   PROVE  job'[k].status = "QUEUED"
      BY DEF OnlyRequested, AnchorStatuses
    <3>2. CASE Exists(k)
      BY <2>1, <3>1, <3>2 DEF OnlyRequested, AnchorStatuses
    <3>3. CASE ~Exists(k)
      BY <2>1, <3>1, <3>3 DEF Active
    <3> QED
      BY <3>2, <3>3
  <2>4. ASSUME NEW j \in Requests
        PROVE  j \in Job /\ Exists(j)
    BY WorkerAssumption DEF Requests, Alone, Claiming, Fresh, Lawful, Legal, Exists, Active,
       InFlight, Claimable
  <2>5. AnchorOrder \in Cut
    BY StoreAssumption DEF Cut, AnchorOrder
  <2> QED
    BY <2>1, <2>2, <2>3, <2>4, <2>5 DEF GateHeld
<1> QED
  BY <1>1, <1>2, <1>3

(***************************************************************************)
(* An image of a later cut is submitted without the anchor only when, at   *)
(* the commit of the claim and not only at its reading, the anchor has no  *)
(* image, a job of it has failed, and none is under way but one that a     *)
(* request has just queued: whatever requests come while the claim of      *)
(* _claim_due_submissions is pending, when the worker alone drives the     *)
(* jobs.                                                                   *)
(***************************************************************************)
THEOREM UnanchoredIsAfterFailure ==
  ASSUME WorkerAlone
  PROVE  Spec => UnanchoredOnlyAfterFailure
<1> DEFINE Justified(j) ==
      /\ job[j].status \in Claimable /\ job'[j].status = "SUBMITTING"
      /\ job[j].kind = "IMAGE" /\ job[j].cut # AnchorOrder
      /\ job'[j].reference = None
      => /\ cut[AnchorOrder].image = None
         /\ "FAILED" \in AnchorStatuses
         /\ AnchorStatuses \cap Active \subseteq {"QUEUED"}
<1>1. Init => GateHeld
  <2>1. Init => Requests = {}
    BY WorkerAssumption, ClosedWritesNothing DEF Init, StoreInit, Requests
  <2> QED
    BY <2>1 DEF GateHeld
<1>2. TypeOK /\ Integrity /\ Alone /\ Seen /\ GateHeld /\ [Next]_vars => GateHeld'
  BY GateHeldStep
<1>3. TypeOK /\ TypeOK' /\ Integrity /\ Alone /\ GateHeld /\ [Next]_vars
        => [\A j \in Job : Justified(j)]_vars
  <2> SUFFICES ASSUME TypeOK, TypeOK', Integrity, Alone, GateHeld, [Next]_vars,
                      NEW j \in Job,
                      job[j].status \in Claimable, job'[j].status = "SUBMITTING",
                      job[j].kind = "IMAGE", job[j].cut # AnchorOrder,
                      job'[j].reference = None
               PROVE  /\ cut[AnchorOrder].image = None
                      /\ "FAILED" \in AnchorStatuses
                      /\ AnchorStatuses \cap Active \subseteq {"QUEUED"}
    OBVIOUS
  <2>1. Commit(Worker) /\ j \in Requests /\ Exists(j)
    BY AloneKept, GetsInFlight DEF Alone, Claimable, InFlight
  <2> DEFINE t == tx[Worker]
  <2>2. /\ job[j] \in Row /\ t.set[j] \in Row /\ t.cols[j] \in SUBSET Column
        /\ Worker \in Proc
    BY WorkerAssumption DEF TypeOK, StoreTypeOK, Transaction
  <2>3. job'[j] = Merge(job[j], t.set[j], t.cols[j])
    BY <2>1, <2>2, CommitRows DEF Exists
  <2>4. job'[j].reference = IF "reference" \in t.cols[j] THEN t.set[j].reference
                                                        ELSE job[j].reference
    BY <2>2, <2>3, MergeColumns
  <2>5. t.set[j].reference = None
    BY <2>1, <2>4 DEF GateHeld
  <2> QED
    BY <2>1, <2>5 DEF GateHeld, OnlyRequested
<1> QED
  BY <1>1, <1>2, <1>3, AlwaysSeen, AlwaysAlone, TypeCorrect, AlwaysIntegrity, PTL
     DEF Spec, UnanchoredOnlyAfterFailure
=============================================================================
