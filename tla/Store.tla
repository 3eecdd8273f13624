------------------------------- MODULE Store -------------------------------
(***************************************************************************)
(* The SQLite database behind the backend, and the one way it is written.  *)
(*                                                                         *)
(* Every handler of the program is an ORM transaction: it reads rows,      *)
(* decides on what it read, assigns columns, and commits.  The driver      *)
(* opens a database transaction at the first INSERT or UPDATE only, so the *)
(* reads hold no lock: between the read of a handler and its commit any    *)
(* other handler may commit.  The UPDATE names the columns whose value     *)
(* differs from the value read, and carries no version check.              *)
(*                                                                         *)
(* A transaction is therefore two steps here.  The read step of a handler  *)
(* (in Worker, Webhook and Api) fills tx[p] with the pending write; Commit *)
(* merges it into whatever the rows hold by then, or Conflict rolls it     *)
(* back when a unique index refuses it.  The reads of one handler are one  *)
(* step.  No handler deletes a row, and none of them is modelled deleting. *)
(***************************************************************************)
EXTENDS Integers, FiniteSets, Runtime

CONSTANTS
  MaxJobs,            \* bound: generation_jobs rows
  NumCuts,            \* cuts of the scene, numbered by their order column
  MaxAttempts,        \* GENERATION_MAX_ATTEMPTS, copied to every job
  Proc,               \* whoever can hold a transaction open
  None,               \* SQL NULL
  Backlog             \* generation_jobs as the process finds them at startup

Job == 1 .. MaxJobs   \* row ids, in created_at order
Cut == 1 .. NumCuts
Kind == {"IMAGE", "VIDEO"}

JobStatus ==
  {"QUEUED", "SUBMITTING", "PROCESSING", "RETRY_WAIT", "SUCCEEDED", "FAILED"}
Active == {"QUEUED", "SUBMITTING", "PROCESSING", "RETRY_WAIT"}
Claimable == {"QUEUED", "RETRY_WAIT"}
InFlight == {"SUBMITTING", "PROCESSING"}

\* A nullable timestamp, seen from now: NULL, in the future, reached.
Timer == {"null", "ahead", "reached"}

(***************************************************************************)
(* A row of generation_jobs.  task is the number of the attempt whose      *)
(* provider task external_task_id names; source and reference name the     *)
(* job that produced the image (cut_images.generation_job_id is unique, so *)
(* an artifact is identified by its job).                                  *)
(***************************************************************************)
Row == [status    : JobStatus \cup {"ABSENT"},
        cut       : Cut \cup {None},
        kind      : Kind \cup {None},
        mode      : Mode \cup {None},
        version   : Nat,
        source    : Job \cup {None},
        reference : Job \cup {None},
        attempts  : Nat,
        task      : Nat \cup {None},
        wake      : Timer,
        deadline  : Timer]

NoRow == [status |-> "ABSENT", cut |-> None, kind |-> None, mode |-> None,
          version |-> 0, source |-> None, reference |-> None, attempts |-> 0,
          task |-> None, wake |-> "null", deadline |-> "null"]

\* The columns a handler assigns after the INSERT.
Column == {"status", "reference", "attempts", "task", "wake", "deadline"}

(***************************************************************************)
(* NULL is no value of a column, and the rows found at startup are rows    *)
(* the program can have left: each is of a kind and a cut, the indexes     *)
(* hold, none has used more attempts than there are and one that waits has *)
(* some left, and the source image of a video job, when it is there, is    *)
(* one of its cut and mode.                                                *)
(***************************************************************************)
ASSUME StoreAssumption ==
  /\ MaxJobs \in Nat
  /\ NumCuts \in Nat \ {0}
  /\ MaxAttempts \in Nat \ {0}
  /\ None \notin Nat
  /\ None \notin Kind \cup Mode
  /\ IsFiniteSet(Proc)

ASSUME BacklogAssumption ==
  /\ Backlog \in [Job -> Row]
  /\ \A j \in Job : Backlog[j].status # "ABSENT" => Backlog[j].kind \in Kind
  /\ \A j \in Job : Backlog[j].kind \in Kind => Backlog[j].cut \in Cut
  /\ \A j \in Job :
       /\ Backlog[j].status = "ABSENT" => Backlog[j] = NoRow
       /\ Backlog[j].status \in Claimable => Backlog[j].attempts < MaxAttempts
       /\ Backlog[j].attempts <= MaxAttempts
  /\ \A i, j \in Job :
       /\ Backlog[i].status \in Active /\ Backlog[j].status \in Active
       /\ Backlog[i].cut = Backlog[j].cut /\ Backlog[i].kind = Backlog[j].kind
       => i = j
  /\ \A i, j \in Job :
       /\ Backlog[i].status # "ABSENT" /\ Backlog[j].status # "ABSENT"
       /\ Backlog[i].cut = Backlog[j].cut /\ Backlog[i].kind = Backlog[j].kind
       /\ Backlog[i].version = Backlog[j].version
       => i = j
  /\ \A j \in Job :
       LET i == Backlog[j].source IN
       Backlog[j].kind = "VIDEO" /\ i # None =>
         /\ Backlog[i].status = "SUCCEEDED"
         /\ Backlog[i].kind = "IMAGE"
         /\ Backlog[i].cut = Backlog[j].cut
         /\ Backlog[i].mode = Backlog[j].mode

\* The two selections of a row of cuts; the other columns never change.
Selection == [image : Job \cup {None}, video : Job \cup {None}]

(***************************************************************************)
(* A pending write: per job the columns to set and their values, a job to  *)
(* insert, an artifact to insert, and the selections of one cut to set.    *)
(***************************************************************************)
Transaction == [open     : BOOLEAN,
                cols     : [Job -> SUBSET Column],
                set      : [Job -> Row],
                insert   : Row,
                artifact : Job \cup {None},
                cut      : Cut \cup {None},
                selCols  : SUBSET {"image", "video"},
                sel      : Selection]

Closed == [open     |-> FALSE,
           cols     |-> [j \in Job |-> {}],
           set      |-> [j \in Job |-> NoRow],
           insert   |-> NoRow,
           artifact |-> None,
           cut      |-> None,
           selCols  |-> {},
           sel      |-> [image |-> None, video |-> None]]

VARIABLES
  job,        \* generation_jobs
  artifact,   \* cut_images and cut_videos, by the job that produced each
  cut,        \* cuts
  tx          \* the pending write of every process

storeVars == <<job, artifact, cut, tx>>

Exists(j) == job[j].status # "ABSENT"
IsArtifact(j, kind) == j \in artifact /\ job[j].kind = kind
First(S) == CHOOSE j \in S : \A k \in S : j <= k

StoreTypeOK ==
  /\ job \in [Job -> Row]
  /\ artifact \subseteq Job
  /\ cut \in [Cut -> Selection]
  /\ tx \in [Proc -> Transaction]

(***************************************************************************)
(* Startup: the rows an earlier run of the process left behind.  A cut     *)
(* whose images succeeded has the first of them selected, as _complete     *)
(* does when nobody chooses.                                               *)
(***************************************************************************)
StartImages(c) ==
  {j \in Job : /\ Backlog[j].cut = c
               /\ Backlog[j].kind = "IMAGE"
               /\ Backlog[j].status = "SUCCEEDED"}

StoreInit ==
  /\ job = Backlog
  /\ artifact = {j \in Job : Backlog[j].status = "SUCCEEDED"}
  /\ cut = [c \in Cut |->
             [image |-> IF StartImages(c) = {} THEN None
                                               ELSE First(StartImages(c)),
              video |-> None]]
  /\ tx = [p \in Proc |-> Closed]

----------------------------------------------------------------------------
(***************************************************************************)
(* What a handler assigns.                                                 *)
(***************************************************************************)

\* _terminal_failure: external_task_id is left as it is.
Failed(r) ==
  [r EXCEPT !.status = "FAILED", !.wake = "null", !.deadline = "null"]

\* Mutant of Retried: a status the CHECK constraint does not list.
RetriedUnlisted(r) ==
  [r EXCEPT !.status = "RETRYING", !.task = None,
            !.deadline = "null", !.wake = "ahead"]

\* The RETRY_WAIT branch of _set_retry_or_failure.
Retried(r) ==
  [r EXCEPT !.status = "RETRY_WAIT", !.task = None,
            !.deadline = "null", !.wake = "ahead"]

\* Mutant of Exhausted: the last attempt is not counted.
ExhaustedLate(r) == r.attempts > MaxAttempts

\* Mutant of Exhausted: a failure that may be transient is retried for ever.
NeverExhausted(r) == FALSE

Exhausted(r) == r.attempts >= MaxAttempts

Succeeded(r) ==
  [r EXCEPT !.status = "SUCCEEDED", !.wake = "null", !.deadline = "null"]

\* The columns of an UPDATE: those whose value is no longer the one read.
Dirty(read, want) == {c \in Column : read[c] # want[c]}

(***************************************************************************)
(* The pending UPDATE of one job.  A timer stamped with a fresh time is    *)
(* always a change, whatever it held.                                      *)
(***************************************************************************)
Update(j, want, stamped) ==
  [Closed EXCEPT !.open = TRUE,
                 !.cols[j] = Dirty(job[j], want) \cup stamped,
                 !.set[j] = want]

FailTx(j) == Update(j, Failed(job[j]), {})

\* _set_retry_or_failure.
RetryTx(j) ==
  IF Exhausted(job[j]) THEN FailTx(j)
                       ELSE Update(j, Retried(job[j]), {"wake"})

\* The PENDING branch of apply_external_result, and a transient poll failure.
RescheduleTx(j) ==
  Update(j, [job[j] EXCEPT !.wake = "ahead"], {"wake"})

(***************************************************************************)
(* _complete: the artifact row, the selection it takes over when the cut   *)
(* read had none, and the job row, in one transaction.                     *)
(***************************************************************************)
TakesOver(j) ==
  LET c == cut[job[j].cut] IN
  CASE job[j].kind = "IMAGE" -> IF c.image = None THEN {"image"} ELSE {}
    [] OTHER -> IF c.video = None /\ c.image = job[j].source
                THEN {"video"} ELSE {}

\* Mutant of CompleteTx: the job row is committed without its artifact.
CompleteWithoutArtifactTx(j) == Update(j, Succeeded(job[j]), {})

CompleteTx(j) ==
  IF job[j].kind = "VIDEO" /\ job[j].source = None
  THEN FailTx(j)
  ELSE [Update(j, Succeeded(job[j]), {}) EXCEPT
          !.artifact = j,
          !.cut = job[j].cut,
          !.selCols = TakesOver(j),
          !.sel = [image |-> IF job[j].kind = "IMAGE" THEN j ELSE None,
                   video |-> IF job[j].kind = "VIDEO" THEN j ELSE None]]

----------------------------------------------------------------------------
(***************************************************************************)
(* Commit.                                                                 *)
(***************************************************************************)

Merge(now, want, cols) ==
  [now EXCEPT
     !.status    = IF "status"    \in cols THEN want.status    ELSE @,
     !.reference = IF "reference" \in cols THEN want.reference ELSE @,
     !.attempts  = IF "attempts"  \in cols THEN want.attempts  ELSE @,
     !.task      = IF "task"      \in cols THEN want.task      ELSE @,
     !.wake      = IF "wake"      \in cols THEN want.wake      ELSE @,
     !.deadline  = IF "deadline"  \in cols THEN want.deadline  ELSE @]

Absent == {j \in Job : ~Exists(j)}

\* The id an inserted job gets.
NewId(t) == IF t.insert.status = "ABSENT" THEN None ELSE First(Absent)

JobsAfter(t) ==
  [j \in Job |-> IF j = NewId(t) THEN t.insert
                                 ELSE Merge(job[j], t.set[j], t.cols[j])]

\* uq_active_generation_per_cut_kind
ActiveIndexHolds(rows) ==
  \A i, j \in Job :
    /\ rows[i].status \in Active /\ rows[j].status \in Active
    /\ rows[i].cut = rows[j].cut /\ rows[i].kind = rows[j].kind
    => i = j

\* uq_generation_cut_kind_version
VersionIndexHolds(rows) ==
  \A i, j \in Job :
    /\ rows[i].status # "ABSENT" /\ rows[j].status # "ABSENT"
    /\ rows[i].cut = rows[j].cut /\ rows[i].kind = rows[j].kind
    /\ rows[i].version = rows[j].version
    => i = j

\* cut_images.generation_job_id and cut_videos.generation_job_id are unique.
ArtifactIndexHolds(t) == t.artifact \notin artifact

Accepted(t) ==
  /\ ActiveIndexHolds(JobsAfter(t))
  /\ VersionIndexHolds(JobsAfter(t))
  /\ ArtifactIndexHolds(t)

Commit(p) ==
  LET t == tx[p] IN
  /\ t.open
  /\ t.insert.status = "ABSENT" \/ Absent # {}
  /\ Accepted(t)
  /\ job' = JobsAfter(t)
  /\ artifact' = artifact \cup ({t.artifact} \ {None})
  /\ cut' = [c \in Cut |->
              IF c # t.cut THEN cut[c]
              ELSE [image |-> IF "image" \in t.selCols THEN t.sel.image
                                                       ELSE cut[c].image,
                    video |-> IF "video" \in t.selCols THEN t.sel.video
                                                       ELSE cut[c].video]]
  /\ tx' = [tx EXCEPT ![p] = Closed]

\* IntegrityError: the whole transaction is rolled back.
Conflict(p) ==
  /\ tx[p].open
  /\ ~Accepted(tx[p])
  /\ tx' = [tx EXCEPT ![p] = Closed]
  /\ UNCHANGED <<job, artifact, cut>>

\* OperationalError: the write lock was not free within busy_timeout.
LockedOut(p) ==
  /\ tx[p].open
  /\ tx' = [tx EXCEPT ![p] = Closed]
  /\ UNCHANGED <<job, artifact, cut>>

Open(p, t) ==
  /\ tx' = [tx EXCEPT ![p] = t]
  /\ UNCHANGED <<job, artifact, cut>>

----------------------------------------------------------------------------
(***************************************************************************)
(* Time: a timestamp in the future is reached, whoever has a transaction   *)
(* open then: a commit waits up to 5 s for the database, the first retry   *)
(* is due after 1 s.                                                       *)
(***************************************************************************)
WakeReached(j) ==
  /\ job[j].wake = "ahead"
  /\ job' = [job EXCEPT ![j].wake = "reached"]
  /\ UNCHANGED <<artifact, cut, tx>>

DeadlineReached(j) ==
  /\ job[j].deadline = "ahead"
  /\ job' = [job EXCEPT ![j].deadline = "reached"]
  /\ UNCHANGED <<artifact, cut, tx>>
=============================================================================
