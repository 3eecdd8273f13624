----------------------------- MODULE Properties -----------------------------
(***************************************************************************)
(* What the backend is to guarantee.                                       *)
(***************************************************************************)
EXTENDS System

Terminal == {"SUCCEEDED", "FAILED"}

(***************************************************************************)
(* A job that says SUCCEEDED has its artifact: no failure, rollback or     *)
(* merge of two handlers' columns separates the status from the row.       *)
(***************************************************************************)
SucceededHasArtifact ==
  \A j \in Job : job[j].status = "SUCCEEDED" => j \in artifact

(***************************************************************************)
(* What a cut selects is an artifact of its kind that was generated for    *)
(* this very cut, whoever selected it: the user or the finishing job.      *)
(***************************************************************************)
SelectionOfOwnCut ==
  \A c \in Cut :
    /\ cut[c].image # None => /\ IsArtifact(cut[c].image, "IMAGE")
                              /\ job[cut[c].image].cut = c
    /\ cut[c].video # None => /\ IsArtifact(cut[c].video, "VIDEO")
                              /\ job[cut[c].video].cut = c

(***************************************************************************)
(* The image a video job starts from exists, belongs to its cut and was    *)
(* made in the video job's mode, whatever was selected or switched between *)
(* the request and the submission.                                         *)
(***************************************************************************)
SourceFits(r) ==
  r.kind = "VIDEO" /\ r.source # None =>
    /\ IsArtifact(r.source, "IMAGE")
    /\ job[r.source].cut = r.cut
    /\ job[r.source].mode = r.mode

SourceOfOwnCutAndMode == \A j \in Job : SourceFits(job[j])

(***************************************************************************)
(* At most one job of a cut and kind is active: what the partial index     *)
(* guards, kept with the invariants that rest on it.                       *)
(***************************************************************************)
OneActiveJob ==
  \A i, j \in Job :
    /\ job[i].status \in Active /\ job[j].status \in Active
    /\ job[i].cut = job[j].cut /\ job[i].kind = job[j].kind
    => i = j

(***************************************************************************)
(* No job is submitted more often than max_attempts.                       *)
(***************************************************************************)
AttemptBound == \A j \in Job : job[j].attempts <= MaxAttempts

(***************************************************************************)
(* Late retries may take a job past max_attempts, but a handler that still *)
(* holds one holds only one: the job is submitted no more often than there *)
(* are attempts and coroutines that can have read it before its last one.  *)
(***************************************************************************)
Appliers(j) == Hook \cup {c \in Call : JobOf(c) = j}

OverrunIsBounded ==
  \A j \in Job : job[j].attempts <= MaxAttempts + Cardinality(Appliers(j))

(***************************************************************************)
(* A submission nobody knows the outcome of is never repeated: neither     *)
(* after a read timeout, nor after a crash with the call out.              *)
(***************************************************************************)
NoBlindResubmit ==
  \A j \in Job, a, b \in Attempt :
    a < b /\ ledger[j][a] = "lost" => ledger[j][b] = "unsent"

(***************************************************************************)
(* No more than the configured number of jobs is with a provider, counted  *)
(* on the rows, over ticks, crashes and timeouts.                          *)
(***************************************************************************)
ConcurrencyBound == Cardinality(InFlightJobs) <= Concurrency

(***************************************************************************)
(* Every job of the queue ends for good, SUCCEEDED or FAILED: behind gated *)
(* jobs, with a provider that never answers, over crashes and calls that   *)
(* raise.                                                                  *)
(***************************************************************************)
JobsEnd ==
  <>[](\A j \in Job : Exists(j) => job[j].status \in Terminal)

(***************************************************************************)
(* A job that ended keeps its status.                                      *)
(***************************************************************************)
TerminalIsFinal ==
  [][\A j \in Job : job[j].status \in Terminal =>
                      job'[j].status = job[j].status]_vars

(***************************************************************************)
(* The rows of generation_jobs follow the documented transitions, and no   *)
(* other: what a reader of the table may rely on, with the worker the only *)
(* writer of outcomes.                                                     *)
(***************************************************************************)
Documented == INSTANCE Lifecycle WITH
  status <- [j \in Job |-> job[j].status],
  attempts <- [j \in Job |-> job[j].attempts],
  InitialStatus <- [j \in Job |-> Backlog[j].status],
  InitialAttempts <- [j \in Job |-> Backlog[j].attempts]

FollowsLifecycle == Documented!Spec

(***************************************************************************)
(* To its readers the database is a board of jobs that run and end, of     *)
(* artifacts that appear with their job's success, and of selections made  *)
(* among them; no interleaving of the handlers' stale writes shows.        *)
(* A success without its artifact, or the reverse, is no status of it.     *)
(***************************************************************************)
ShownStatus(j, r, done) ==
  CASE r.status \in Active -> "ACTIVE"
    [] r.status = "SUCCEEDED" /\ j \notin done -> "HOLLOW"
    [] OTHER -> r.status

ShownRow(j, r, done) ==
  [status |-> ShownStatus(j, r, done), cut |-> r.cut, kind |-> r.kind,
   source |-> r.source]

Readers == INSTANCE Board WITH
  Null <- None,
  row <- [j \in Job |-> ShownRow(j, job[j], artifact)],
  InitialRow <- [j \in Job |-> ShownRow(j, Backlog[j], Job)],
  InitialCut <- [c \in Cut |->
                  [image |-> IF StartImages(c) = {} THEN None
                                                    ELSE First(StartImages(c)),
                   video |-> None]]

FollowsBoard == Readers!BoardSpec

(***************************************************************************)
(* The selected video was generated from the selected image.               *)
(***************************************************************************)
VideoOfSelectedImage ==
  \A c \in Cut : cut[c].video # None => job[cut[c].video].source = cut[c].image

(***************************************************************************)
(* The anchor image a job references was made in the job's own mode.       *)
(***************************************************************************)
ReferenceOfOwnMode ==
  \A j \in Job :
    job[j].reference # None => job[job[j].reference].mode = job[j].mode

(***************************************************************************)
(* The tick declares a submission uncertain only when no call of this      *)
(* process is still waiting for its answer.                                *)
(***************************************************************************)
RecoversOnlyOrphanedSubmits ==
  phase = "recovering" =>
    \A c \in Call : call[c] # None /\ c[1] = "submit" =>
      tx[Worker].cols[JobOf(c)] = {}

(***************************************************************************)
(* A request is refused with GENERATION_ALREADY_ACTIVE only when a job of  *)
(* the cut and kind is active.                                             *)
(***************************************************************************)
RefusedBesideActive ==
  [][\A p \in Client :
       CreateConflict(p) =>
         \E j \in Job : /\ job[j].status \in Active
                        /\ job[j].cut = tx[p].insert.cut
                        /\ job[j].kind = tx[p].insert.kind]_vars

(***************************************************************************)
(* An image of a later cut is submitted without the anchor only after a    *)
(* job of the anchor failed for good, and not when, at the commit of the   *)
(* claim, the anchor has an image or another job of it is on its way: at   *)
(* most one that was requested since the claim was read is queued.         *)
(***************************************************************************)
UnanchoredOnlyAfterFailure ==
  [][\A j \in Job :
       /\ job[j].status \in Claimable /\ job'[j].status = "SUBMITTING"
       /\ job[j].kind = "IMAGE" /\ job[j].cut # AnchorOrder
       /\ job'[j].reference = None
       => /\ cut[AnchorOrder].image = None
          /\ "FAILED" \in AnchorStatuses
          /\ AnchorStatuses \cap Active \subseteq {"QUEUED"}]_vars

----------------------------------------------------------------------------
(***************************************************************************)
(* What makes the invariants of the rows inductive: what every pending     *)
(* write carries, however stale the rows it was computed from have become. *)
(* It sets SUCCEEDED only together with the artifact, and never takes a    *)
(* row away; the artifact is of a job there is; the selections and the     *)
(* source it sets were made for the cut it sets them on, and it takes no   *)
(* image away from a cut.                                                  *)
(***************************************************************************)
OfSomeCut(r) == r.kind \in Kind => r.cut \in Cut

SelectionFits(t, i, kind) ==
  /\ i \in Job
  /\ i \in artifact \/ i = t.artifact
  /\ job[i].kind = kind
  /\ job[i].cut = t.cut

Sound(t) ==
  /\ \A j \in Job : "status" \in t.cols[j] =>
       /\ t.set[j].status # "ABSENT"
       /\ t.set[j].status = "SUCCEEDED" => t.artifact = j
  /\ t.artifact # None => Exists(t.artifact)
  /\ t.insert.status \in {"ABSENT", "QUEUED"}
  /\ OfSomeCut(t.insert)
  /\ SourceFits(t.insert)
  /\ "image" \in t.selCols => SelectionFits(t, t.sel.image, "IMAGE")
  /\ "video" \in t.selCols /\ t.sel.video # None =>
       SelectionFits(t, t.sel.video, "VIDEO")

(***************************************************************************)
(* The rows are consistent, and so is every write that is under way.       *)
(***************************************************************************)
Integrity ==
  /\ SucceededHasArtifact
  /\ SelectionOfOwnCut
  /\ SourceOfOwnCutAndMode
  /\ OneActiveJob
  /\ \A j \in artifact : Exists(j)
  /\ \A j \in Job : OfSomeCut(job[j])
  /\ \A p \in Proc : Sound(tx[p])
=============================================================================
