-------------------------------- MODULE Api --------------------------------
(***************************************************************************)
(* The requests that write (app/generations.py, app/batches.py): create    *)
(* jobs for one cut or for the scene, select an image or a video of a cut. *)
(*                                                                         *)
(* A batch is one transaction per cut, in cut order, under the mode read   *)
(* when the request arrived.  A cut whose job is refused is skipped.       *)
(***************************************************************************)
EXTENDS Store

CONSTANTS
  Client,         \* requests being handled at once
  RequestKinds    \* bound: the kinds of jobs clients ask for

ASSUME ApiAssumption ==
  /\ Client \subseteq Proc
  /\ RequestKinds \subseteq Kind

VARIABLES
  client   \* per handler, the job creations left, None when idle

apiVars == <<client>>

\* A request that is answered is gone, so cuts are left of every other.
Request == [kind : Kind, mode : Mode, left : (SUBSET Cut) \ {{}}]

ApiTypeOK == client \in [Client -> Request \cup {None}]

ApiInit == client = [p \in Client |-> None]

Answered(p) == client' = [client EXCEPT ![p] = None]

\* Nobody else's request is being handled by p.
Waiting(p) == client[p] = None /\ ~tx[p].open

----------------------------------------------------------------------------
(***************************************************************************)
(* create_image_job, create_video_job, _create_batch                       *)
(***************************************************************************)
RequestJobs(p, kind, cuts) ==
  /\ Waiting(p)
  /\ client' = [client EXCEPT
                  ![p] = [kind |-> kind, mode |-> mode, left |-> cuts]]
  /\ UNCHANGED storeVars

\* _selected_successful_image
SelectedImage(c) ==
  LET i == cut[c].image IN
  IF i # None /\ IsArtifact(i, "IMAGE")
     /\ job[i].cut = c /\ job[i].status = "SUCCEEDED"
  THEN i ELSE None

\* Mutant of SourceUsable: the mode of the image is not compared.
SourceOfAnyMode(c, m) == SelectedImage(c) # None

\* SELECTED_IMAGE_REQUIRED and ARTIFACT_MODE_MISMATCH
SourceUsable(c, m) ==
  SelectedImage(c) # None /\ job[SelectedImage(c)].mode = m

Versions(c, kind) ==
  {job[j].version : j \in {i \in Job : /\ Exists(i)
                                       /\ job[i].cut = c
                                       /\ job[i].kind = kind}}

NextVersion(c, kind) ==
  {v \in 1 .. MaxJobs + 1 : /\ \A w \in Versions(c, kind) : w < v
                            /\ v = 1 \/ v - 1 \in Versions(c, kind)}

\* _create_job: the row it will insert.
NewRow(c, kind, m, version) ==
  [NoRow EXCEPT
     !.status = "QUEUED", !.cut = c, !.kind = kind, !.mode = m,
     !.version = version,
     !.source = IF kind = "VIDEO" THEN SelectedImage(c) ELSE None]

\* Bound: an id is left for every insert that is pending.
IdLeft ==
  Cardinality({q \in Client : tx[q].insert.status # "ABSENT"})
    < Cardinality(Absent)

NextCut(p) == First(client[p].left)

Refusable(p) ==
  client[p].kind = "VIDEO" /\ ~SourceUsable(NextCut(p), client[p].mode)

\* The request goes on with the next cut, or is answered.
Proceed(p) ==
  LET left == client[p].left \ {NextCut(p)} IN
  client' = [client EXCEPT
               ![p] = IF left = {} THEN None
                                   ELSE [client[p] EXCEPT !.left = left]]

CreateRead(p) ==
  /\ client[p] # None
  /\ ~tx[p].open
  /\ ~Refusable(p)
  /\ IdLeft
  /\ \E v \in NextVersion(NextCut(p), client[p].kind) :
       Open(p, [Closed EXCEPT
                  !.open = TRUE,
                  !.insert = NewRow(NextCut(p), client[p].kind,
                                    client[p].mode, v)])
  /\ UNCHANGED apiVars

CreateRefused(p) ==
  /\ client[p] # None
  /\ ~tx[p].open
  /\ Refusable(p)
  /\ Proceed(p)
  /\ UNCHANGED storeVars

CreateCommit(p) ==
  /\ client[p] # None
  /\ Commit(p)
  /\ Proceed(p)

\* GENERATION_ALREADY_ACTIVE: in a batch the cut is skipped.
CreateConflict(p) ==
  /\ client[p] # None
  /\ Conflict(p)
  /\ Proceed(p)

\* Any other exception ends the request, a batch with the cuts still left.
CreateLockedOut(p) ==
  /\ client[p] # None
  /\ LockedOut(p)
  /\ Answered(p)

----------------------------------------------------------------------------
(***************************************************************************)
(* select_image, select_video                                              *)
(***************************************************************************)
SelectTx(c, want) ==
  [Closed EXCEPT
     !.open = TRUE, !.cut = c, !.sel = want,
     !.selCols = {col \in {"image", "video"} : want[col] # cut[c][col]}]

\* Mutant of Selectable: the artifact of another cut is accepted.
SelectableAnywhere(c, j, kind) ==
  IsArtifact(j, kind) /\ job[j].status = "SUCCEEDED"

Selectable(c, j, kind) ==
  /\ IsArtifact(j, kind)
  /\ job[j].cut = c
  /\ job[j].status = "SUCCEEDED"

SelectImage(p, c, i) ==
  /\ Waiting(p)
  /\ Selectable(c, i, "IMAGE")
  /\ Open(p, SelectTx(c, [image |-> i, video |-> None]))
  /\ UNCHANGED apiVars

SelectVideo(p, c, v) ==
  /\ Waiting(p)
  /\ Selectable(c, v, "VIDEO")
  /\ job[v].source = cut[c].image
  /\ Open(p, SelectTx(c, [cut[c] EXCEPT !.video = v]))
  /\ UNCHANGED apiVars

SelectCommit(p) ==
  /\ client[p] = None
  /\ Commit(p)
  /\ UNCHANGED apiVars

SelectLockedOut(p) ==
  /\ client[p] = None
  /\ LockedOut(p)
  /\ UNCHANGED apiVars

RequestSelection(p) ==
  \E c \in Cut, j \in Job : SelectImage(p, c, j) \/ SelectVideo(p, c, j)

RequestCreation(p) ==
  \E kind \in RequestKinds :
    \/ RequestJobs(p, kind, Cut)
    \/ \E c \in Cut : RequestJobs(p, kind, {c})

ClientCommits(p) ==
  CreateCommit(p) \/ CreateConflict(p) \/ SelectCommit(p)

ClientStep(p) ==
  \/ RequestCreation(p)
  \/ CreateRead(p)
  \/ CreateRefused(p)
  \/ ClientCommits(p)
=============================================================================
