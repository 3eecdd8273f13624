------------------------------- MODULE Board -------------------------------
(***************************************************************************)
(* The rows of a scene as its readers see them: jobs that are requested,   *)
(* run and end, artifacts that appear together with their job's success,   *)
(* and the selections of each cut.  This is all the frontend knows of the  *)
(* backend.  An artifact has the id of its job.                            *)
(***************************************************************************)
EXTENDS Integers, FiniteSets

CONSTANTS Job, Cut, Null, InitialRow, InitialCut

VARIABLES
  row,   \* the jobs
  cut    \* the selected image and video of every cut

boardVars == <<row, cut>>

Kind == {"IMAGE", "VIDEO"}
RowStatus == {"ABSENT", "ACTIVE", "SUCCEEDED", "FAILED"}

BoardTypeOK ==
  /\ row \in [Job -> [status : RowStatus, cut : Cut \cup {Null},
                      kind : Kind \cup {Null}, source : Job \cup {Null}]]
  /\ cut \in [Cut -> [image : Job \cup {Null}, video : Job \cup {Null}]]

BoardInit ==
  /\ row = InitialRow
  /\ cut = InitialCut

Of(c, kind) == {j \in Job : /\ row[j].status # "ABSENT"
                            /\ row[j].cut = c
                            /\ row[j].kind = kind}

ActiveOf(c, kind) == {j \in Of(c, kind) : row[j].status = "ACTIVE"}
DoneOf(c, kind) == {j \in Of(c, kind) : row[j].status = "SUCCEEDED"}

Unused == {j \in Job : row[j].status = "ABSENT"}

\* A cut has one active job of a kind, and a video starts from one of its
\* images.
Create(j, c, kind, source) ==
  /\ \A k \in Unused : j <= k
  /\ row' = [row EXCEPT ![j] = [status |-> "ACTIVE", cut |-> c,
                                kind |-> kind, source |-> source]]
  /\ ActiveOf(c, kind) = {}
  /\ \/ kind = "IMAGE" /\ source = Null
     \/ kind = "VIDEO" /\ source \in DoneOf(c, "IMAGE")
  /\ UNCHANGED cut

\* Jobs end without a result.
Fail(jobs) ==
  /\ jobs \in (SUBSET {j \in Job : row[j].status = "ACTIVE"}) \ {{}}
  /\ row' = [j \in Job |-> IF j \in jobs
                           THEN [row[j] EXCEPT !.status = "FAILED"]
                           ELSE row[j]]
  /\ UNCHANGED cut

\* The first image of a cut is selected; a video may be.
Finish(j) ==
  /\ row[j].status = "ACTIVE"
  /\ row' = [row EXCEPT ![j].status = "SUCCEEDED"]
  /\ LET c == row[j].cut IN
     \/ /\ row[j].kind = "IMAGE"
        /\ cut' = IF cut[c].image = Null THEN [cut EXCEPT ![c].image = j]
                                         ELSE cut
     \/ /\ row[j].kind = "VIDEO"
        /\ \E v \in {cut[c].video, j} : cut' = [cut EXCEPT ![c].video = v]

\* Two selections that overlap may each leave what they found as it is.
ChooseImage(c, i) ==
  /\ i \in DoneOf(c, "IMAGE")
  /\ \E image \in {i, cut[c].image}, video \in {Null, cut[c].video} :
       cut' = [cut EXCEPT ![c] = [image |-> image, video |-> video]]
  /\ UNCHANGED row

ChooseVideo(c, v) ==
  /\ v \in DoneOf(c, "VIDEO")
  /\ cut' = [cut EXCEPT ![c].video = v]
  /\ UNCHANGED row

BoardNext ==
  \/ \E j \in Unused, c \in Cut, kind \in Kind, s \in Job \cup {Null} :
       Create(j, c, kind, s)
  \/ \E jobs \in SUBSET {j \in Job : row[j].status = "ACTIVE"} : Fail(jobs)
  \/ \E j \in Job :
       \/ Finish(j)
       \/ \E c \in Cut : ChooseImage(c, j) \/ ChooseVideo(c, j)

BoardSpec == BoardInit /\ [][BoardNext]_boardVars
=============================================================================
