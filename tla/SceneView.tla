----------------------------- MODULE SceneView -----------------------------
(***************************************************************************)
(* What the scene response says of a waiting job (app/scenes.py): it feeds *)
(* the anchor gate with the rows it read, once per cut, and marks the      *)
(* image jobs that the claimer skips for it.                               *)
(*                                                                         *)
(* get_scene reads the cuts in one SELECT and the jobs in the next, and    *)
(* holds no lock: the backend goes on in between.  Of the cuts the gate    *)
(* uses whether the anchor has an image, which the request keeps until it  *)
(* has the jobs and answers.                                               *)
(***************************************************************************)
EXTENDS Properties

VARIABLE anchorSeen   \* of a request under way: the anchor's image, as read

viewVars == <<anchorSeen>>

ViewInit == anchorSeen = "unread"

\* The SELECT of the cuts in get_scene.
ReadCuts ==
  /\ anchorSeen = "unread"
  /\ anchorSeen' = IF cut[AnchorOrder].image # None THEN "ready" ELSE "missing"
  /\ UNCHANGED vars

\* The SELECT of the jobs, and the answer.
ReadJobs ==
  /\ anchorSeen # "unread"
  /\ anchorSeen' = "unread"
  /\ UNCHANGED vars

JobsOfCut(c) == {j \in Job : Exists(j) /\ job[j].cut = c}

\* anchor_statuses of _scene_response
GateStatuses ==
  {job[j].status : j \in {i \in JobsOfCut(AnchorOrder) :
                            job[i].kind = "IMAGE"}}

\* anchor_gated of _scene_response
Gated(c) ==
  DecideAnchor(c, AnchorOrder \in Cut, anchorSeen = "ready",
               GateStatuses \cap Active # {}, "FAILED" \in GateStatuses)
    = "WAIT"

\* Mutant of WaitingForAnchor: a gated job that waits for a retry is left out.
WaitingForAnchorQueued(c) ==
  {j \in JobsOfCut(c) : /\ job[j].kind = "IMAGE"
                        /\ Gated(c)
                        /\ job[j].status = "QUEUED"}

\* waiting_for_anchor of _cut_response
WaitingForAnchor(c) ==
  {j \in JobsOfCut(c) : /\ job[j].kind = "IMAGE"
                        /\ Gated(c)
                        /\ job[j].status \in Claimable}

\* The jobs a response says to wait for the anchor, were it to read them now.
Told == UNION {WaitingForAnchor(c) : c \in Cut}

ViewNext ==
  \/ Next /\ UNCHANGED viewVars
  \/ ReadCuts
  \/ ReadJobs

ViewSpec == Init /\ ViewInit /\ [][ViewNext]_<<vars, viewVars>>

\* Nobody has to ask for the scene.
FairViewSpec == ViewSpec /\ Fairness

----------------------------------------------------------------------------
\* The jobs the claimer would skip now for the anchor's sake.
HeldBack ==
  {j \in Job : job[j].status \in Claimable /\ ~Orphaned(j) /\ ~Ready(j)}

(***************************************************************************)
(* No job is held back without being told to wait: whatever is committed   *)
(* between the two SELECTs of a response, a job that the gate of the       *)
(* claimer holds when the jobs are read is marked waiting_for_anchor.      *)
(***************************************************************************)
HeldIsExplained == anchorSeen # "unread" => HeldBack \subseteq Told

(***************************************************************************)
(* Conversely, a job told to wait for the anchor is one that the claimer   *)
(* would skip for it.                                                      *)
(***************************************************************************)
WaitIsTrue == anchorSeen # "unread" => Told \subseteq HeldBack
=============================================================================
