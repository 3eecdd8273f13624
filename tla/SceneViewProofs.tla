-------------------------- MODULE SceneViewProofs --------------------------
(***************************************************************************)
(* Proofs about the scene response, for every backend it may run beside:   *)
(* callbacks, calls left behind, requests, crashes and locks.              *)
(*                                                                         *)
(* The two SELECTs of the response see different rows.  That no wait goes  *)
(* unexplained rests on their order and on one fact of the rows: a cut     *)
(* that has an image selected never again has none.  So an anchor that has *)
(* an image when the cuts are read still has one when the jobs are, and    *)
(* the gate of the response is never more open than the claimer's.         *)
(***************************************************************************)
EXTENDS SystemProofs, SceneView

\* No step takes a cut's image away.
LEMMA ImageKept ==
  ASSUME TypeOK, Integrity, [Next]_vars, NEW c \in Cut, cut[c].image # None
  PROVE  cut'[c].image # None
<1>1. CASE \E p \in Proc : Commit(p)
  <2>1. PICK p \in Proc : Commit(p)
    BY <1>1
  <2> DEFINE t == tx[p]
  <2>2. "image" \in t.selCols => t.sel.image # None
    BY NoneIsNoJob DEF Integrity, Sound, SelectionFits
  <2>3. cut'[c] = IF c # t.cut THEN cut[c]
                  ELSE [image |-> IF "image" \in t.selCols THEN t.sel.image
                                                           ELSE cut[c].image,
                        video |-> IF "video" \in t.selCols THEN t.sel.video
                                                           ELSE cut[c].video]
    BY <2>1 DEF Commit
  <2> QED
    BY <2>2, <2>3
<1>2. CASE UNCHANGED cut
  BY <1>2
<1>3. UNCHANGED cut \/ \E p \in Proc : Commit(p)
  <2>1. StoreStep
    BY NextIsStoreStep
  <2> QED
    BY <2>1 DEF StoreStep, Opens, Open, Ends, Conflict, LockedOut, Elapses,
       WakeReached, DeadlineReached, Restarts, storeVars
<1> QED
  BY <1>1, <1>2, <1>3

\* What the request has read of the anchor is still so when it has the jobs.
SeenStays ==
  /\ anchorSeen \in {"unread", "missing", "ready"}
  /\ anchorSeen = "ready" => cut[AnchorOrder].image # None

LEMMA AnchorIsCut == AnchorOrder \in Cut
  BY StoreAssumption DEF AnchorOrder, Cut

\* Every step of the backend and of the request keeps it.
LEMMA SeenStaysKept ==
  ASSUME TypeOK, Integrity, SeenStays, [ViewNext]_<<vars, viewVars>>
  PROVE  SeenStays'
<1>1. CASE Next /\ UNCHANGED viewVars
  BY <1>1, ImageKept, AnchorIsCut DEF SeenStays, viewVars
<1>2. CASE ReadCuts
  BY <1>2 DEF ReadCuts, SeenStays, vars, storeVars
<1>3. CASE ReadJobs
  BY <1>3 DEF ReadJobs, SeenStays
<1>4. CASE UNCHANGED <<vars, viewVars>>
  BY <1>4 DEF SeenStays, vars, storeVars, viewVars
<1> QED
  BY <1>1, <1>2, <1>3, <1>4 DEF ViewNext

\* The gate of the response is no more open than that of the claimer.
LEMMA GateIsTold ==
  ASSUME TypeOK, Integrity, SeenStays, NEW j \in HeldBack
  PROVE  j \in Told
<1>1. /\ j \in Job /\ job[j].status \in Claimable
      /\ job[j].kind = "IMAGE" /\ AnchorDecision(j) = "WAIT"
  BY DEF HeldBack, Ready
<1>2. Exists(j) /\ job[j].cut \in Cut
  BY <1>1 DEF Exists, Claimable, Integrity, OfSomeCut, Kind
<1>3. \A status : status \in AnchorStatuses /\ status # "ABSENT" <=>
                  status \in GateStatuses
  BY DEF AnchorStatuses, GateStatuses, JobsOfCut, Exists
<1>4. /\ GateStatuses \cap Active # {} <=> AnchorStatuses \cap Active # {}
      /\ "FAILED" \in GateStatuses <=> "FAILED" \in AnchorStatuses
  BY <1>3 DEF Active
<1>5. /\ job[j].cut # AnchorOrder /\ cut[AnchorOrder].image = None
      /\ \/ AnchorStatuses \cap Active # {}
         \/ "FAILED" \notin AnchorStatuses
  BY <1>1, AnchorIsCut DEF AnchorDecision, DecideAnchor
<1>6. anchorSeen # "ready"
  BY <1>5 DEF SeenStays
<1>7. Gated(job[j].cut)
  BY <1>4, <1>5, <1>6, AnchorIsCut DEF Gated, DecideAnchor
<1>8. j \in WaitingForAnchor(job[j].cut)
  BY <1>1, <1>2, <1>7 DEF WaitingForAnchor, JobsOfCut
<1> QED
  BY <1>2, <1>8 DEF Told

(***************************************************************************)
(* A response tells of every job held back for the anchor's sake that it   *)
(* waits, though it reads the cuts before the jobs and the backend commits *)
(* in between (get_scene, _scene_response, _resolve_anchor_reference).     *)
(***************************************************************************)
THEOREM HeldIsAlwaysExplained == ViewSpec => []HeldIsExplained
<1>1. ViewSpec => Spec
  <2>1. [ViewNext]_<<vars, viewVars>> => [Next]_vars
    BY DEF ViewNext, ReadCuts, ReadJobs
  <2> QED
    BY <2>1, PTL DEF ViewSpec, Spec
<1>2. Init /\ ViewInit => SeenStays
  BY DEF ViewInit, SeenStays
<1>3. TypeOK /\ Integrity /\ SeenStays /\ [ViewNext]_<<vars, viewVars>> => SeenStays'
  BY SeenStaysKept
<1>4. TypeOK /\ Integrity /\ SeenStays => HeldIsExplained
  BY GateIsTold DEF HeldIsExplained
<1> QED
  BY <1>1, <1>2, <1>3, <1>4, TypeCorrect, AlwaysIntegrity, PTL DEF ViewSpec
=============================================================================
