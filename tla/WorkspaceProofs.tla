-------------------------- MODULE WorkspaceProofs --------------------------
(***************************************************************************)
(* Proofs about the page of a scene, for every number of cuts, buttons,    *)
(* requests out at once and lost answers.                                  *)
(*                                                                         *)
(* Views of many ages are about: the one shown, the one the fetch is       *)
(* reading, one in every answer.  What holds of all of them is that they   *)
(* are of the past (Past, Whole); what makes the shown one good enough is  *)
(* that whatever it lacks is owed by a request (KnowsInv).                 *)
(***************************************************************************)
EXTENDS Workspace, TLAPS, WellFoundedInduction

\* The rows r became the rows s: jobs were created or ended.
Moves(r, s) ==
  \A j \in Job :
    \/ s[j] = r[j]
    \/ /\ r[j].status = "ABSENT" /\ s[j].status = "ACTIVE"
       /\ s[j].kind \in Kind /\ s[j].cut \in Cut
    \/ /\ r[j].status = "ACTIVE" /\ s[j].status \in {"SUCCEEDED", "FAILED"}
       /\ s[j].kind = r[j].kind /\ s[j].cut = r[j].cut

Created(r) == {j \in Job : r[j].status # "ABSENT"}

\* What a view says was so at some time.
Past(v, r) ==
  /\ \A j \in Job :
       \/ v.status[j] \in {"ABSENT", r[j].status}
       \/ v.status[j] = "ACTIVE" /\ r[j].status \in {"SUCCEEDED", "FAILED"}
  /\ \A j \in v.artifacts : r[j].status = "SUCCEEDED"

\* The jobs of these kinds that it shows as succeeded have their artifacts.
Whole(v, r, kinds) ==
  \A j \in Job : v.status[j] = "SUCCEEDED" /\ r[j].kind \in kinds =>
                   j \in v.artifacts

\* It has every job there is.
Known(v, r) == \A j \in Created(r) : v.status[j] # "ABSENT"

RowsInv == \A j \in Created(row) : row[j].kind \in Kind /\ row[j].cut \in Cut

ViewsInv ==
  /\ shown # Null => Past(shown, row) /\ Whole(shown, row, Kind)
  /\ \A b \in Button : LET v == press[b].answer IN
       v # Null => Past(v, row) /\ Whole(v, row, Kind)
  /\ Past(fetch.view, row)
  /\ fetch.reading = "videos" => Whole(fetch.view, row, {"IMAGE"})
  /\ fetch.reading = "landing" => Whole(fetch.view, row, Kind)

(***************************************************************************)
(* Generations are answered without a view; a card has no cut left but its *)
(* own, and no request has one once it is answered.                        *)
(***************************************************************************)
RequestsInv ==
  \A b \in Button :
    /\ b[2] \in Kind => press[b].answer = Null
    /\ b[1] # AllCuts => press[b].left \subseteq {b[1]}
    /\ press[b].left # {} => press[b].stage = "sent"

\* A request that may have created jobs, and is yet to refresh the scene.
Owes(b) ==
  \/ press[b].stage = "answered"
  \/ press[b].stage = "sent" /\ b[1] = AllCuts

Settled == \A b \in Button : ~Owes(b)

KnowsInv ==
  /\ fetch.reading # "idle" /\ ~unheard => fetch.hears
  /\ fetch.reading \in {"images", "videos", "landing"} /\ fetch.hears /\ Settled
       => Known(fetch.view, row)
  /\ /\ shown # Null /\ ~unheard /\ Settled
     /\ \A b \in Button : press[b].stage # "refreshing"
     => Known(shown, row)

PageInv ==
  /\ WorkspaceTypeOK
  /\ RowsInv
  /\ ViewsInv
  /\ RequestsInv
  /\ KnowsInv

----------------------------------------------------------------------------
(***************************************************************************)
(* Rows and views.                                                         *)
(***************************************************************************)

\* What is of the past stays so, and what is whole stays whole.
LEMMA PastStays ==
  ASSUME NEW r, NEW s, Moves(r, s), NEW v \in View, Past(v, r)
  PROVE  /\ Past(v, s)
         /\ \A kinds : Whole(v, r, kinds) => Whole(v, s, kinds)
<1>1. \A j \in v.artifacts : j \in Job
  BY DEF View
<1>2. Past(v, s)
  BY <1>1 DEF Past, Moves
<1>3. ASSUME NEW kinds, Whole(v, r, kinds)
      PROVE  Whole(v, s, kinds)
  BY <1>3 DEF Past, Moves, Whole
<1> QED
  BY <1>2, <1>3

\* A job is created in a row that was not there.
LEMMA CreateMoves ==
  ASSUME BoardTypeOK, NEW j \in Unused, NEW c \in Cut, NEW kind, NEW source,
         Create(j, c, kind, source)
  PROVE  BoardTypeOK' /\ Moves(row, row') /\ cut' = cut
<1>1. j \in Job /\ row[j].status = "ABSENT"
  BY DEF Unused
<1>2. kind \in Kind /\ source \in Job \cup {Null}
  BY DEF Create, Kind, DoneOf, Of
<1>3. row' = [row EXCEPT ![j] = [status |-> "ACTIVE", cut |-> c,
                                 kind |-> kind, source |-> source]]
      /\ cut' = cut
  BY DEF Create
<1>4. BoardTypeOK'
  BY <1>1, <1>2, <1>3 DEF BoardTypeOK, RowStatus
<1>5. Moves(row, row')
  BY <1>1, <1>2, <1>3 DEF BoardTypeOK, Moves
<1> QED
  BY <1>3, <1>4, <1>5

\* A job that ends was there before, and selects an image only where there was
\* none.
LEMMA JobEndsMoves ==
  ASSUME BoardTypeOK, JobEnds
  PROVE  /\ BoardTypeOK' /\ Moves(row, row') /\ Created(row') = Created(row)
         /\ \A c \in Cut : cut'[c].image = cut[c].image \/ cut[c].image = Null
         /\ UNCHANGED pageVars
<1>1. PICK j \in Job : Finish(j) \/ Fail({j})
  BY DEF JobEnds
<1>2. CASE Finish(j)
  <2>1. row[j].status = "ACTIVE" /\ row' = [row EXCEPT ![j].status = "SUCCEEDED"]
    BY <1>2 DEF Finish
  <2>2. row' \in [Job -> [status : RowStatus, cut : Cut \cup {Null},
                          kind : Kind \cup {Null}, source : Job \cup {Null}]]
    BY <2>1 DEF BoardTypeOK, RowStatus
  <2>3. Moves(row, row') /\ Created(row') = Created(row)
    BY <2>1 DEF BoardTypeOK, Moves, Created
  <2>4. /\ cut' \in [Cut -> [image : Job \cup {Null}, video : Job \cup {Null}]]
        /\ \A c \in Cut : cut'[c].image = cut[c].image \/ cut[c].image = Null
    <3> DEFINE d == row[j].cut
    <3>1. CASE /\ row[j].kind = "IMAGE"
               /\ cut' = IF cut[d].image = Null THEN [cut EXCEPT ![d].image = j]
                                                ELSE cut
      BY <3>1 DEF BoardTypeOK
    <3>2. CASE /\ row[j].kind = "VIDEO"
               /\ \E v \in {cut[d].video, j} : cut' = [cut EXCEPT ![d].video = v]
      <4>1. PICK v \in {cut[d].video, j} : cut' = [cut EXCEPT ![d].video = v]
        BY <3>2
      <4>2. CASE d \in Cut
        <5>1. v \in Job \cup {Null}
          BY <4>1, <4>2 DEF BoardTypeOK
        <5> QED
          BY <4>1, <4>2, <5>1 DEF BoardTypeOK
      <4>3. CASE d \notin Cut
        BY <4>1, <4>3 DEF BoardTypeOK
      <4> QED
        BY <4>2, <4>3
    <3> QED
      BY <1>2, <3>1, <3>2 DEF Finish
  <2> QED
    BY <2>2, <2>3, <2>4 DEF JobEnds, BoardTypeOK
<1>3. CASE Fail({j})
  <2>0. {j} \subseteq {i \in Job : row[i].status = "ACTIVE"}
    BY <1>3 DEF Fail
  <2>1. /\ row[j].status = "ACTIVE"
        /\ row' = [i \in Job |-> IF i \in {j}
                                THEN [row[i] EXCEPT !.status = "FAILED"]
                                ELSE row[i]]
        /\ cut' = cut
    <3>1. row[j].status = "ACTIVE"
      BY <2>0
    <3>2. row' = [i \in Job |-> IF i \in {j}
                              THEN [row[i] EXCEPT !.status = "FAILED"]
                              ELSE row[i]]
      BY <1>3, Zenon DEF Fail
    <3>3. cut' = cut
      BY <1>3 DEF Fail
    <3> QED
      BY <3>1, <3>2, <3>3
  <2>2. BoardTypeOK'
    BY <2>1 DEF BoardTypeOK, RowStatus
  <2>3. Moves(row, row') /\ Created(row') = Created(row)
    BY <2>1 DEF BoardTypeOK, Moves, Created
  <2> QED
    BY <2>1, <2>2, <2>3 DEF JobEnds
<1> QED
  BY <1>1, <1>2, <1>3

\* The rows stay in order.
LEMMA RowsStay ==
  ASSUME RowsInv, Moves(row, row')
  PROVE  RowsInv'
  BY DEF RowsInv, Moves, Created

\* A response to a selection says what is so.
LEMMA ViewOfNow ==
  ASSUME BoardTypeOK, RowsInv,
         NEW selected \in [Cut -> [image : Job \cup {Null}, video : Job \cup {Null}]]
  PROVE  LET v == ViewOf(selected) IN
         /\ v \in View /\ v.cut = selected
         /\ Past(v, row) /\ Whole(v, row, Kind) /\ Known(v, row)
<1> DEFINE v == ViewOf(selected)
<1>1. v \in View /\ v.cut = selected
  BY DEF ViewOf, View, Artifacts, Reported, BoardTypeOK
<1>2. Past(v, row)
  BY DEF ViewOf, Past, Artifacts, Reported
<1>3. Whole(v, row, Kind)
  BY DEF ViewOf, Whole, Artifacts, Reported, Kind
<1>4. Known(v, row)
  BY DEF ViewOf, Known, Created, Reported
<1> QED
  BY <1>1, <1>2, <1>3, <1>4

----------------------------------------------------------------------------
(***************************************************************************)
(* The steps.                                                              *)
(***************************************************************************)

\* At the start nothing is asked for.
LEMMA InitInv == WorkspaceInit => PageInv
<1> SUFFICES ASSUME WorkspaceInit PROVE PageInv
  OBVIOUS
<1>1. BoardTypeOK /\ RowsInv
  BY RowsAssumption DEF WorkspaceInit, BoardInit, BoardTypeOK, RowsInv, Created
<1>2. /\ Unread \in View /\ Past(Unread, row)
      /\ fetch = [reading |-> "cuts", hears |-> TRUE, view |-> Unread]
  BY DEF WorkspaceInit, NewFetch, Unread, View, RowStatus, Past
<1>3. ViewOf(cut) \in View /\ Past(ViewOf(cut), row)
      /\ Whole(ViewOf(cut), row, Kind) /\ Known(ViewOf(cut), row)
  BY <1>1, ViewOfNow DEF BoardTypeOK
<1>4. shown \in {Null, ViewOf(cut)}
  BY DEF WorkspaceInit
<1>5. \A b \in Button : press[b] = NoRequest
  BY DEF WorkspaceInit
<1>6. WorkspaceTypeOK
  <2>1. press \in [Button -> Request]
    BY DEF WorkspaceInit, NoRequest, Request, Stage
  <2>2. fetch \in [reading : Reading, hears : BOOLEAN, view : View]
    BY <1>2 DEF Reading
  <2> QED
    BY <1>1, <1>3, <1>4, <2>1, <2>2 DEF WorkspaceTypeOK, WorkspaceInit
<1>7. ViewsInv
  BY <1>2, <1>3, <1>4, <1>5 DEF ViewsInv, NoRequest
<1>8. RequestsInv
  BY <1>5 DEF RequestsInv, NoRequest
<1>9. KnowsInv
  BY <1>2, <1>3, <1>4, <1>5 DEF KnowsInv
<1> QED
  BY <1>1, <1>6, <1>7, <1>8, <1>9 DEF PageInv

\* A job that ends makes what is held of it older, and no more.
LEMMA JobEndsKeeps ==
  ASSUME PageInv, JobEnds
  PROVE  PageInv'
<1>1. /\ BoardTypeOK' /\ Moves(row, row') /\ Created(row') = Created(row)
      /\ \A c \in Cut : cut'[c].image = cut[c].image \/ cut[c].image = Null
      /\ UNCHANGED pageVars
  BY JobEndsMoves DEF PageInv, WorkspaceTypeOK
<1>2. shown' = shown /\ fetch' = fetch /\ press' = press /\ unheard' = unheard
  BY <1>1 DEF pageVars
<1>3. WorkspaceTypeOK'
  BY <1>1, <1>2 DEF PageInv, WorkspaceTypeOK
<1>4. RowsInv'
  BY <1>1, RowsStay DEF PageInv
<1>5. ViewsInv'
  <2>1. \A v \in View : Past(v, row) =>
          /\ Past(v, row')
          /\ \A kinds : Whole(v, row, kinds) => Whole(v, row', kinds)
    BY <1>1, PastStays
  <2>2. /\ shown # Null => shown \in View
        /\ fetch.view \in View
        /\ \A b \in Button : press[b].answer # Null => press[b].answer \in View
    BY DEF PageInv, WorkspaceTypeOK, Request
  <2> HIDE DEF View, Past, Whole
  <2> QED
    BY <1>2, <2>1, <2>2 DEF PageInv, ViewsInv
<1>6. RequestsInv'
  BY <1>2 DEF PageInv, RequestsInv
<1>7. KnowsInv'
  BY <1>1, <1>2 DEF PageInv, KnowsInv, Known, Settled, Owes
<1> QED
  BY <1>3, <1>4, <1>5, <1>6, <1>7 DEF PageInv

(***************************************************************************)
(* A step that leaves the rows alone keeps what is only of them.           *)
(***************************************************************************)
LEMMA RowsAlone ==
  ASSUME PageInv, UNCHANGED boardVars
  PROVE  row' = row /\ cut' = cut /\ BoardTypeOK' /\ RowsInv'
  BY DEF PageInv, WorkspaceTypeOK, boardVars, BoardTypeOK, RowsInv, Created

\* A fetch starts from an empty view.
LEMMA FreshView ==
  /\ Unread \in View /\ \A r : Past(Unread, r)
  /\ \A f \in {NewFetch, NoFetch} :
       /\ f \in [reading : Reading, hears : BOOLEAN, view : View]
       /\ f.view = Unread
  /\ NewFetch.reading = "cuts" /\ NewFetch.hears
  /\ NoFetch.reading = "idle"
<1>1. Unread \in View
  BY DEF Unread, View, RowStatus
<1>2. \A r : Past(Unread, r)
  BY DEF Unread, Past
<1>3. /\ NewFetch \in [reading : Reading, hears : BOOLEAN, view : View]
      /\ NewFetch.reading = "cuts" /\ NewFetch.hears /\ NewFetch.view = Unread
  BY <1>1 DEF NewFetch, Reading
<1>4. /\ NoFetch \in [reading : Reading, hears : BOOLEAN, view : View]
      /\ NoFetch.reading = "idle" /\ NoFetch.view = Unread
  BY <1>3 DEF NoFetch, Reading
<1> QED
  BY <1>1, <1>2, <1>3, <1>4

\* A poll or the focus starts a fetch, when none is under way.
LEMMA StartFetchKeeps ==
  ASSUME PageInv, StartFetch
  PROVE  PageInv'
<1>1. row' = row /\ cut' = cut /\ BoardTypeOK' /\ RowsInv'
  BY RowsAlone DEF StartFetch
<1>2. /\ shown' = shown /\ press' = press /\ unheard' = unheard
      /\ fetch' = NewFetch
  BY DEF StartFetch
<1>3. WorkspaceTypeOK'
  BY <1>1, <1>2, FreshView DEF PageInv, WorkspaceTypeOK, Reading
<1>4. ViewsInv'
  BY <1>1, <1>2, FreshView DEF PageInv, ViewsInv
<1>5. RequestsInv'
  BY <1>2 DEF PageInv, RequestsInv
<1>6. KnowsInv'
  BY <1>1, <1>2, FreshView DEF PageInv, KnowsInv, Settled, Owes
<1> QED
  BY <1>1, <1>3, <1>4, <1>5, <1>6 DEF PageInv

----------------------------------------------------------------------------
(***************************************************************************)
(* The fetch.                                                              *)
(***************************************************************************)

\* What a read has to add to the view for the invariant: it is of the past, it
\* has what the tables read so far have, and the selections of the cuts.
LEMMA ReadsKeeps ==
  ASSUME PageInv,
         NEW table \in {"cuts", "jobs", "images", "videos"}, NEW view \in View,
         Reads(table, view),
         Past(view, row),
         table = "images" => Whole(view, row, {"IMAGE"}),
         table = "videos" => Whole(view, row, Kind),
         table = "jobs" \/ (table \in {"images", "videos"}
                            /\ view.status = fetch.view.status)
                        \/ table = "cuts",
         table = "jobs" => Known(view, row),
         IF table = "cuts" THEN view.cut = cut ELSE view.cut = fetch.view.cut
  PROVE  PageInv'
<1>1. row' = row /\ cut' = cut /\ BoardTypeOK' /\ RowsInv'
  BY RowsAlone DEF Reads
<1>2. /\ shown' = shown /\ press' = press /\ unheard' = unheard
      /\ fetch.reading = table
      /\ fetch'.reading = TableAfter(table)
      /\ fetch'.hears = fetch.hears
      /\ fetch'.view = view
      /\ fetch' \in [reading : Reading, hears : BOOLEAN, view : View]
  BY DEF Reads, PageInv, WorkspaceTypeOK, Reading, TableAfter
<1>3. WorkspaceTypeOK'
  BY <1>1, <1>2 DEF PageInv, WorkspaceTypeOK
<1>4. ViewsInv'
  BY <1>1, <1>2 DEF PageInv, ViewsInv, TableAfter
<1>5. RequestsInv'
  BY <1>2 DEF PageInv, RequestsInv
<1>6. KnowsInv'
  BY <1>1, <1>2 DEF PageInv, KnowsInv, Settled, Owes, Known, TableAfter
<1> QED
  BY <1>1, <1>3, <1>4, <1>5, <1>6 DEF PageInv

LEMMA ReadCutsKeeps ==
  ASSUME PageInv, ReadCuts
  PROVE  PageInv'
<1> DEFINE view == [fetch.view EXCEPT !.cut = cut]
<1>1. /\ view \in View /\ view.cut = cut
      /\ view.status = fetch.view.status /\ view.artifacts = fetch.view.artifacts
  BY DEF PageInv, WorkspaceTypeOK, BoardTypeOK, View
<1>2. Past(view, row)
  BY <1>1 DEF PageInv, ViewsInv, Past
<1>3. Reads("cuts", view)
  BY DEF ReadCuts
<1> HIDE DEF view
<1> QED
  BY <1>1, <1>2, <1>3, ReadsKeeps

LEMMA ReadJobsKeeps ==
  ASSUME PageInv, ReadJobs
  PROVE  PageInv'
<1> DEFINE status == [j \in Job |-> Reported(j)]
           view == [fetch.view EXCEPT !.status = status]
<1>1. /\ view \in View /\ view.cut = fetch.view.cut
      /\ view.status = status /\ view.artifacts = fetch.view.artifacts
  BY DEF PageInv, WorkspaceTypeOK, BoardTypeOK, View, Reported
<1>2. Past(view, row)
  BY <1>1 DEF PageInv, ViewsInv, Past, Reported
<1>3. Known(view, row)
  BY <1>1 DEF Known, Created, Reported
<1>4. Reads("jobs", view)
  BY DEF ReadJobs
<1> HIDE DEF view
<1> QED
  BY <1>1, <1>2, <1>3, <1>4, ReadsKeeps

LEMMA ReadImagesKeeps ==
  ASSUME PageInv, ReadImages
  PROVE  PageInv'
<1> DEFINE view == [fetch.view EXCEPT !.artifacts = @ \cup Artifacts("IMAGE")]
<1>1. /\ view \in View /\ view.cut = fetch.view.cut
      /\ view.status = fetch.view.status
      /\ view.artifacts = fetch.view.artifacts \cup Artifacts("IMAGE")
  BY DEF PageInv, WorkspaceTypeOK, View, Artifacts
<1>2. Past(view, row)
  BY <1>1 DEF PageInv, ViewsInv, Past, Artifacts
<1>3. Whole(view, row, {"IMAGE"})
  BY <1>1, <1>2 DEF Past, Whole, Artifacts
<1>4. Reads("images", view)
  BY DEF ReadImages
<1> HIDE DEF view
<1> QED
  BY <1>1, <1>2, <1>3, <1>4, ReadsKeeps

LEMMA ReadVideosKeeps ==
  ASSUME PageInv, ReadVideos
  PROVE  PageInv'
<1> DEFINE view == [fetch.view EXCEPT !.artifacts = @ \cup Artifacts("VIDEO")]
<1>1. /\ view \in View /\ view.cut = fetch.view.cut
      /\ view.status = fetch.view.status
      /\ view.artifacts = fetch.view.artifacts \cup Artifacts("VIDEO")
  BY DEF PageInv, WorkspaceTypeOK, View, Artifacts
<1>2. Past(view, row)
  BY <1>1 DEF PageInv, ViewsInv, Past, Artifacts
<1>3. Whole(fetch.view, row, {"IMAGE"})
  BY DEF PageInv, ViewsInv, ReadVideos, Reads
<1>4. Whole(view, row, Kind)
  BY <1>1, <1>2, <1>3 DEF Past, Whole, Artifacts, Kind
<1>5. Reads("videos", view)
  BY DEF ReadVideos
<1> HIDE DEF view
<1> QED
  BY <1>1, <1>2, <1>4, <1>5, ReadsKeeps

\* What lands has every job and every selected image, but for those owed.
LEMMA LandKeeps ==
  ASSUME PageInv, Land
  PROVE  PageInv'
<1>1. row' = row /\ cut' = cut /\ BoardTypeOK' /\ RowsInv'
  BY RowsAlone DEF Land
<1>2. /\ fetch.reading = "landing"
      /\ shown' = fetch.view
      /\ fetch' = NoFetch
      /\ unheard' = (unheard /\ ~fetch.hears)
  BY DEF Land
<1>3. \A b \in Button :
        press'[b] = IF press[b].stage = "refreshing" THEN NoRequest ELSE press[b]
  BY DEF Land
<1>4. ~unheard' => fetch.hears
  BY <1>2 DEF PageInv, KnowsInv
<1>5. WorkspaceTypeOK'
  <2>1. press' \in [Button -> Request]
    BY DEF Land, PageInv, WorkspaceTypeOK, NoRequest, Request, Stage
  <2> QED
    BY <1>1, <1>2, <2>1, FreshView DEF PageInv, WorkspaceTypeOK, Reading
<1>6. ViewsInv'
  BY <1>1, <1>2, <1>3, FreshView DEF PageInv, ViewsInv, NoRequest
<1>7. RequestsInv'
  BY <1>3 DEF PageInv, RequestsInv, NoRequest
<1>8. KnowsInv'
  BY <1>1, <1>2, <1>3, <1>4, FreshView DEF PageInv, KnowsInv, Settled, Owes, NoRequest
<1> QED
  BY <1>1, <1>5, <1>6, <1>7, <1>8 DEF PageInv

----------------------------------------------------------------------------
(***************************************************************************)
(* The buttons and the requests.                                           *)
(***************************************************************************)

\* A button is of a card or of the batch controls.
LEMMA Buttons ==
  ASSUME NEW b \in Button
  PROVE  /\ b[1] = AllCuts \/ b[1] \in Cut
         /\ b[1] = AllCuts => b[2] \in Kind
         /\ b[2] \in Kind \cup {"selectImage", "selectVideo"}
         /\ b = <<b[1], b[2]>>
         /\ AllCuts \notin Cut
<1>1. b \in (Cut \X CardControl) \cup ({AllCuts} \X Kind)
  BY WorkspaceAssumption
<1>2. AllCuts \notin Cut
  BY WorkspaceAssumption
<1>3. CASE b \in Cut \X CardControl
  BY <1>2, <1>3 DEF CardControl, Kind
<1>4. CASE b \in {AllCuts} \X Kind
  BY <1>2, <1>4
<1> QED
  BY <1>1, <1>2, <1>3, <1>4

\* A click adds a request that is out and owes nothing yet, but for a batch.
LEMMA SendsKeeps ==
  ASSUME PageInv, NEW b \in Button, NEW item \in Job \cup {Null},
         NEW cuts \in SUBSET Cut, Sends(b, item, cuts),
         b[1] # AllCuts => cuts \subseteq {b[1]}
  PROVE  PageInv'
<1>1. row' = row /\ cut' = cut /\ BoardTypeOK' /\ RowsInv'
  BY RowsAlone DEF Sends
<1> DEFINE request == [NoRequest EXCEPT !.stage = "sent",
                                        !.item = item, !.left = cuts]
<1>2. /\ shown' = shown /\ fetch' = fetch /\ unheard' = unheard
      /\ press[b].stage = "idle"
      /\ press' = [press EXCEPT ![b] = request]
  BY DEF Sends
<1>3. /\ request \in Request
      /\ request.stage = "sent" /\ request.item = item
      /\ request.left = cuts /\ request.answer = Null
  BY DEF Request, Stage, NoRequest
<1> HIDE DEF request
<1>4. \A d \in Button : press'[d] = IF d = b THEN request ELSE press[d]
  BY <1>2 DEF PageInv, WorkspaceTypeOK
<1>5. WorkspaceTypeOK'
  BY <1>1, <1>2, <1>3 DEF PageInv, WorkspaceTypeOK
<1>6. ViewsInv'
  BY <1>1, <1>2, <1>3, <1>4 DEF PageInv, ViewsInv
<1>7. RequestsInv'
  BY <1>3, <1>4 DEF PageInv, RequestsInv
<1>8. KnowsInv'
  <2>1. Settled' => Settled
    BY <1>2, <1>3, <1>4 DEF Settled, Owes
  <2>2. \A d \in Button : press[d].stage = "refreshing" =>
                          press'[d].stage = "refreshing"
    BY <1>2, <1>3, <1>4
  <2> QED
    BY <1>1, <1>2, <2>1, <2>2 DEF PageInv, KnowsInv
<1> QED
  BY <1>1, <1>5, <1>6, <1>7, <1>8 DEF PageInv

\* Every button sends what its request may be.
LEMMA ClickKeeps ==
  ASSUME PageInv, NEW b \in Button, Click(b)
  PROVE  PageInv'
<1>0. /\ b[1] = AllCuts \/ b[1] \in Cut
      /\ b[1] = AllCuts => b[2] \in Kind
      /\ b = <<b[1], b[2]>>
      /\ AllCuts \notin Cut
  BY Buttons
<1>1. CASE b[1] = AllCuts
  <2>1. ClickBatch(b[2])
    BY <1>1 DEF Click, ClickCard
  <2>2. Sends(<<AllCuts, b[2]>>, Null, Cut)
    BY <2>1 DEF ClickBatch
  <2>3. Sends(b, Null, Cut)
    BY <1>0, <1>1, <2>2
  <2> QED
    BY <1>0, <1>1, <2>3, SendsKeeps
<1>2. CASE b[1] \in Cut /\ b[2] = "IMAGE"
  <2>1. Sends(b, Null, {b[1]})
    BY <1>0, <1>2 DEF Click, ClickCard, ClickImage
  <2> QED
    BY <1>0, <1>2, <2>1, SendsKeeps
<1>3. CASE b[1] \in Cut /\ b[2] = "VIDEO"
  <2> DEFINE c == b[1]
             item == shown.cut[c].image
  <2>1. shown # Null /\ Sends(b, item, {c})
    BY <1>0, <1>3 DEF Click, ClickCard, ClickVideo
  <2>2. item \in Job \cup {Null}
    BY <1>3, <2>1 DEF PageInv, WorkspaceTypeOK, View
  <2> HIDE DEF item
  <2> QED
    BY <1>0, <1>3, <2>1, <2>2, SendsKeeps
<1>4. CASE b[1] \in Cut /\ b[2] = "selectImage"
  <2>1. PICK i \in Job : ClickSelectImage(b[1], i)
    BY <1>0, <1>4 DEF Click, ClickCard
  <2>2. Sends(b, i, {})
    BY <1>0, <1>4, <2>1 DEF ClickSelectImage
  <2> QED
    BY <1>0, <1>4, <2>2, SendsKeeps
<1>5. CASE b[1] \in Cut /\ b[2] = "selectVideo"
  <2>1. PICK v \in Job : ClickSelectVideo(b[1], v)
    BY <1>0, <1>5 DEF Click, ClickCard
  <2>2. Sends(b, v, {})
    BY <1>0, <1>5, <2>1 DEF ClickSelectVideo
  <2> QED
    BY <1>0, <1>5, <2>2, SendsKeeps
<1> QED
  BY <1>0, <1>1, <1>2, <1>3, <1>4, <1>5, WorkspaceAssumption DEF CardControl

(***************************************************************************)
(* Order: the next cut of a batch is one of those left.                    *)
(***************************************************************************)
Below == {r \in Nat \X Nat : r[1] < r[2]}

\* < on the naturals is well founded, as a relation the library knows.
LEMMA BelowWellFounded == IsWellFoundedOn(Below, Nat)
<1>1. OpToRel(<, Nat) = Below
  BY Zenon DEF OpToRel, Below
<1> QED
  BY <1>1, NatLessThanWellFounded, Zenon

LEMMA NextIsLeft ==
  ASSUME WorkspaceTypeOK, NEW b \in Button, press[b].left # {}
  PROVE  NextCut(b) \in press[b].left /\ NextCut(b) \in Cut
<1> DEFINE left == press[b].left
<1>1. left \subseteq Cut /\ left \subseteq Nat
  BY WorkspaceAssumption DEF WorkspaceTypeOK, Request
<1>2. PICK x \in left : \A y \in left : <<y, x>> \notin Below
  BY <1>1, BelowWellFounded, WFMin, Zenon
<1>3. ASSUME NEW y \in left
      PROVE  x <= y
  <2>1. x \in Nat /\ y \in Nat
    BY <1>1
  <2>2. ~ (y < x)
    BY <1>2, <2>1 DEF Below
  <2> QED
    BY <2>1, <2>2
<1>4. \A y \in left : x <= y
  BY <1>3
<1>5. NextCut(b) \in left
  BY <1>4 DEF NextCut
<1> QED
  BY <1>1, <1>5

(***************************************************************************)
(* A request goes on to its next cut, is answered, or is refused.          *)
(***************************************************************************)
LEMMA ProceedsTo ==
  ASSUME PageInv, NEW b \in Button, press[b].left # {},
         NEW refused \in BOOLEAN, Proceeds(b, refused)
  PROVE  /\ press' \in [Button -> Request]
         /\ \A d \in Button : d # b => press'[d] = press[d]
         /\ press[b].stage = "sent"
         /\ \/ /\ press'[b].answer = press[b].answer
               /\ press'[b].item = press[b].item
               /\ \/ /\ b[1] = AllCuts /\ press'[b].stage = "sent"
                  \/ press'[b].stage = "answered" /\ press'[b].left = {}
            \/ refused /\ b[1] # AllCuts /\ press'[b] = NoRequest
<1> DEFINE left == press[b].left \ {NextCut(b)}
           on == [press[b] EXCEPT !.left = left]
           over == [press[b] EXCEPT !.left = {}, !.stage = "answered"]
<1>1. /\ press \in [Button -> Request]
      /\ press[b].stage = "sent"
      /\ b[1] # AllCuts => press[b].left \subseteq {b[1]}
  BY DEF PageInv, WorkspaceTypeOK, RequestsInv
<1>2. NextCut(b) \in press[b].left
  BY NextIsLeft DEF PageInv
<1>3. b[1] # AllCuts => left = {}
  BY <1>1, <1>2
<1>4. /\ on \in Request /\ on.stage = "sent"
      /\ on.item = press[b].item /\ on.answer = press[b].answer
  BY <1>1 DEF Request
<1>5. /\ over \in Request /\ over.stage = "answered" /\ over.left = {}
      /\ over.item = press[b].item /\ over.answer = press[b].answer
  BY <1>1 DEF Request, Stage
<1>6. NoRequest \in Request
  BY DEF NoRequest, Request, Stage
<1>7. press' = [press EXCEPT ![b] = IF left # {} THEN on
                                   ELSE IF refused /\ b[1] # AllCuts
                                        THEN NoRequest ELSE over]
  BY DEF Proceeds
<1> HIDE DEF on, over, left
<1> QED
  BY <1>1, <1>3, <1>4, <1>5, <1>6, <1>7

(***************************************************************************)
(* What a step of one request may do to the requests: it is still out, it  *)
(* is over, or it is to refresh the scene.                                 *)
(***************************************************************************)
OneRequestActs(b) ==
  /\ press' \in [Button -> Request]
  /\ \A d \in Button : d # b => press'[d] = press[d]
  /\ press[b].stage # "idle"
  /\ b[2] \in Kind => press'[b].answer = Null
  /\ b[1] # AllCuts => press'[b].left \subseteq {b[1]}
  /\ press'[b].left # {} => press'[b].stage = "sent"
  /\ press'[b].stage = "sent" => press[b].stage = "sent"

LEMMA RequestsStay ==
  ASSUME PageInv, NEW b \in Button, OneRequestActs(b)
  PROVE  RequestsInv'
  BY DEF PageInv, RequestsInv, OneRequestActs

\* What a proceeding request leaves as it is.
LEMMA ProceedingActs ==
  ASSUME PageInv, NEW b \in Button, press[b].left # {},
         NEW refused \in BOOLEAN, Proceeds(b, refused)
  PROVE  OneRequestActs(b)
<1>1. /\ b[2] \in Kind => press[b].answer = Null
      /\ b[1] = AllCuts \/ press[b].left \subseteq {b[1]}
  BY DEF PageInv, RequestsInv
<1>2. /\ NoRequest.item = Null /\ NoRequest.answer = Null
      /\ NoRequest.left = {} /\ NoRequest.stage = "idle"
  BY DEF NoRequest
<1> QED
  BY <1>1, <1>2, ProceedsTo DEF OneRequestActs

\* A created job is owed until the scene is read again.
LEMMA CreatesJobKeeps ==
  ASSUME PageInv, NEW b \in Button, CreatesJob(b)
  PROVE  PageInv'
<1>1. /\ press[b].left # {} /\ Proceeds(b, FALSE)
      /\ shown' = shown /\ fetch' = fetch /\ unheard' = unheard
  BY DEF CreatesJob
<1>2. PICK j \in Unused :
        Create(j, NextCut(b), b[2], SourceFor(NextCut(b), b[2]))
  BY DEF CreatesJob
<1>3. BoardTypeOK' /\ Moves(row, row') /\ cut' = cut
  BY <1>1, <1>2, NextIsLeft, CreateMoves DEF PageInv, WorkspaceTypeOK
<1>4. OneRequestActs(b)
  BY <1>1, ProceedingActs
<1>5. /\ press[b].stage = "sent"
      /\ press'[b].answer = press[b].answer
      /\ \/ b[1] = AllCuts /\ press'[b].stage = "sent"
         \/ press'[b].stage = "answered"
  BY <1>1, ProceedsTo
<1>6. WorkspaceTypeOK'
  BY <1>1, <1>3, <1>4 DEF PageInv, WorkspaceTypeOK, OneRequestActs
<1>7. RowsInv'
  BY <1>3, RowsStay DEF PageInv
<1>8. ViewsInv'
  <2>1. \A v \in View : Past(v, row) =>
          /\ Past(v, row')
          /\ \A kinds : Whole(v, row, kinds) => Whole(v, row', kinds)
    BY <1>3, PastStays
  <2>2. /\ shown # Null => shown \in View
        /\ fetch.view \in View
        /\ \A d \in Button : press[d].answer # Null => press[d].answer \in View
    BY DEF PageInv, WorkspaceTypeOK, Request
  <2>3. \A d \in Button : press'[d].answer = press[d].answer
    BY <1>4, <1>5 DEF OneRequestActs
  <2> HIDE DEF View, Past, Whole
  <2> QED
    BY <1>1, <2>1, <2>2, <2>3 DEF PageInv, ViewsInv
<1>9. RequestsInv'
  BY <1>4, RequestsStay
<1>10. KnowsInv'
  <2>1. ~Settled'
    BY <1>5 DEF Settled, Owes
  <2> QED
    BY <1>1, <2>1 DEF PageInv, KnowsInv
<1> QED
  BY <1>6, <1>7, <1>8, <1>9, <1>10 DEF PageInv

(***************************************************************************)
(* A request that is refused, or whose answer is lost, leaves the rows.    *)
(***************************************************************************)
LEMMA RefusalKeeps ==
  ASSUME PageInv, NEW b \in Button,
         UNCHANGED <<boardVars, shown, fetch, unheard>>,
         OneRequestActs(b), press[b].stage = "sent",
         press'[b].answer \in {Null, press[b].answer},
         Owes(b) => Owes(b)'
  PROVE  PageInv'
<1>1. row' = row /\ cut' = cut /\ BoardTypeOK' /\ RowsInv'
  BY RowsAlone
<1>2. shown' = shown /\ fetch' = fetch /\ unheard' = unheard
  OBVIOUS
<1>3. WorkspaceTypeOK'
  BY <1>1, <1>2 DEF PageInv, WorkspaceTypeOK, OneRequestActs
<1>4. ViewsInv'
  BY <1>1, <1>2 DEF PageInv, ViewsInv, OneRequestActs
<1>5. RequestsInv'
  BY RequestsStay
<1>6. KnowsInv'
  <2>1. Settled' => Settled
    BY DEF Settled, Owes, OneRequestActs
  <2>2. \A d \in Button : press[d].stage = "refreshing" =>
                          press'[d].stage = "refreshing"
    BY DEF OneRequestActs
  <2> QED
    BY <1>1, <1>2, <2>1, <2>2 DEF PageInv, KnowsInv
<1> QED
  BY <1>1, <1>3, <1>4, <1>5, <1>6 DEF PageInv

LEMMA RefusesJobKeeps ==
  ASSUME PageInv, NEW b \in Button, RefusesJob(b)
  PROVE  PageInv'
<1>1. /\ press[b].left # {} /\ Proceeds(b, TRUE)
      /\ UNCHANGED <<boardVars, shown, fetch, unheard>>
  BY DEF RefusesJob
<1>2. OneRequestActs(b)
  BY <1>1, ProceedingActs
<1>3. /\ press[b].stage = "sent"
      /\ press'[b].answer \in {Null, press[b].answer}
      /\ Owes(b) => Owes(b)'
  <2>1. NoRequest.answer = Null
    BY DEF NoRequest
  <2>2. /\ press[b].stage = "sent"
        /\ \/ /\ press'[b].answer = press[b].answer
              /\ \/ b[1] = AllCuts /\ press'[b].stage = "sent"
                 \/ press'[b].stage = "answered"
           \/ b[1] # AllCuts /\ press'[b] = NoRequest
    BY <1>1, ProceedsTo
  <2> QED
    BY <2>1, <2>2 DEF Owes
<1> QED
  BY <1>1, <1>2, <1>3, RefusalKeeps

LEMMA RefusesVideoKeeps ==
  ASSUME PageInv, NEW b \in Button, RefusesVideo(b)
  PROVE  PageInv'
<1>1. /\ press[b].stage = "sent" /\ b[2] = "selectVideo"
      /\ press' = [press EXCEPT ![b] = NoRequest]
      /\ UNCHANGED <<boardVars, shown, fetch, unheard>>
  BY DEF RefusesVideo, Selects
<1>2. /\ NoRequest \in Request
      /\ NoRequest.item = Null /\ NoRequest.answer = Null
      /\ NoRequest.left = {} /\ NoRequest.stage = "idle"
  BY DEF NoRequest, Request, Stage
<1>3. press \in [Button -> Request]
  BY DEF PageInv, WorkspaceTypeOK
<1>4. OneRequestActs(b) /\ press'[b].answer = Null
  BY <1>1, <1>2, <1>3 DEF OneRequestActs
<1>5. b[1] # AllCuts
  BY <1>1, Buttons DEF Kind
<1> QED
  BY <1>1, <1>4, <1>5, RefusalKeeps DEF Owes

(***************************************************************************)
(* A selection takes effect, and is answered with a view of that moment.   *)
(***************************************************************************)
LEMMA SelectionKeeps ==
  ASSUME PageInv, NEW b \in Button, Selects(b),
         b[2] \in {"selectImage", "selectVideo"},
         UNCHANGED <<row, shown, fetch, unheard>>,
         cut' \in [Cut -> [image : Job \cup {Null}, video : Job \cup {Null}]],
         AnsweredWith(b, ViewOf(cut'))
  PROVE  PageInv'
<1> DEFINE v == ViewOf(cut')
<1>0. b[1] \in Cut /\ b[1] # AllCuts /\ b = <<b[1], b[2]>> /\ b[2] \notin Kind
  BY Buttons DEF Kind
<1>1. /\ row' = row /\ shown' = shown /\ fetch' = fetch /\ unheard' = unheard
      /\ press[b].stage = "sent" /\ press[b].left = {}
  BY DEF Selects
<1>2. BoardTypeOK' /\ RowsInv'
  BY <1>1 DEF PageInv, WorkspaceTypeOK, BoardTypeOK, RowsInv
<1>3. v \in View /\ Past(v, row) /\ Whole(v, row, Kind)
  BY ViewOfNow DEF PageInv, WorkspaceTypeOK
<1> HIDE DEF v
<1>4. /\ press \in [Button -> Request]
      /\ press' = [press EXCEPT ![b].stage = "answered", ![b].answer = v]
  BY DEF AnsweredWith, v, PageInv, WorkspaceTypeOK
<1>5. /\ press' \in [Button -> Request]
      /\ \A d \in Button : d # b => press'[d] = press[d]
      /\ press'[b].stage = "answered" /\ press'[b].answer = v
      /\ press'[b].item = press[b].item /\ press'[b].left = press[b].left
  BY <1>3, <1>4 DEF Request, Stage
<1>6. OneRequestActs(b)
  BY <1>0, <1>1, <1>5 DEF OneRequestActs
<1>7. WorkspaceTypeOK'
  BY <1>1, <1>2, <1>5 DEF PageInv, WorkspaceTypeOK
<1>8. ViewsInv'
  BY <1>1, <1>3, <1>5 DEF PageInv, ViewsInv
<1>9. RequestsInv'
  BY <1>6, RequestsStay
<1>10. KnowsInv'
  <2>1. ~Settled'
    BY <1>5 DEF Settled, Owes
  <2> QED
    BY <1>1, <2>1 DEF PageInv, KnowsInv
<1> QED
  BY <1>2, <1>7, <1>8, <1>9, <1>10 DEF PageInv

LEMMA SelectsImageKeeps ==
  ASSUME PageInv, NEW b \in Button, SelectsImage(b)
  PROVE  PageInv'
<1>1. press[b].item \in Job \cup {Null} /\ cut \in [Cut -> [image : Job \cup {Null}, video : Job \cup {Null}]]
  BY DEF PageInv, WorkspaceTypeOK, BoardTypeOK, Request
<1>2. cut' = [cut EXCEPT ![b[1]] = [image |-> press[b].item, video |-> Null]]
  BY DEF SelectsImage
<1>3. cut' \in [Cut -> [image : Job \cup {Null}, video : Job \cup {Null}]]
  BY <1>1, <1>2
<1> QED
  BY <1>3, SelectionKeeps DEF SelectsImage

LEMMA SelectsVideoKeeps ==
  ASSUME PageInv, NEW b \in Button, SelectsVideo(b)
  PROVE  PageInv'
<1>1. press[b].item \in Job \cup {Null} /\ cut \in [Cut -> [image : Job \cup {Null}, video : Job \cup {Null}]]
  BY DEF PageInv, WorkspaceTypeOK, BoardTypeOK, Request
<1>2. cut' = [cut EXCEPT ![b[1]].video = press[b].item]
  BY DEF SelectsVideo
<1>3. cut' \in [Cut -> [image : Job \cup {Null}, video : Job \cup {Null}]]
  BY <1>1, <1>2
<1> QED
  BY <1>3, SelectionKeeps DEF SelectsVideo

\* What an answer shows may be old, and is refreshed.
LEMMA SucceedsKeeps ==
  ASSUME PageInv, NEW b \in Button, Succeeds(b)
  PROVE  PageInv'
<1>1. row' = row /\ cut' = cut /\ BoardTypeOK' /\ RowsInv'
  BY RowsAlone DEF Succeeds
<1>2. /\ press[b].stage = "answered"
      /\ shown' = IF press[b].answer = Null THEN shown ELSE press[b].answer
      /\ fetch' = NewFetch /\ unheard' = unheard
  BY DEF Succeeds, Invalidates
<1> DEFINE request == [NoRequest EXCEPT !.stage = "refreshing"]
<1>3. /\ request \in Request /\ request.stage = "refreshing"
      /\ request.item = Null /\ request.left = {} /\ request.answer = Null
  BY DEF Request, Stage, NoRequest
<1> HIDE DEF request
<1>4. press' = [press EXCEPT ![b] = request] /\ press \in [Button -> Request]
  BY DEF Succeeds, Refreshing, request, PageInv, WorkspaceTypeOK
<1>5. /\ press' \in [Button -> Request]
      /\ \A d \in Button : press'[d] = IF d = b THEN request ELSE press[d]
  BY <1>3, <1>4
<1>6. WorkspaceTypeOK'
  <2>1. press[b].answer \in View \cup {Null}
    BY <1>4 DEF Request
  <2> QED
    BY <1>1, <1>2, <1>5, <2>1, FreshView DEF PageInv, WorkspaceTypeOK
<1>7. ViewsInv'
  BY <1>1, <1>2, <1>3, <1>5, FreshView DEF PageInv, ViewsInv
<1>8. RequestsInv'
  <2>1. OneRequestActs(b)
    BY <1>2, <1>3, <1>5 DEF OneRequestActs
  <2> QED
    BY <2>1, RequestsStay
<1>9. KnowsInv'
  <2>1. press'[b].stage = "refreshing"
    BY <1>3, <1>5
  <2> QED
    BY <1>2, <2>1, FreshView DEF KnowsInv
<1> QED
  BY <1>1, <1>6, <1>7, <1>8, <1>9 DEF PageInv

\* What a lost answer leaves unsaid is excepted until a later fetch lands.
LEMMA AnswerLostKeeps ==
  ASSUME PageInv, NEW b \in Button, AnswerLost(b)
  PROVE  PageInv'
<1>1. row' = row /\ cut' = cut /\ BoardTypeOK' /\ RowsInv'
  BY RowsAlone DEF AnswerLost
<1>2. /\ shown' = shown /\ unheard' = TRUE
      /\ press[b].stage \in {"sent", "answered"}
      /\ press' = [press EXCEPT ![b] = NoRequest]
      /\ fetch' = [fetch EXCEPT !.hears = FALSE]
  BY DEF AnswerLost
<1>3. /\ fetch' \in [reading : Reading, hears : BOOLEAN, view : View]
      /\ fetch'.reading = fetch.reading /\ ~fetch'.hears
      /\ fetch'.view = fetch.view
  BY <1>2 DEF PageInv, WorkspaceTypeOK
<1>4. /\ NoRequest \in Request
      /\ NoRequest.item = Null /\ NoRequest.answer = Null
      /\ NoRequest.left = {} /\ NoRequest.stage = "idle"
  BY DEF NoRequest, Request, Stage
<1>5. /\ press' \in [Button -> Request]
      /\ \A d \in Button : press'[d] = IF d = b THEN NoRequest ELSE press[d]
  BY <1>2, <1>4 DEF PageInv, WorkspaceTypeOK
<1>6. WorkspaceTypeOK'
  BY <1>1, <1>2, <1>3, <1>5 DEF PageInv, WorkspaceTypeOK
<1>7. ViewsInv'
  BY <1>1, <1>2, <1>3, <1>4, <1>5 DEF PageInv, ViewsInv
<1>8. RequestsInv'
  <2>1. OneRequestActs(b)
    BY <1>2, <1>4, <1>5 DEF OneRequestActs
  <2> QED
    BY <2>1, RequestsStay
<1>9. KnowsInv'
  BY <1>2, <1>3 DEF KnowsInv
<1> QED
  BY <1>1, <1>6, <1>7, <1>8, <1>9 DEF PageInv

----------------------------------------------------------------------------
(***************************************************************************)
(* The page.                                                               *)
(***************************************************************************)
LEMMA NextKeeps ==
  ASSUME PageInv, [WorkspaceNext]_pageAndBoard
  PROVE  PageInv'
<1>1. CASE UNCHANGED pageAndBoard
  <2>1. /\ row' = row /\ cut' = cut /\ shown' = shown /\ fetch' = fetch
        /\ press' = press /\ unheard' = unheard
    BY <1>1 DEF pageAndBoard, boardVars, pageVars
  <2> QED
    BY <2>1 DEF PageInv, WorkspaceTypeOK, BoardTypeOK, RowsInv, ViewsInv,
                RequestsInv, KnowsInv, Settled, Owes
<1>2. CASE JobEnds
  BY <1>2, JobEndsKeeps
<1>3. CASE Poll \/ Focus
  BY <1>3, StartFetchKeeps DEF Poll, Focus
<1>4. CASE FetchStep
  BY <1>4, ReadCutsKeeps, ReadJobsKeeps, ReadImagesKeeps, ReadVideosKeeps,
     LandKeeps DEF FetchStep
<1>5. ASSUME NEW b \in Button, Click(b)
      PROVE  PageInv'
  BY <1>5, ClickKeeps
<1>6. ASSUME NEW b \in Button, RequestStep(b)
      PROVE  PageInv'
  BY <1>6, CreatesJobKeeps, RefusesJobKeeps, SelectsImageKeeps,
     SelectsVideoKeeps, RefusesVideoKeeps, SucceedsKeeps DEF RequestStep
<1>7. ASSUME NEW b \in Button, AnswerLost(b)
      PROVE  PageInv'
  BY <1>7, AnswerLostKeeps
<1> QED
  BY <1>1, <1>2, <1>3, <1>4, <1>5, <1>6, <1>7 DEF WorkspaceNext

LEMMA InvAlways == WorkspaceSpec => []PageInv
<1>1. WorkspaceInit => PageInv
  BY InitInv
<1>2. PageInv /\ [WorkspaceNext]_pageAndBoard => PageInv'
  BY NextKeeps
<1> QED
  BY <1>1, <1>2, PTL DEF WorkspaceSpec

(***************************************************************************)
(* The page's state stays well typed: every view it holds is one of the    *)
(* jobs and cuts there are.                                                *)
(***************************************************************************)
THEOREM PageTypeCorrect == WorkspaceSpec => []WorkspaceTypeOK
<1>1. PageInv => WorkspaceTypeOK
  BY DEF PageInv
<1> QED
  BY <1>1, InvAlways, PTL

(***************************************************************************)
(* No answer of an older request or fetch takes away what was created,     *)
(* whatever the number of requests and cuts.                               *)
(***************************************************************************)
THEOREM AlwaysShowsWhatWasRequested ==
  WorkspaceSpec => []ShowsWhatWasRequested
<1>1. PageInv => ShowsWhatWasRequested
  BY DEF PageInv, KnowsInv, Known, Created, Settled, Owes,
         ShowsWhatWasRequested, AllIdle, Idle, Unused
<1> QED
  BY <1>1, InvAlways, PTL

(***************************************************************************)
(* When polling stops the jobs shown are the jobs of the backend, with     *)
(* their artifacts.                                                        *)
(***************************************************************************)
THEOREM AlwaysRestsOnRows == WorkspaceSpec => []RestsOnRows
<1>1. ASSUME PageInv, Rests
      PROVE  /\ \A j \in Job : shown.status[j] = row[j].status
             /\ shown.artifacts = Artifacts("IMAGE") \cup Artifacts("VIDEO")
  <2>1. /\ Past(shown, row) /\ Whole(shown, row, Kind)
        /\ shown.artifacts \subseteq Job
    BY <1>1 DEF PageInv, Rests, ViewsInv, WorkspaceTypeOK, View
  <2>2. \A j \in Created(row) : shown.status[j] # "ABSENT"
    BY <1>1 DEF PageInv, Rests, KnowsInv, Known, Settled, Owes, AllIdle, Idle
  <2>3. \A j \in Created(row) : shown.status[j] # "ACTIVE"
    <3> SUFFICES ASSUME NEW j \in Created(row), shown.status[j] = "ACTIVE"
                 PROVE  FALSE
      OBVIOUS
    <3>1. row[j].cut \in Cut /\ row[j].kind \in Kind
      BY <1>1 DEF PageInv, RowsInv
    <3>2. Shows(row[j].cut, row[j].kind, "ACTIVE")
      BY DEF Shows, Of, Created
    <3> QED
      BY <1>1, <3>1, <3>2 DEF Rests, HasActiveJobs
  <2>4. \A j \in Job : shown.status[j] = row[j].status
    BY <2>1, <2>2, <2>3 DEF Past, Created
  <2>5. \A j \in Job : row[j].status = "SUCCEEDED" => row[j].kind \in Kind
    BY <1>1 DEF PageInv, RowsInv, Created
  <2>6. shown.artifacts = Artifacts("IMAGE") \cup Artifacts("VIDEO")
    BY <2>1, <2>4, <2>5 DEF Past, Whole, Artifacts, Kind
  <2> QED
    BY <2>4, <2>6
<1>2. PageInv => RestsOnRows
  BY <1>1 DEF RestsOnRows
<1> QED
  BY <1>2, InvAlways, PTL
=============================================================================
