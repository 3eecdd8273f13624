----------------------------- MODULE Workspace -----------------------------
(***************************************************************************)
(* The page of a scene (SceneWorkspace, CutCard and BatchControls of the   *)
(* frontend) over the backend's rows: the scene it shows, the fetch that   *)
(* replaces it, and its buttons, each with a request that is answered some *)
(* time after it took effect.                                              *)
(*                                                                         *)
(* The cache is TanStack Query's, external: one fetch of a scene at a      *)
(* time; invalidating discards the one in flight and starts another, which *)
(* everybody who awaits the scene waits for.  get_scene reads its four     *)
(* tables one after the other, with the rows changing in between.          *)
(***************************************************************************)
EXTENDS Board

CONSTANTS
  Button,        \* bound: the buttons in use, <<cut, what it does>>
  AnswersLost,   \* whether a request may take effect and be answered an error
  Hands          \* bound: requests out at once

AllCuts == 0     \* the batch controls, beside the cards

CardControl == {"IMAGE", "VIDEO", "selectImage", "selectVideo"}

ASSUME WorkspaceAssumption ==
  /\ Job \subseteq Nat
  /\ Cut \subseteq Nat \ {AllCuts}
  /\ Button \subseteq (Cut \X CardControl) \cup ({AllCuts} \X Kind)
  /\ AnswersLost \in BOOLEAN
  /\ Hands \in Nat

\* The rows the page finds are of its cuts.
ASSUME RowsAssumption ==
  /\ InitialRow \in [Job -> [status : RowStatus, cut : Cut \cup {Null},
                             kind : Kind \cup {Null}, source : Job \cup {Null}]]
  /\ InitialCut \in [Cut -> [image : Job \cup {Null}, video : Job \cup {Null}]]
  /\ \A j \in Job : InitialRow[j].status # "ABSENT" =>
       InitialRow[j].kind \in Kind /\ InitialRow[j].cut \in Cut

VARIABLES
  shown,   \* the scene of the cache, Null until there is one
  fetch,   \* what the fetch in flight has read
  press,   \* per button, its request
  unheard  \* an answer was lost, and nothing read since is shown

pageVars == <<shown, fetch, press, unheard>>

(***************************************************************************)
(* A scene response: per job its status (the other columns never change),  *)
(* the artifacts and the selections.                                       *)
(***************************************************************************)
View == [status : [Job -> RowStatus], artifacts : SUBSET Job,
         cut : [Cut -> [image : Job \cup {Null}, video : Job \cup {Null}]]]

Unread == [status |-> [j \in Job |-> "ABSENT"], artifacts |-> {},
           cut |-> [c \in Cut |-> [image |-> Null, video |-> Null]]]

Artifacts(kind) ==
  {j \in Job : row[j].kind = kind /\ row[j].status = "SUCCEEDED"}

\* Mutant of Reported: a status the frontend does not know.
ReportedUnknown(j) ==
  IF row[j].status = "FAILED" THEN "CANCELLED" ELSE row[j].status

Reported(j) == row[j].status

ViewOf(selected) ==
  [status |-> [j \in Job |-> Reported(j)],
   artifacts |-> Artifacts("IMAGE") \cup Artifacts("VIDEO"),
   cut |-> selected]

Reading == {"idle", "cuts", "jobs", "images", "videos", "landing"}

Stage == {"idle", "sent", "answered", "refreshing"}

(***************************************************************************)
(* A request: the artifact to select, or the image on which the user asks  *)
(* for a video; the cuts whose job is still to be created; the answer.     *)
(***************************************************************************)
Request == [stage : Stage, item : Job \cup {Null}, left : SUBSET Cut,
            answer : View \cup {Null}]

NoRequest == [stage |-> "idle", item |-> Null, left |-> {}, answer |-> Null]

WorkspaceTypeOK ==
  /\ BoardTypeOK
  /\ shown \in View \cup {Null}
  /\ fetch \in [reading : Reading, hears : BOOLEAN,
               view : View]
  /\ press \in [Button -> Request]
  /\ unheard \in BOOLEAN

\* hears: it began after the last answer that was lost.
NewFetch ==
  [reading |-> "cuts", hears |-> TRUE, view |-> Unread]
NoFetch == [NewFetch EXCEPT !.reading = "idle", !.hears = FALSE]

\* Opened at its URL, or on the answer that created the scene.
WorkspaceInit ==
  /\ BoardInit
  /\ shown \in {Null} \cup (IF Unused = Job THEN {ViewOf(cut)} ELSE {})
  /\ fetch = NewFetch
  /\ press = [b \in Button |-> NoRequest]
  /\ unheard = FALSE

Idle(b) == b \in Button => press[b].stage = "idle"

Shows(c, kind, status) ==
  \E j \in Of(c, kind) : shown.status[j] = status

\* Mutant of HasActiveJobs: the videos are not looked at.
HasActiveImages == \E c \in Cut : Shows(c, "IMAGE", "ACTIVE")

HasActiveJobs == \E c \in Cut, kind \in Kind : Shows(c, kind, "ACTIVE")

----------------------------------------------------------------------------
(***************************************************************************)
(* The fetch.                                                              *)
(***************************************************************************)
StartFetch ==
  /\ fetch.reading = "idle"
  /\ fetch' = NewFetch
  /\ UNCHANGED <<boardVars, shown, press, unheard>>

\* refetchInterval
Poll == shown # Null /\ HasActiveJobs /\ StartFetch

\* The window gets the focus.
Focus == StartFetch

\* Mutant of TableAfter: the artifacts are read before the jobs.
JobsReadLast(table) ==
  CASE table = "cuts" -> "images"
    [] table = "images" -> "videos"
    [] table = "videos" -> "jobs"
    [] OTHER -> "landing"

TableAfter(table) ==
  CASE table = "cuts" -> "jobs"
    [] table = "jobs" -> "images"
    [] table = "images" -> "videos"
    [] OTHER -> "landing"

Reads(table, view) ==
  /\ fetch.reading = table
  /\ fetch' = [fetch EXCEPT !.reading = TableAfter(table), !.view = view]
  /\ UNCHANGED <<boardVars, shown, press, unheard>>

ReadCuts == Reads("cuts", [fetch.view EXCEPT !.cut = cut])

ReadJobs ==
  Reads("jobs", [fetch.view EXCEPT !.status = [j \in Job |-> Reported(j)]])

ReadImages ==
  Reads("images", [fetch.view EXCEPT
                     !.artifacts = @ \cup Artifacts("IMAGE")])

ReadVideos ==
  Reads("videos", [fetch.view EXCEPT
                     !.artifacts = @ \cup Artifacts("VIDEO")])

\* The mutations that await the scene are over.
Land ==
  /\ fetch.reading = "landing"
  /\ shown' = fetch.view
  /\ fetch' = NoFetch
  /\ unheard' = (unheard /\ ~fetch.hears)
  /\ press' = [b \in Button |-> IF press[b].stage = "refreshing"
                                THEN NoRequest ELSE press[b]]
  /\ UNCHANGED boardVars

----------------------------------------------------------------------------
(***************************************************************************)
(* The buttons.                                                            *)
(***************************************************************************)
Sends(b, item, cuts) ==
  /\ press[b].stage = "idle"
  /\ Cardinality({d \in Button : ~Idle(d)}) < Hands
  /\ press' = [press EXCEPT ![b] = [NoRequest EXCEPT !.stage = "sent",
                                      !.item = item, !.left = cuts]]
  /\ UNCHANGED <<boardVars, shown, fetch, unheard>>

\* Bound: an id is left for every job that a request may yet create.
IdsLeft(cuts) ==
  Cardinality({p \in Button \X Cut : p[2] \in press[p[1]].left})
    + Cardinality(cuts) <= Cardinality(Unused)

ClickImage(c) ==
  /\ ~Shows(c, "IMAGE", "ACTIVE")
  /\ IdsLeft({c})
  /\ Sends(<<c, "IMAGE">>, Null, {c})

VideoOffered(c) ==
  /\ shown.cut[c].image # Null
  /\ ~Shows(c, "VIDEO", "ACTIVE")
  /\ Idle(<<c, "selectImage">>)

ClickVideo(c) ==
  /\ VideoOffered(c)
  /\ IdsLeft({c})
  /\ Sends(<<c, "VIDEO">>, shown.cut[c].image, {c})

ClickSelectImage(c, i) ==
  /\ i \in shown.artifacts \cap Of(c, "IMAGE")
  /\ i # shown.cut[c].image
  /\ Idle(<<c, "VIDEO">>)
  /\ Sends(<<c, "selectImage">>, i, {})

ClickSelectVideo(c, v) ==
  /\ v \in shown.artifacts \cap Of(c, "VIDEO")
  /\ v # shown.cut[c].video
  /\ row[v].source = shown.cut[c].image
  /\ Sends(<<c, "selectVideo">>, v, {})

ClickBatch(kind) ==
  /\ kind = "VIDEO" => \E c \in Cut : shown.cut[c].image # Null
  /\ IdsLeft(Cut)
  /\ Sends(<<AllCuts, kind>>, Null, Cut)

ClickCard(c, control) ==
  \/ control = "IMAGE" /\ ClickImage(c)
  \/ control = "VIDEO" /\ ClickVideo(c)
  \/ control = "selectImage" /\ \E i \in Job : ClickSelectImage(c, i)
  \/ control = "selectVideo" /\ \E v \in Job : ClickSelectVideo(c, v)

Click(b) ==
  /\ shown # Null
  /\ \/ b[1] = AllCuts /\ ClickBatch(b[2])
     \/ b[1] # AllCuts /\ ClickCard(b[1], b[2])

----------------------------------------------------------------------------
(***************************************************************************)
(* The requests.                                                           *)
(***************************************************************************)
NextCut(b) == CHOOSE c \in press[b].left : \A d \in press[b].left : c <= d

\* A batch goes on with the next cut, an only cut is answered.
Proceeds(b, refused) ==
  LET left == press[b].left \ {NextCut(b)} IN
  press' = [press EXCEPT
              ![b] = IF left # {} THEN [@ EXCEPT !.left = left]
                     ELSE IF refused /\ b[1] # AllCuts THEN NoRequest
                     ELSE [@ EXCEPT !.left = {}, !.stage = "answered"]]

SourceFor(c, kind) == IF kind = "VIDEO" THEN cut[c].image ELSE Null

Refused(c, kind) ==
  ActiveOf(c, kind) # {} \/ (kind = "VIDEO" /\ cut[c].image = Null)

CreatesJob(b) ==
  /\ press[b].left # {}
  /\ LET c == NextCut(b) IN
     /\ ~Refused(c, b[2])
     /\ \E j \in Unused : Create(j, c, b[2], SourceFor(c, b[2]))
  /\ Proceeds(b, FALSE)
  /\ UNCHANGED <<shown, fetch, unheard>>

RefusesJob(b) ==
  /\ press[b].left # {}
  /\ Refused(NextCut(b), b[2])
  /\ Proceeds(b, TRUE)
  /\ UNCHANGED <<boardVars, shown, fetch, unheard>>

AnsweredWith(b, view) ==
  press' = [press EXCEPT ![b].stage = "answered", ![b].answer = view]

Selects(b) == press[b].stage = "sent" /\ press[b].left = {}

SelectsImage(b) ==
  /\ Selects(b)
  /\ b[2] = "selectImage"
  /\ cut' = [cut EXCEPT ![b[1]] = [image |-> press[b].item, video |-> Null]]
  /\ AnsweredWith(b, ViewOf(cut'))
  /\ UNCHANGED <<row, shown, fetch, unheard>>

SelectsVideo(b) ==
  /\ Selects(b)
  /\ b[2] = "selectVideo"
  /\ row[press[b].item].source = cut[b[1]].image
  /\ cut' = [cut EXCEPT ![b[1]].video = press[b].item]
  /\ AnsweredWith(b, ViewOf(cut'))
  /\ UNCHANGED <<row, shown, fetch, unheard>>

\* VIDEO_SOURCE_MISMATCH
RefusesVideo(b) ==
  /\ Selects(b)
  /\ b[2] = "selectVideo"
  /\ row[press[b].item].source # cut[b[1]].image
  /\ press' = [press EXCEPT ![b] = NoRequest]
  /\ UNCHANGED <<boardVars, shown, fetch, unheard>>

Refreshing(b) ==
  press' = [press EXCEPT ![b] = [NoRequest EXCEPT !.stage = "refreshing"]]

\* Mutant of Invalidates: a fetch in flight is good enough.
InvalidatesIdle ==
  fetch' = IF fetch.reading = "idle" THEN NewFetch ELSE fetch

\* refreshScene
Invalidates == fetch' = NewFetch

\* seedAndRefresh, when the answer is a scene
Succeeds(b) ==
  /\ press[b].stage = "answered"
  /\ shown' = IF press[b].answer = Null THEN shown ELSE press[b].answer
  /\ Invalidates
  /\ Refreshing(b)
  /\ UNCHANGED <<boardVars, unheard>>

\* The connection breaks, or the backend fails half way through a batch.
\* Bound: one lost answer at a time.
AnswerLost(b) ==
  /\ AnswersLost
  /\ ~unheard
  /\ press[b].stage \in {"sent", "answered"}
  /\ press' = [press EXCEPT ![b] = NoRequest]
  /\ unheard' = TRUE
  /\ fetch' = [fetch EXCEPT !.hears = FALSE]
  /\ UNCHANGED <<boardVars, shown>>

----------------------------------------------------------------------------
JobEnds ==
  /\ \E j \in Job : Finish(j) \/ Fail({j})
  /\ UNCHANGED pageVars

FetchStep == ReadCuts \/ ReadJobs \/ ReadImages \/ ReadVideos \/ Land

RequestStep(b) ==
  \/ CreatesJob(b) \/ RefusesJob(b)
  \/ SelectsImage(b) \/ SelectsVideo(b) \/ RefusesVideo(b)
  \/ Succeeds(b)

WorkspaceNext ==
  \/ JobEnds
  \/ Poll \/ Focus \/ FetchStep
  \/ \E b \in Button : Click(b) \/ RequestStep(b) \/ AnswerLost(b)

pageAndBoard == <<boardVars, pageVars>>

(***************************************************************************)
(* Jobs end (JobsEnd of the backend), fetches and requests are answered,   *)
(* the interval timer runs.  Nothing is assumed of the user.               *)
(***************************************************************************)
WorkspaceSpec ==
  /\ WorkspaceInit
  /\ [][WorkspaceNext]_pageAndBoard
  /\ \A j \in Job : WF_pageAndBoard((Finish(j) \/ Fail({j}))
                                      /\ UNCHANGED pageVars)
  /\ WF_pageAndBoard(Poll)
  /\ WF_pageAndBoard(FetchStep)
  /\ \A b \in Button : WF_pageAndBoard(RequestStep(b))

----------------------------------------------------------------------------
AllIdle == \A b \in Button : Idle(b)

(***************************************************************************)
(* Once its buttons are free again the page shows every job there is: no   *)
(* answer of an older request or fetch has taken away what was created,    *)
(* and no button offers a generation that is refused as already active.    *)
(***************************************************************************)
ShowsWhatWasRequested ==
  shown # Null /\ AllIdle /\ ~unheard =>
    \A j \in Job \ Unused : shown.status[j] # "ABSENT"

(***************************************************************************)
(* When the page rests, polling over and nothing pending, its jobs are the *)
(* jobs of the backend, and every success is there with its artifact.      *)
(***************************************************************************)
Rests ==
  /\ shown # Null
  /\ fetch.reading = "idle"
  /\ ~HasActiveJobs
  /\ AllIdle
  /\ ~unheard

RestsOnRows ==
  Rests => /\ \A j \in Job : shown.status[j] = row[j].status
           /\ shown.artifacts = Artifacts("IMAGE") \cup Artifacts("VIDEO")

(***************************************************************************)
(* The page comes to show the end of every job.                            *)
(***************************************************************************)
EndsAreShown ==
  \A j \in Job :
    row[j].status = "ACTIVE" ~>
      \/ unheard
      \/ shown # Null /\ shown.status[j] \in {"SUCCEEDED", "FAILED"}

(***************************************************************************)
(* When the page rests, it shows the selections of the backend.            *)
(***************************************************************************)
RestsOnSelections == Rests => shown.cut = cut

(***************************************************************************)
(* A video is generated from the image that the card showed as selected    *)
(* when the user asked for it, whatever the other cards do meanwhile.      *)
(***************************************************************************)
VideoOfImageAskedFor ==
  \A b \in Button :
    b[2] = "VIDEO" /\ press[b].stage = "sent" =>
      press[b].item = cut[b[1]].image
=============================================================================
