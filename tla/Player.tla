------------------------------- MODULE Player -------------------------------
(***************************************************************************)
(* The sequence player: one video element for the current cut, played      *)
(* under the player's control through all cuts, while selections change.   *)
(*                                                                         *)
(* React is external.  A handler sees the state of the last render; what   *)
(* it sets is applied, in order, by the next one; the effects of a render  *)
(* run after it and before another.  Clicks and new scene data render and  *)
(* run their effects at once; the events of the element, rejected promises *)
(* and effects leave their updates for a later task, so that anything may  *)
(* happen in between.                                                      *)
(*                                                                         *)
(* The element is external too.  It plays when told to, nobody else pauses *)
(* it, and one that React replaces is paused and no longer heard of.       *)
(***************************************************************************)
EXTENDS Integers

CONSTANTS
  Clips,       \* the cuts of a sequence: six
  Video,       \* the videos a cut may select
  NoVideo,     \* no video that fits the selected image is selected
  MaxChanges   \* bound: changes of the selections

ASSUME PlayerAssumption ==
  /\ Clips \in Nat \ {0, 1}
  /\ NoVideo \notin Video
  /\ MaxChanges \in Nat

Index == 0 .. Clips - 1
Selected == [Index -> Video \cup {NoVideo}]
State == [currentIndex : Index, playing : BOOLEAN, completed : BOOLEAN,
          playbackError : BOOLEAN]

VARIABLES
  selected,  \* what the scene on the page selects
  state,     \* the state as rendered
  next,      \* the state with every update since
  effects,   \* the effects of the last render that are still to run
  urgent,    \* what is left of the task at hand
  media,     \* the element on the page
  endDue,    \* its ended event is on the way
  active,    \* activeMediaRef
  promises,  \* the promises of play() still open: of playAttemptRef, of others
  mounted,   \* mountedRef
  changes,   \* how often the selections have changed
  handsOff   \* nobody has clicked since they changed last

dom == <<media, endDue, active, promises>>
playerVars == <<selected, state, next, effects, urgent, media, endDue, active,
                promises, mounted, changes, handsOff>>

PlayerTypeOK ==
  /\ selected \in Selected
  /\ state \in State /\ next \in State
  /\ effects \subseteq {"lineage", "currentIndex"}
  /\ urgent \in {"nothing", "render", "effects"}
  /\ media \in {"none", "paused", "playing", "atEnd"}
  /\ endDue \in BOOLEAN
  /\ active \in {"none", "shown", "detached"}
  /\ promises \subseteq {"latest", "older"}
  /\ mounted \in BOOLEAN
  /\ changes \in 0 .. MaxChanges
  /\ handsOff \in BOOLEAN

Ready(s) == \A i \in Index : s[i] # NoVideo

ElementOf(s) == IF Ready(s) THEN "paused" ELSE "none"

Stopped == [currentIndex |-> 0, playing |-> FALSE, completed |-> FALSE,
            playbackError |-> FALSE]

PlayerInit ==
  /\ selected \in Selected
  /\ state = Stopped /\ next = Stopped
  /\ effects = {} /\ urgent = "nothing"
  /\ media = ElementOf(selected) /\ endDue = FALSE
  /\ active = "none" /\ promises = {}
  /\ mounted = TRUE
  /\ changes = 0 /\ handsOff = TRUE

----------------------------------------------------------------------------
(***************************************************************************)
(* What the handlers are made of.                                          *)
(***************************************************************************)

\* playAttemptRef.current += 1
Outdated == IF promises = {} THEN {} ELSE {"older"}

\* pauseActiveMedia, on the element
Paused ==
  IF active = "shown" /\ media = "playing" THEN "paused" ELSE media

\* An exception of play() is a rejection that comes at once.
StartPlayback(updates) ==
  /\ promises' = Outdated \cup {"latest"}
  /\ media' = "playing"
  /\ active' = "shown"
  /\ next' = [updates EXCEPT !.playbackError = FALSE, !.playing = TRUE]

\* Nothing but the current handler runs while its task is not over.
Event == mounted /\ urgent = "nothing"

----------------------------------------------------------------------------
(***************************************************************************)
(* playSequence: the button.                                               *)
(***************************************************************************)
Clicked ==
  /\ Event
  /\ Ready(selected)
  /\ urgent' = "render"
  /\ handsOff' = FALSE
  /\ UNCHANGED <<selected, state, effects, mounted, changes>>

ClickPause ==
  /\ state.playing
  /\ Clicked
  /\ promises' = Outdated
  /\ media' = Paused
  /\ active' = "none"
  /\ next' = [next EXCEPT !.playing = FALSE]
  /\ UNCHANGED endDue

ClickRestart ==
  /\ ~state.playing /\ state.completed
  /\ Clicked
  /\ promises' = Outdated
  /\ next' = [next EXCEPT !.completed = FALSE, !.playing = TRUE,
                          !.currentIndex = 0]
  /\ UNCHANGED <<media, endDue, active>>

\* Two clicks, to pause and to play, take longer than an event that is on the
\* way.
ClickPlay ==
  /\ ~state.playing /\ ~state.completed
  /\ ~endDue
  /\ Clicked
  /\ StartPlayback(next)
  /\ UNCHANGED endDue

----------------------------------------------------------------------------
(***************************************************************************)
(* The element and the promises of its plays.                              *)
(***************************************************************************)
\* A clip is longer than a render waits that replaces it.
ReachesEnd ==
  /\ Event
  /\ media = "playing" /\ "latest" \notin promises
  /\ next.currentIndex = state.currentIndex
  /\ media' = "atEnd" /\ endDue' = TRUE
  /\ UNCHANGED <<selected, state, next, effects, urgent, active, promises,
                 mounted, changes, handsOff>>

\* Mutant of Advanced: one cut too many.
AdvancedPastLast ==
  IF state.currentIndex = Clips
  THEN [next EXCEPT !.playing = FALSE, !.completed = TRUE]
  ELSE [next EXCEPT !.currentIndex = @ + 1]

\* advanceSequence
Advanced ==
  IF state.currentIndex = Clips - 1
  THEN [next EXCEPT !.playing = FALSE, !.completed = TRUE]
  ELSE [next EXCEPT !.currentIndex = @ + 1]

Ended ==
  /\ Event
  /\ endDue
  /\ endDue' = FALSE
  /\ IF state.playing
     THEN /\ promises' = Outdated
          /\ active' = "none"
          /\ next' = Advanced
     ELSE UNCHANGED <<promises, active, next>>
  /\ UNCHANGED <<selected, state, effects, urgent, media, mounted, changes,
                 handsOff>>

\* Mutant of MediaFailed: a cut that cannot be loaded is skipped.
MediaFailedSkipped == [Advanced EXCEPT !.playbackError = TRUE]

MediaFailed ==
  [next EXCEPT !.playing = FALSE, !.completed = FALSE, !.playbackError = TRUE]

\* handleMediaError
MediaError ==
  /\ Event
  /\ media \in {"paused", "playing"}
  /\ promises' = Outdated
  /\ media' = "paused"
  /\ active' = "none"
  /\ next' = MediaFailed
  /\ UNCHANGED <<selected, state, effects, urgent, endDue, mounted, changes,
                 handsOff>>

PlayResolves(p) ==
  /\ urgent = "nothing"
  /\ p \in promises
  /\ promises' = promises \ {p}
  /\ UNCHANGED <<selected, state, next, effects, urgent, media, endDue, active,
                 mounted, changes, handsOff>>

\* Mutant of FailPlayback: the attempt is not compared.
FailPlaybackOfAny(p) ==
  /\ active' = "none"
  /\ next' = [next EXCEPT !.playing = FALSE, !.playbackError = TRUE]

FailPlayback(p) ==
  IF mounted /\ p = "latest"
  THEN /\ active' = "none"
       /\ next' = [next EXCEPT !.playing = FALSE, !.playbackError = TRUE]
  ELSE UNCHANGED <<active, next>>

\* The latest: playing was refused or nothing could be loaded.  An older one:
\* it was paused, too.
PlayRejects(p) ==
  /\ urgent = "nothing"
  /\ p \in promises
  /\ promises' = promises \ {p}
  /\ media' = IF p = "latest" THEN Paused ELSE media
  /\ FailPlayback(p)
  /\ UNCHANGED <<selected, state, effects, urgent, endDue, mounted, changes,
                 handsOff>>

----------------------------------------------------------------------------
(***************************************************************************)
(* Renders and effects.                                                    *)
(***************************************************************************)
Lineage(s) == IF s = selected THEN {} ELSE {"lineage"}

Moved == IF next.currentIndex = state.currentIndex THEN {} ELSE {"currentIndex"}

\* The key of the element is the video; no video, no element.
Keeps(s) ==
  \/ ~Ready(selected) /\ ~Ready(s)
  \/ /\ Ready(selected) /\ Ready(s)
     /\ next.currentIndex = state.currentIndex
     /\ s[next.currentIndex] = selected[next.currentIndex]

Renders(s) ==
  /\ effects = {}
  /\ selected' = s
  /\ state' = next
  /\ effects' = Lineage(s) \cup Moved
  /\ IF Keeps(s)
     THEN UNCHANGED <<media, endDue, active>>
     ELSE /\ media' = ElementOf(s)
          /\ endDue' = FALSE
          /\ active' = IF active = "none" THEN "none" ELSE "detached"
  /\ UNCHANGED <<next, promises, mounted>>

Render ==
  /\ mounted
  /\ urgent = "render" \/ (urgent = "nothing" /\ next # state)
  /\ Renders(selected)
  /\ urgent' = IF urgent = "render" /\ Moved # {} THEN "effects" ELSE "nothing"
  /\ UNCHANGED <<changes, handsOff>>

\* New scene data; updates that wait are rendered with it.
SelectionChanges ==
  /\ Event
  /\ changes < MaxChanges
  /\ changes' = changes + 1
  /\ \E i \in Index, v \in Video \cup {NoVideo} :
       /\ v # selected[i]
       /\ Renders([selected EXCEPT ![i] = v])
  /\ urgent' = "effects"
  /\ handsOff' = TRUE

\* Mutant of PlaysOn: the element is looked for in activeMediaRef.
PlaysOnActive ==
  /\ "currentIndex" \in effects /\ state.playing /\ media # "none"
  /\ active # "none"

PlaysOn == "currentIndex" \in effects /\ state.playing /\ media # "none"

Updated == IF "lineage" \in effects THEN Stopped ELSE next

Effects ==
  /\ mounted
  /\ effects # {}
  /\ effects' = {}
  /\ urgent' = IF urgent = "effects" THEN "nothing" ELSE urgent
  /\ IF PlaysOn
     THEN StartPlayback(Updated)
     ELSE /\ next' = Updated
          /\ IF "lineage" \in effects
             THEN promises' = Outdated /\ media' = Paused /\ active' = "none"
             ELSE UNCHANGED <<promises, media, active>>
  /\ UNCHANGED <<selected, state, endDue, mounted, changes, handsOff>>

Unmount ==
  /\ Event
  /\ mounted' = FALSE
  /\ promises' = Outdated
  /\ media' = "none" /\ endDue' = FALSE
  /\ active' = "none"
  /\ effects' = {}
  /\ UNCHANGED <<selected, state, next, urgent, changes, handsOff>>

----------------------------------------------------------------------------
PlayerNext ==
  \/ ClickPause \/ ClickRestart \/ ClickPlay
  \/ ReachesEnd \/ Ended \/ MediaError
  \/ \E p \in promises : PlayResolves(p) \/ PlayRejects(p)
  \/ Render \/ SelectionChanges \/ Effects \/ Unmount

(***************************************************************************)
(* Tasks run, and a clip that is to be played is played to its end, fails  *)
(* or is refused.  Nothing is assumed of the user.                         *)
(***************************************************************************)
PlayerSpec ==
  /\ PlayerInit
  /\ [][PlayerNext]_playerVars
  /\ WF_playerVars(Render)
  /\ WF_playerVars(Effects)
  /\ WF_playerVars(Ended)
  /\ WF_playerVars(ReachesEnd)
  /\ WF_playerVars(PlayResolves("latest") \/ PlayRejects("latest"))

----------------------------------------------------------------------------
Settled == mounted /\ urgent = "nothing" /\ effects = {} /\ next = state

(***************************************************************************)
(* Nothing plays under "Play sequence" or "Restart sequence", and what     *)
(* plays is the element that the player holds and would pause: whatever    *)
(* promises, events, clip changes and new selections have overlapped.      *)
(***************************************************************************)
PlaysOnlyUnderPause ==
  Settled /\ media = "playing" => state.playing /\ active = "shown"

(***************************************************************************)
(* The sequence moves on to the next cut only, and only from a clip that   *)
(* was played to its end.                                                  *)
(***************************************************************************)
NoCutSkipped ==
  [][state'.currentIndex > state.currentIndex =>
       /\ state'.currentIndex = state.currentIndex + 1
       /\ media = "atEnd"]_playerVars

(***************************************************************************)
(* A clip that plays is followed by the next one, up to the last, unless   *)
(* the player stops: no clip change leaves it on a clip that nobody starts.*)
(***************************************************************************)
PlayedOn == media = "playing" ~> ~state.playing \/ ~mounted

(***************************************************************************)
(* A new selection stops the sequence at its first cut, for as long as     *)
(* nobody clicks.                                                          *)
(***************************************************************************)
StopsOnReset ==
  Settled /\ handsOff =>
    state.currentIndex = 0 /\ ~state.playing /\ ~state.completed

(***************************************************************************)
(* Under "Pause sequence" a clip plays, or has just ended: a restart of    *)
(* the completed sequence starts Cut 1.                                    *)
(***************************************************************************)
PlaysUnderPause ==
  Settled /\ state.playing => media = "playing" \/ (media = "atEnd" /\ endDue)
=============================================================================
