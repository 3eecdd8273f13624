---------------------------- MODULE PlayerProofs ----------------------------
(***************************************************************************)
(* The safety properties of the sequence player, for any number of cuts,   *)
(* any videos and any number of selections, whatever meets in a render.    *)
(***************************************************************************)
EXTENDS Player, TLAPS

(***************************************************************************)
(* Where the next index may be: no further, or one on once the clip of the *)
(* sequence that plays is over.                                            *)
(***************************************************************************)
IndexInv ==
  /\ endDue => media = "atEnd"
  /\ \/ ~mounted
     \/ next.currentIndex <= state.currentIndex
     \/ /\ next.currentIndex = state.currentIndex + 1
        /\ state.playing /\ media = "atEnd" /\ ~endDue

(***************************************************************************)
(* What plays is the active element, and will be shown as playing.         *)
(***************************************************************************)
MediaInv ==
  /\ mounted => (media = "none" <=> ~Ready(selected))
  /\ ~mounted => media = "none"
  /\ media = "playing" => active = "shown" /\ next.playing

(***************************************************************************)
(* A cut that was moved to has not started unless a click came first.      *)
(***************************************************************************)
TaskInv ==
  "currentIndex" \in effects =>
    /\ media # "atEnd"
    /\ urgent # "render" => media # "playing"

PlayerInv == PlayerTypeOK /\ IndexInv /\ MediaInv /\ TaskInv

----------------------------------------------------------------------------
(***************************************************************************)
(* The constants, and states that the handlers leave.                      *)
(***************************************************************************)
LEMMA Constants ==
  Clips \in Nat /\ Clips > 1 /\ MaxChanges \in Nat
  BY PlayerAssumption DEF PlayerAssumption

LEMMA StoppedState == Stopped \in State
  BY Constants DEF Stopped, State, Index

LEMMA RestartState ==
  ASSUME NEW s \in State
  PROVE  [s EXCEPT !.completed = FALSE, !.playing = TRUE,
                   !.currentIndex = 0] \in State
<1>1. 0 \in Index  BY Constants DEF Index
<1> QED  BY <1>1 DEF State

LEMMA PlayingState ==
  ASSUME NEW s \in State
  PROVE  [s EXCEPT !.playbackError = FALSE, !.playing = TRUE] \in State
  BY DEF State

(***************************************************************************)
(* The first state.                                                        *)
(***************************************************************************)
LEMMA InitInv ==
  ASSUME PlayerInit
  PROVE  PlayerInv
<1> USE Constants DEF PlayerInit, ElementOf
<1>1. PlayerTypeOK
  <2>1. changes \in 0 .. MaxChanges  BY DEF PlayerTypeOK
  <2>2. media \in {"none", "paused", "playing", "atEnd"}  OBVIOUS
  <2> QED  BY StoppedState, <2>1, <2>2 DEF PlayerTypeOK
<1> USE DEF Stopped
<1>2. IndexInv  BY DEF IndexInv
<1>3. MediaInv  BY DEF MediaInv
<1>4. TaskInv  BY DEF TaskInv
<1> QED  BY <1>1, <1>2, <1>3, <1>4 DEF PlayerInv

(***************************************************************************)
(* The button.                                                             *)
(***************************************************************************)
LEMMA ClickPauseKeeps ==
  ASSUME PlayerInv, ClickPause
  PROVE  PlayerInv'
<1> USE Constants DEF ClickPause, Clicked, Event, Outdated, Paused
<1>0. PlayerTypeOK /\ IndexInv /\ MediaInv /\ TaskInv
  BY DEF PlayerInv
<1>1. PlayerTypeOK'  BY <1>0 DEF PlayerTypeOK, State, Index
<1> USE DEF PlayerTypeOK, State, Index
<1>2. IndexInv'  BY <1>0 DEF IndexInv, MediaInv, TaskInv
<1>3. MediaInv'  BY <1>0 DEF IndexInv, MediaInv, TaskInv
<1>4. TaskInv'  BY <1>0 DEF IndexInv, MediaInv, TaskInv
<1> QED  BY <1>1, <1>2, <1>3, <1>4 DEF PlayerInv

(***************************************************************************)
(* A restart begins at another cut than the last.                          *)
(***************************************************************************)
LEMMA ClickRestartKeeps ==
  ASSUME PlayerInv, ClickRestart
  PROVE  PlayerInv'
<1> USE Constants DEF ClickRestart, Clicked, Event, Outdated
<1>0. PlayerTypeOK /\ IndexInv /\ MediaInv /\ TaskInv
  BY DEF PlayerInv
<1>1. PlayerTypeOK'
  <2>1. next' \in State  BY <1>0, RestartState DEF PlayerTypeOK
  <2> QED  BY <1>0, <2>1 DEF PlayerTypeOK
<1> USE DEF PlayerTypeOK, State, Index
<1>2. IndexInv'  BY <1>0 DEF IndexInv, MediaInv, TaskInv
<1>3. MediaInv'  BY <1>0 DEF IndexInv, MediaInv, TaskInv
<1>4. TaskInv'  BY <1>0 DEF IndexInv, MediaInv, TaskInv
<1> QED  BY <1>1, <1>2, <1>3, <1>4 DEF PlayerInv

(***************************************************************************)
(* Playing from the button.                                                *)
(***************************************************************************)
LEMMA ClickPlayKeeps ==
  ASSUME PlayerInv, ClickPlay
  PROVE  PlayerInv'
<1> USE Constants DEF ClickPlay, Clicked, Event, Outdated, StartPlayback
<1>0. PlayerTypeOK /\ IndexInv /\ MediaInv /\ TaskInv
  BY DEF PlayerInv
<1>1. PlayerTypeOK'  BY <1>0 DEF PlayerTypeOK, State, Index
<1> USE DEF PlayerTypeOK, State, Index
<1>2. IndexInv'  BY <1>0 DEF IndexInv, MediaInv, TaskInv
<1>3. MediaInv'  BY <1>0 DEF IndexInv, MediaInv, TaskInv
<1>4. TaskInv'  BY <1>0 DEF IndexInv, MediaInv, TaskInv
<1> QED  BY <1>1, <1>2, <1>3, <1>4 DEF PlayerInv

(***************************************************************************)
(* The element reaches its end.                                            *)
(***************************************************************************)
LEMMA ReachesEndKeeps ==
  ASSUME PlayerInv, ReachesEnd
  PROVE  PlayerInv'
<1> USE Constants DEF ReachesEnd, Event
<1>0. PlayerTypeOK /\ IndexInv /\ MediaInv /\ TaskInv
  BY DEF PlayerInv
<1>1. PlayerTypeOK'  BY <1>0 DEF PlayerTypeOK, State, Index
<1> USE DEF PlayerTypeOK, State, Index
<1>2. IndexInv'  BY <1>0 DEF IndexInv, MediaInv, TaskInv
<1>3. MediaInv'  BY <1>0 DEF IndexInv, MediaInv, TaskInv
<1>4. TaskInv'  BY <1>0 DEF IndexInv, MediaInv, TaskInv
<1> QED  BY <1>1, <1>2, <1>3, <1>4 DEF PlayerInv

(***************************************************************************)
(* The next cut, or the end of the sequence.                               *)
(***************************************************************************)
LEMMA EndedKeeps ==
  ASSUME PlayerInv, Ended
  PROVE  PlayerInv'
<1> USE Constants DEF Ended, Event, Outdated, Advanced
<1>0. PlayerTypeOK /\ IndexInv /\ MediaInv /\ TaskInv
  BY DEF PlayerInv
<1>a. /\ next \in State /\ state \in State
      /\ state.currentIndex \in 0 .. Clips - 1
      /\ next.currentIndex \in 0 .. Clips - 1
  BY <1>0 DEF PlayerTypeOK, State, Index
<1>b. media = "atEnd" /\ media' = media /\ endDue /\ ~endDue' /\ mounted
  BY <1>0 DEF IndexInv
<1>c. next.currentIndex <= state.currentIndex
  BY <1>0, <1>b DEF IndexInv
<1>d. /\ state' = state /\ mounted' = mounted
      /\ TaskInv' /\ MediaInv'
  BY <1>0, <1>b DEF TaskInv, MediaInv
<1>1. CASE ~state.playing
  <2>1. PlayerTypeOK'  BY <1>0, <1>1 DEF PlayerTypeOK
  <2>2. IndexInv'  BY <1>1, <1>b, <1>c, <1>d DEF IndexInv
  <2> QED  BY <1>d, <2>1, <2>2 DEF PlayerInv
<1>2. CASE state.playing /\ state.currentIndex = Clips - 1
  <2>1. next' = [next EXCEPT !.playing = FALSE, !.completed = TRUE]
    BY <1>2
  <2>2. next' \in State /\ next'.currentIndex = next.currentIndex
    BY <1>a, <2>1 DEF State
  <2>3. PlayerTypeOK'  BY <1>0, <1>2, <2>2 DEF PlayerTypeOK
  <2>4. IndexInv'  BY <1>b, <1>c, <1>d, <2>2 DEF IndexInv
  <2> QED  BY <1>d, <2>3, <2>4 DEF PlayerInv
<1>3. CASE state.playing /\ state.currentIndex # Clips - 1
  <2>1. next' = [next EXCEPT !.currentIndex = next.currentIndex + 1]
    BY <1>3
  <2>2. next' \in State /\ next'.currentIndex = next.currentIndex + 1
    BY <1>a, <1>c, <1>3, <2>1 DEF State, Index
  <2>3. PlayerTypeOK'  BY <1>0, <1>3, <2>2 DEF PlayerTypeOK
  <2>4. IndexInv'  BY <1>3, <1>a, <1>b, <1>c, <1>d, <2>2 DEF IndexInv
  <2> QED  BY <1>d, <2>3, <2>4 DEF PlayerInv
<1> QED  BY <1>1, <1>2, <1>3

(***************************************************************************)
(* The element fails.                                                      *)
(***************************************************************************)
LEMMA MediaErrorKeeps ==
  ASSUME PlayerInv, MediaError
  PROVE  PlayerInv'
<1> USE Constants DEF MediaError, Event, Outdated, MediaFailed
<1>0. PlayerTypeOK /\ IndexInv /\ MediaInv /\ TaskInv
  BY DEF PlayerInv
<1>1. PlayerTypeOK'  BY <1>0 DEF PlayerTypeOK, State, Index
<1> USE DEF PlayerTypeOK, State, Index
<1>2. IndexInv'  BY <1>0 DEF IndexInv, MediaInv, TaskInv
<1>3. MediaInv'  BY <1>0 DEF IndexInv, MediaInv, TaskInv
<1>4. TaskInv'  BY <1>0 DEF IndexInv, MediaInv, TaskInv
<1> QED  BY <1>1, <1>2, <1>3, <1>4 DEF PlayerInv

(***************************************************************************)
(* A promise is kept.                                                      *)
(***************************************************************************)
LEMMA ResolvesKeeps ==
  ASSUME PlayerInv, NEW p \in promises, PlayResolves(p)
  PROVE  PlayerInv'
<1> USE Constants DEF PlayResolves
<1>0. PlayerTypeOK /\ IndexInv /\ MediaInv /\ TaskInv
  BY DEF PlayerInv
<1>1. PlayerTypeOK'  BY <1>0 DEF PlayerTypeOK, State, Index
<1> USE DEF PlayerTypeOK, State, Index
<1>2. IndexInv'  BY <1>0 DEF IndexInv, MediaInv, TaskInv
<1>3. MediaInv'  BY <1>0 DEF IndexInv, MediaInv, TaskInv
<1>4. TaskInv'  BY <1>0 DEF IndexInv, MediaInv, TaskInv
<1> QED  BY <1>1, <1>2, <1>3, <1>4 DEF PlayerInv

(***************************************************************************)
(* A promise is rejected, of the latest attempt or an older one.           *)
(***************************************************************************)
LEMMA RejectsKeeps ==
  ASSUME PlayerInv, NEW p \in promises, PlayRejects(p)
  PROVE  PlayerInv'
<1> USE Constants DEF PlayRejects, FailPlayback, Paused
<1>0. PlayerTypeOK /\ IndexInv /\ MediaInv /\ TaskInv
  BY DEF PlayerInv
<1>1. PlayerTypeOK'  BY <1>0 DEF PlayerTypeOK, State, Index
<1> USE DEF PlayerTypeOK, State, Index
<1>2. IndexInv'  BY <1>0 DEF IndexInv, MediaInv, TaskInv
<1>3. MediaInv'  BY <1>0 DEF IndexInv, MediaInv, TaskInv
<1>4. TaskInv'  BY <1>0 DEF IndexInv, MediaInv, TaskInv
<1> QED  BY <1>1, <1>2, <1>3, <1>4 DEF PlayerInv

(***************************************************************************)
(* A render of the same selections.                                        *)
(***************************************************************************)
LEMMA RenderKeeps ==
  ASSUME PlayerInv, Render
  PROVE  PlayerInv'
<1> USE Constants DEF Render, Renders, Keeps, Moved, Lineage, ElementOf
<1>0. PlayerTypeOK /\ IndexInv /\ MediaInv /\ TaskInv
  BY DEF PlayerInv
<1>1. PlayerTypeOK'  BY <1>0 DEF PlayerTypeOK, State, Index
<1> USE DEF PlayerTypeOK, State, Index
<1>2. IndexInv'  BY <1>0 DEF IndexInv, MediaInv, TaskInv
<1>3. MediaInv'  BY <1>0 DEF IndexInv, MediaInv, TaskInv
<1>4. TaskInv'
  <2>1. effects' \subseteq {"currentIndex"} /\ next' = next /\ state' = next
    OBVIOUS
  <2>2. ASSUME "currentIndex" \in effects'
        PROVE  /\ next.currentIndex # state.currentIndex
               /\ media' \in {"paused", "none"}
    <3>1. effects' = Lineage(selected) \cup Moved  BY DEF Render, Renders
    <3>2. next.currentIndex # state.currentIndex
      BY <2>2, <3>1 DEF Lineage, Moved
    <3>3. ~Keeps(selected) \/ ~Ready(selected)  BY <3>2 DEF Keeps
    <3>4. media' = ElementOf(selected) \/ (media' = media /\ ~Ready(selected))
      BY <3>3 DEF Render, Renders
    <3> QED  BY <1>0, <3>2, <3>4 DEF ElementOf, MediaInv
  <2> QED  BY <2>1, <2>2 DEF TaskInv
<1> QED  BY <1>1, <1>2, <1>3, <1>4 DEF PlayerInv

(***************************************************************************)
(* A render of other selections.                                           *)
(***************************************************************************)
LEMMA SelectionChangesKeeps ==
  ASSUME PlayerInv, SelectionChanges
  PROVE  PlayerInv'
<1> USE Constants DEF SelectionChanges, Event, Renders, Keeps,
                      Moved, Lineage, ElementOf, Selected
<1>0. PlayerTypeOK /\ IndexInv /\ MediaInv /\ TaskInv
  BY DEF PlayerInv
<1>a. /\ next' = next /\ state' = next /\ urgent' = "effects"
      /\ urgent = "nothing" /\ mounted /\ mounted' /\ effects = {}
  OBVIOUS
<1>b. PICK s \in Selected : s # selected /\ Renders(s)
  <2>1. PICK i \in Index, v \in Video \cup {NoVideo} :
          v # selected[i] /\ Renders([selected EXCEPT ![i] = v])
    BY DEF SelectionChanges
  <2>2. [selected EXCEPT ![i] = v] \in Selected
    BY <1>0, <2>1 DEF PlayerTypeOK, Selected
  <2>3. [selected EXCEPT ![i] = v] # selected
    BY <1>0, <2>1 DEF PlayerTypeOK, Selected
  <2> QED  BY <2>1, <2>2, <2>3
<1>e. ASSUME "currentIndex" \in effects'
      PROVE  /\ next.currentIndex # state.currentIndex
             /\ media' \in {"paused", "none"}
  <2>1. effects' = Lineage(s) \cup Moved  BY <1>b DEF Renders
  <2>2. next.currentIndex # state.currentIndex
    BY <1>e, <2>1 DEF Lineage, Moved
  <2>3. ~Keeps(s) \/ (~Ready(selected) /\ ~Ready(s))
    BY <2>2 DEF Keeps
  <2>4. media' = ElementOf(s) \/ (media' = media /\ ~Ready(selected))
    BY <1>b, <2>3 DEF Renders
  <2> QED  BY <1>0, <1>a, <2>2, <2>4 DEF ElementOf, MediaInv
<1>1. PlayerTypeOK'
  <2>1. selected' \in Selected  BY <1>0 DEF PlayerTypeOK
  <2>2. changes' \in 0 .. MaxChanges  BY <1>0 DEF PlayerTypeOK
  <2> QED  BY <1>0, <2>1, <2>2 DEF PlayerTypeOK
<1> USE DEF PlayerTypeOK, State, Index
<1>2. IndexInv'  BY <1>0 DEF IndexInv, MediaInv, TaskInv
<1>3. MediaInv'  BY <1>0 DEF IndexInv, MediaInv, TaskInv
<1>4. TaskInv'  BY <1>a, <1>e DEF TaskInv
<1> QED  BY <1>1, <1>2, <1>3, <1>4 DEF PlayerInv

(***************************************************************************)
(* The effects of a render.                                                *)
(***************************************************************************)
LEMMA EffectsKeeps ==
  ASSUME PlayerInv, Effects
  PROVE  PlayerInv'
<1> USE Constants DEF Effects
<1>0. PlayerTypeOK /\ IndexInv /\ MediaInv /\ TaskInv
  BY DEF PlayerInv
<1>a. /\ effects' = {} /\ mounted /\ mounted' /\ endDue' = endDue
      /\ state' = state /\ selected' = selected /\ handsOff' = handsOff
      /\ changes' = changes
  OBVIOUS
<1>b. /\ Updated \in State
      /\ Updated.currentIndex \in {next.currentIndex, 0}
  BY <1>0, StoppedState DEF Updated, PlayerTypeOK, Stopped
<1>c. state.currentIndex \in Nat /\ next.currentIndex \in Nat
  BY <1>0 DEF PlayerTypeOK, State, Index
<1>d. TaskInv'  BY <1>a DEF TaskInv
<1>1. CASE PlaysOn
  <2>1. /\ next' = [Updated EXCEPT !.playbackError = FALSE, !.playing = TRUE]
        /\ media' = "playing" /\ active' = "shown"
        /\ promises' \subseteq {"latest", "older"}
    BY <1>1 DEF StartPlayback, Outdated
  <2>2. /\ next' \in State /\ next'.playing
        /\ next'.currentIndex = Updated.currentIndex
    BY <1>b, <2>1, PlayingState DEF State
  <2>3. media # "none" /\ media # "atEnd"
    BY <1>0, <1>1 DEF PlaysOn, TaskInv
  <2>4. next'.currentIndex <= state.currentIndex
    BY <1>0, <1>a, <1>b, <1>c, <2>2, <2>3 DEF IndexInv
  <2>5. PlayerTypeOK'  BY <1>0, <1>a, <2>1, <2>2 DEF PlayerTypeOK
  <2>6. IndexInv'  BY <1>0, <1>a, <2>3, <2>4 DEF IndexInv
  <2>7. MediaInv'  BY <1>0, <1>a, <2>1, <2>2, <2>3 DEF MediaInv
  <2> QED  BY <1>d, <2>5, <2>6, <2>7 DEF PlayerInv
<1>2. CASE ~PlaysOn /\ "lineage" \in effects
  <2>1. /\ next' = Stopped /\ promises' = Outdated
        /\ media' = Paused /\ active' = "none"
    BY <1>2 DEF Updated
  <2>2. next'.currentIndex = 0  BY <2>1 DEF Stopped
  <2>3. /\ media = "playing" => media' = "paused"
        /\ media # "playing" => media' = media
    BY <1>0, <2>1 DEF Paused, MediaInv
  <2>4. PlayerTypeOK'
    BY <1>0, <1>a, <2>1, <2>3, StoppedState DEF PlayerTypeOK, Outdated
  <2>5. IndexInv'  BY <1>0, <1>a, <1>c, <2>2, <2>3 DEF IndexInv
  <2>6. MediaInv'  BY <1>0, <1>a, <2>3 DEF MediaInv
  <2> QED  BY <1>d, <2>4, <2>5, <2>6 DEF PlayerInv
<1>3. CASE ~PlaysOn /\ "lineage" \notin effects
  <2>1. UNCHANGED <<next, promises, media, active>>
    BY <1>3 DEF Updated
  <2>2. PlayerTypeOK'  BY <1>0, <1>a, <2>1 DEF PlayerTypeOK
  <2>3. IndexInv'  BY <1>0, <1>a, <2>1 DEF IndexInv
  <2>4. MediaInv'  BY <1>0, <1>a, <2>1 DEF MediaInv
  <2> QED  BY <1>d, <2>2, <2>3, <2>4 DEF PlayerInv
<1> QED  BY <1>1, <1>2, <1>3

(***************************************************************************)
(* The page goes away.                                                     *)
(***************************************************************************)
LEMMA UnmountKeeps ==
  ASSUME PlayerInv, Unmount
  PROVE  PlayerInv'
<1> USE Constants DEF Unmount, Event, Outdated
<1>0. PlayerTypeOK /\ IndexInv /\ MediaInv /\ TaskInv
  BY DEF PlayerInv
<1>1. PlayerTypeOK'  BY <1>0 DEF PlayerTypeOK, State, Index
<1> USE DEF PlayerTypeOK, State, Index
<1>2. IndexInv'  BY <1>0 DEF IndexInv, MediaInv, TaskInv
<1>3. MediaInv'  BY <1>0 DEF IndexInv, MediaInv, TaskInv
<1>4. TaskInv'  BY <1>0 DEF IndexInv, MediaInv, TaskInv
<1> QED  BY <1>1, <1>2, <1>3, <1>4 DEF PlayerInv

----------------------------------------------------------------------------
(***************************************************************************)
(* Every step keeps the invariant.                                         *)
(***************************************************************************)
LEMMA NextKeeps ==
  ASSUME PlayerInv, [PlayerNext]_playerVars
  PROVE  PlayerInv'
<1>1. CASE UNCHANGED playerVars
  BY <1>1 DEF playerVars, PlayerInv, PlayerTypeOK, IndexInv, MediaInv, TaskInv
<1>2. CASE \E p \in promises : PlayResolves(p) \/ PlayRejects(p)
  BY <1>2, ResolvesKeeps, RejectsKeeps
<1>3. CASE \/ ClickPause \/ ClickRestart \/ ClickPlay
           \/ ReachesEnd \/ Ended \/ MediaError
           \/ Render \/ SelectionChanges \/ Effects \/ Unmount
  BY <1>3, ClickPauseKeeps, ClickRestartKeeps, ClickPlayKeeps,
     ReachesEndKeeps, EndedKeeps, MediaErrorKeeps, RenderKeeps,
     SelectionChangesKeeps, EffectsKeeps, UnmountKeeps
<1> QED  BY <1>1, <1>2, <1>3 DEF PlayerNext

(***************************************************************************)
(* The invariant holds always.                                             *)
(***************************************************************************)
LEMMA InvAlways == PlayerSpec => []PlayerInv
<1>1. PlayerInit => PlayerInv  BY InitInv
<1>2. PlayerInv /\ [PlayerNext]_playerVars => PlayerInv'  BY NextKeeps
<1> QED  BY <1>1, <1>2, PTL DEF PlayerSpec

(***************************************************************************)
(* The state of the player stays well typed: the index is that of a cut.   *)
(***************************************************************************)
THEOREM PlayerTypeCorrect == PlayerSpec => []PlayerTypeOK
<1>1. PlayerInv => PlayerTypeOK  BY DEF PlayerInv
<1> QED  BY <1>1, InvAlways, PTL

(***************************************************************************)
(* Whenever nothing is left to render, what plays is the element the       *)
(* player holds, and it plays under "Pause sequence".                      *)
(***************************************************************************)
THEOREM AlwaysPlaysOnlyUnderPause == PlayerSpec => []PlaysOnlyUnderPause
<1>1. PlayerInv => PlaysOnlyUnderPause
  BY DEF PlayerInv, MediaInv, PlaysOnlyUnderPause, Settled
<1> QED  BY <1>1, InvAlways, PTL

(***************************************************************************)
(* No cut is skipped, and the sequence moves on from none before its clip  *)
(* has played.                                                             *)
(***************************************************************************)
THEOREM NeverSkipsACut == PlayerSpec => NoCutSkipped
<1>1. ASSUME PlayerInv, [PlayerNext]_playerVars,
             state'.currentIndex > state.currentIndex
      PROVE  /\ state'.currentIndex = state.currentIndex + 1
             /\ media = "atEnd"
  <2>0. state.currentIndex \in Int /\ next.currentIndex \in Int
    BY <1>1, Constants DEF PlayerInv, PlayerTypeOK, State, Index
  <2>1. Render \/ SelectionChanges
    BY <1>1, <2>0 DEF PlayerNext, playerVars, ClickPause, ClickRestart,
                ClickPlay, Clicked, ReachesEnd, Ended, MediaError,
                PlayResolves, PlayRejects, Effects, Unmount
  <2>2. mounted /\ state' = next
    BY <2>1 DEF Render, SelectionChanges, Renders, Event
  <2> QED  BY <1>1, <2>0, <2>2 DEF PlayerInv, IndexInv
<1>2. PlayerInv /\ [PlayerNext]_playerVars =>
        [state'.currentIndex > state.currentIndex =>
           /\ state'.currentIndex = state.currentIndex + 1
           /\ media = "atEnd"]_playerVars
  BY <1>1
<1> QED  BY <1>2, InvAlways, PTL DEF PlayerSpec, NoCutSkipped

=============================================================================
