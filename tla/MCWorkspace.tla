---------------------------- MODULE MCWorkspace ----------------------------
(***************************************************************************)
(* Small instances of the page of a scene.                                 *)
(***************************************************************************)
EXTENDS Workspace

CONSTANTS MaxJobs, NumCuts

MCJob == 1 .. MaxJobs
MCCut == 1 .. NumCuts

NoRow == [status |-> "ABSENT", cut |-> Null, kind |-> Null, source |-> Null]

ImageOf(c) ==
  [status |-> "SUCCEEDED", cut |-> c, kind |-> "IMAGE", source |-> Null]

\* A new scene.
Nothing == [j \in MCJob |-> NoRow]
NoSelection == [c \in MCCut |-> [image |-> Null, video |-> Null]]

\* An image of cut 1, selected.
OneImage == [j \in MCJob |-> IF j = 1 THEN ImageOf(1) ELSE NoRow]
OneSelected ==
  [c \in MCCut |-> [image |-> IF c = 1 THEN 1 ELSE Null, video |-> Null]]

\* Two images of cut 1, the first selected, and one of cut 2, not selected yet.
ThreeImages ==
  [j \in MCJob |-> CASE j \in {1, 2} -> ImageOf(1)
                     [] j = 3 -> ImageOf(2)
                     [] OTHER -> NoRow]

\* The image buttons of both cards, and the video button of the first.
ImageCards == {<<1, "selectImage">>, <<2, "selectImage">>, <<1, "VIDEO">>}

\* All buttons of every card, and the video batch.
EveryButton ==
  (MCCut \X {"IMAGE", "VIDEO", "selectImage", "selectVideo"})
    \cup ({AllCuts} \X {"VIDEO"})
=============================================================================
