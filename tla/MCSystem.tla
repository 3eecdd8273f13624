------------------------------ MODULE MCSystem ------------------------------
(***************************************************************************)
(* Small instances of the backend.                                         *)
(***************************************************************************)
EXTENDS Properties, TLC

MCProc == {Worker} \cup Call \cup Hook \cup Client

\* Deliveries and requests have no identity; used with safety runs only.
Handlers == Permutations(Hook) \cup Permutations(Client)

Queued(c, kind, m) ==
  [NoRow EXCEPT !.status = "QUEUED", !.cut = c, !.kind = kind, !.mode = m,
                !.version = 1]

NoJobs == [j \in Job |-> NoRow]

\* The images of cut 1, the anchor, and of the cuts after it, as an image
\* batch leaves them.
ImageBatch ==
  [j \in Job |-> IF j \in Cut THEN Queued(j, "IMAGE", "MOCK") ELSE NoRow]

\* A scene whose anchor is there: its video and the image of cut 2 are queued.
Delivered(c, kind, m) ==
  [Queued(c, kind, m) EXCEPT !.status = "SUCCEEDED", !.attempts = 1,
                             !.task = 1]

AnchoredWith(m) ==
  [j \in Job |->
     CASE j = 1 -> Delivered(1, "IMAGE", "MOCK")
       [] j = 2 -> [Queued(1, "VIDEO", "MOCK") EXCEPT !.source = 1]
       [] j = 3 -> Queued(2, "IMAGE", m)
       [] OTHER -> NoRow]

Anchored == AnchoredWith("MOCK")

\* The same, but the image of cut 2 was asked for in live mode.
AnchoredLive == AnchoredWith("LIVE")

\* One cut with a selected image, two finished videos of it and a second image.
TwoImages ==
  [j \in Job |->
     CASE j = 1 -> Delivered(1, "IMAGE", "MOCK")
       [] j = 2 -> [Delivered(1, "IMAGE", "MOCK") EXCEPT !.version = 2]
       [] j = 3 -> [Delivered(1, "VIDEO", "MOCK") EXCEPT !.source = 1]
       [] j = 4 -> [Queued(1, "VIDEO", "MOCK") EXCEPT !.source = 1,
                                                      !.version = 2]
       [] OTHER -> NoRow]

\* A live image behind a mock anchor.
LiveBehindMock ==
  [j \in Job |->
     CASE j = 1 -> Delivered(1, "IMAGE", "MOCK")
       [] j = 2 -> Queued(2, "IMAGE", "LIVE")
       [] OTHER -> NoRow]

\* What can go wrong at once: the anchor had failed and let the images of cuts
\* 2 and 3 go, which are to be submitted a second time, that of cut 2 by live
\* providers that are no longer there; but the anchor was requested again.
AnchorRetried ==
  [j \in Job |->
     CASE j = 1 -> [Queued(1, "IMAGE", "MOCK") EXCEPT !.status = "FAILED",
                                                      !.attempts = 1]
       [] j = 2 -> [Queued(2, "IMAGE", "LIVE") EXCEPT !.status = "RETRY_WAIT",
                                                      !.attempts = 1,
                                                      !.wake = "ahead"]
       [] j = 3 -> [Queued(1, "IMAGE", "MOCK") EXCEPT !.version = 2]
       [] j = 4 -> [Queued(3, "IMAGE", "MOCK") EXCEPT !.status = "RETRY_WAIT",
                                                      !.attempts = 1,
                                                      !.wake = "reached"]
       [] OTHER -> NoRow]

\* The anchor failed, and the image of cut 2 is to be tried a second time.
AnchorFailed ==
  [j \in Job |->
     CASE j = 1 -> [Queued(1, "IMAGE", "MOCK") EXCEPT !.status = "FAILED",
                                                      !.attempts = 1]
       [] j = 2 -> [Queued(2, "IMAGE", "MOCK") EXCEPT !.status = "RETRY_WAIT",
                                                   !.attempts = 1,
                                                   !.wake = "ahead"]
       [] OTHER -> NoRow]

\* The image of the first of two cuts, and a video of the second without its
\* source image, as tests/test_worker.py:1108 stores one.
ImageAndMalformed ==
  [j \in Job |->
     CASE j = 1 -> Delivered(1, "IMAGE", "MOCK")
       [] j = 2 -> Queued(2, "VIDEO", "MOCK")
       [] OTHER -> NoRow]
=============================================================================
