------------------------------- MODULE Anchor -------------------------------
(***************************************************************************)
(* The scene anchor gate (app/anchor.py).  Cuts after the first reference  *)
(* the selected image of cut 1; the gate decides when such a cut may run   *)
(* without it.  The worker enforces the decision, the scene response       *)
(* explains it, and both call it with the same five inputs.                *)
(***************************************************************************)

AnchorOrder == 1

Decision == {"NOT_APPLICABLE", "REFERENCE", "WAIT", "PROCEED_UNANCHORED"}

DecideAnchor(order, anchorExists, imageReady, jobActive, jobFailed) ==
  CASE order = AnchorOrder \/ ~anchorExists -> "NOT_APPLICABLE"
    [] OTHER -> CASE imageReady -> "REFERENCE"
                  [] ~imageReady /\ jobActive -> "WAIT"
                  [] ~imageReady /\ ~jobActive /\ jobFailed ->
                       "PROCEED_UNANCHORED"
                  [] OTHER -> "WAIT"
=============================================================================
