---------------------------- MODULE MCSceneDraft ----------------------------
(***************************************************************************)
(* Small instances of the creation of scenes.                              *)
(***************************************************************************)
EXTENDS SceneDraft

\* In order, two cuts swapped, and one missing.
SomeShapes == {InOrder, <<1, 2, 3, 4, 6, 5>>, <<1, 2, 3, 4, 5>>}
=============================================================================
