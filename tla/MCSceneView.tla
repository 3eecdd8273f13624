---------------------------- MODULE MCSceneView ----------------------------
(***************************************************************************)
(* Small instances of the backend with a request that reads the scene.     *)
(***************************************************************************)
EXTENDS MCSystem, SceneView
=============================================================================
