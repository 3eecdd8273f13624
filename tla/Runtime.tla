------------------------------ MODULE Runtime ------------------------------
(***************************************************************************)
(* The runtime mode and the provider registry (app/runtime.py).  Both live *)
(* in process memory: the mode goes back to the configured one when the    *)
(* process restarts, and whether live providers exist is decided then, by  *)
(* whether both API keys are configured.                                   *)
(***************************************************************************)
Mode == {"MOCK", "LIVE"}   \* GenerationMode

CONSTANTS
  ModesInUse,    \* bound: the modes configured or switched to
  LiveOptions    \* whether the keys may be configured at a start

ASSUME RuntimeAssumption ==
  /\ ModesInUse \subseteq Mode
  /\ LiveOptions \subseteq BOOLEAN

VARIABLES
  mode,   \* RuntimeMode._current
  live    \* ProviderRegistry.live_available

runtimeVars == <<mode, live>>

RuntimeTypeOK ==
  /\ mode \in Mode
  /\ live \in BOOLEAN

\* Settings: starting in live mode requires the keys.
Configured(m, keys) == m = "LIVE" => keys

RuntimeInit ==
  /\ live \in LiveOptions
  /\ mode \in {m \in ModesInUse : Configured(m, live)}

RuntimeRestart ==
  /\ live' \in LiveOptions
  /\ mode' \in {m \in ModesInUse : Configured(m, live')}

\* RuntimeMode.set
SwitchMode(m) ==
  /\ m # mode
  /\ m = "LIVE" => live
  /\ mode' = m
  /\ UNCHANGED live

\* ProviderRegistry: the provider pair of this mode exists.
Available(m) == m = "LIVE" => live
=============================================================================
