------------------------------- MODULE System -------------------------------
(***************************************************************************)
(* The backend as one process: worker, callback route and request handlers *)
(* over the database, the crash and restart of the process, and time.      *)
(***************************************************************************)
EXTENDS Webhook, Api

CONSTANT MaxCrashes   \* bound: crashes in a run

\* Requests are handled by none of the worker's coroutines or the callbacks'.
ASSUME SystemAssumption ==
  /\ MaxCrashes \in Nat
  /\ Client \cap ({Worker} \cup Call \cup Hook) = {}

VARIABLE crashes

vars == <<storeVars, runtimeVars, workerVars, hookVars, apiVars, crashes>>

TypeOK ==
  /\ StoreTypeOK
  /\ RuntimeTypeOK
  /\ WorkerTypeOK
  /\ HookTypeOK
  /\ ApiTypeOK
  /\ crashes \in Nat

Init ==
  /\ StoreInit
  /\ RuntimeInit
  /\ WorkerInit
  /\ HookInit
  /\ ApiInit
  /\ crashes = 0

(***************************************************************************)
(* The process dies between any two steps and starts again: whatever it    *)
(* had in memory is gone, open transactions are rolled back.  Of a submit  *)
(* call that was out, nobody will learn the outcome.                       *)
(***************************************************************************)
Crash ==
  /\ crashes < MaxCrashes
  /\ crashes' = crashes + 1
  /\ tx' = [p \in Proc |-> Closed]
  /\ phase' = "tick"
  /\ gather' = {}
  /\ call' = [c \in Call |-> None]
  /\ ledger' = [j \in Job |-> [a \in Attempt |->
                 IF ledger[j][a] = "sent" THEN "lost" ELSE ledger[j][a]]]
  /\ hook' = [h \in Hook |-> None]
  /\ client' = [p \in Client |-> None]
  /\ RuntimeRestart
  /\ UNCHANGED <<job, artifact, cut, deliveries>>

Tick ==
  /\ TickStep
  /\ UNCHANGED <<runtimeVars, hookVars, apiVars, crashes>>

CallActs(c) ==
  /\ CallStep(c)
  /\ UNCHANGED <<runtimeVars, hookVars, apiVars, crashes>>

HookActs(h) ==
  /\ HookStep(h)
  /\ UNCHANGED <<runtimeVars, apiVars, crashes>>

ClientActs(p) ==
  /\ \/ ClientStep(p)
     \/ RequestSelection(p)
     \/ LockTimeouts /\ (CreateLockedOut(p) \/ SelectLockedOut(p))
  /\ UNCHANGED <<runtimeVars, workerVars, hookVars, crashes>>

Switch ==
  /\ \E m \in ModesInUse : SwitchMode(m)
  /\ UNCHANGED <<storeVars, workerVars, hookVars, apiVars, crashes>>

Wakes(j) ==
  /\ WakeReached(j)
  /\ UNCHANGED <<runtimeVars, workerVars, hookVars, apiVars, crashes>>

Expires(j) ==
  /\ DeadlineReached(j)
  /\ UNCHANGED <<runtimeVars, workerVars, hookVars, apiVars, crashes>>

Provider(j, a) ==
  /\ ProviderFinishes(j, a)
  /\ UNCHANGED <<runtimeVars, hookVars, apiVars, crashes>>

Next ==
  \/ Tick
  \/ \E c \in Call : CallActs(c)
  \/ \E h \in Hook : HookActs(h)
  \/ \E p \in Client : ClientActs(p)
  \/ Switch
  \/ \E j \in Job : Wakes(j) \/ Expires(j)
  \/ \E j \in Job, a \in Attempt : Provider(j, a)
  \/ Crash

Spec == Init /\ [][Next]_vars

(***************************************************************************)
(* The event loop runs every coroutine that can run, every provider call   *)
(* returns or times out, and time passes.  Nothing is assumed of the       *)
(* providers: a task may be pending for ever.                              *)
(***************************************************************************)
Fairness ==
  /\ WF_vars(Tick)
  /\ \A c \in Call : WF_vars(CallActs(c))
  /\ \A j \in Job : WF_vars(Wakes(j)) /\ WF_vars(Expires(j))
=============================================================================
