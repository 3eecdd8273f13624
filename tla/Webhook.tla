------------------------------ MODULE Webhook ------------------------------
(***************************************************************************)
(* The provider callback route (app/webhooks.py).  A delivery first looks  *)
(* the task id up among the PROCESSING jobs, in a session of its own, and  *)
(* then hands the job's id, not the task's, to apply_external_result: the  *)
(* same transitions the polls drive, in another coroutine.                 *)
(*                                                                         *)
(* Deliveries are the provider's: a task that has its outcome may be       *)
(* delivered at any time, again, or never.                                 *)
(***************************************************************************)
EXTENDS Worker

CONSTANTS
  Hook,           \* deliveries being handled at once
  MaxDeliveries   \* bound: deliveries in a run

ASSUME WebhookAssumption ==
  /\ Hook \subseteq Proc \ ({Worker} \cup Call)
  /\ MaxDeliveries \in Nat

VARIABLES
  hook,           \* per handler, the job and attempt it was found for
  deliveries      \* how many were received

hookVars == <<hook, deliveries>>

Found == [job : Job, attempt : Attempt]

HookTypeOK ==
  /\ hook \in [Hook -> Found \cup {None}]
  /\ deliveries \in Nat

HookInit ==
  /\ hook = [h \in Hook |-> None]
  /\ deliveries = 0

\* What the provider knows to deliver.
Settled(j, a) == ledger[j][a] \in {"succeeded", "failed", "retryable"}

\* _processing_job_id: the row whose external_task_id is this task.
Matches(j, a) == job[j].status = "PROCESSING" /\ job[j].task = a

Receive(h) ==
  /\ hook[h] = None
  /\ deliveries < MaxDeliveries
  /\ deliveries' = deliveries + 1
  /\ \E j \in Job, a \in Attempt :
       /\ Settled(j, a)
       /\ hook' = [hook EXCEPT ![h] = IF Matches(j, a)
                                      THEN [job |-> j, attempt |-> a]
                                      ELSE None]
  /\ UNCHANGED <<storeVars, workerVars>>

Outcome(h) == ledger[hook[h].job][hook[h].attempt]

OutcomeTx(h) ==
  CASE Outcome(h) = "succeeded" -> CompleteTx(hook[h].job)
    [] Outcome(h) = "retryable" -> RetryTx(hook[h].job)
    [] OTHER -> FailTx(hook[h].job)

Done(h) == hook' = [hook EXCEPT ![h] = None]

\* The guard of apply_external_result, in its own transaction.
StillProcessing(h) == job[hook[h].job].status = "PROCESSING"

Apply(h) ==
  /\ hook[h] # None
  /\ ~tx[h].open
  /\ IF StillProcessing(h)
     THEN Open(h, OutcomeTx(h)) /\ UNCHANGED hook
     ELSE Done(h) /\ UNCHANGED storeVars
  /\ UNCHANGED <<deliveries, workerVars>>

HookCommit(h) ==
  /\ Commit(h)
  /\ Done(h)
  /\ UNCHANGED <<deliveries, workerVars>>

\* An IntegrityError is answered "ignored", a lock timeout is a 500.
HookRollback(h) ==
  /\ Conflict(h) \/ (LockTimeouts /\ LockedOut(h))
  /\ Done(h)
  /\ UNCHANGED <<deliveries, workerVars>>

HookStep(h) == Receive(h) \/ Apply(h) \/ HookCommit(h) \/ HookRollback(h)
=============================================================================
