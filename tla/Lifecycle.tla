----------------------------- MODULE Lifecycle -----------------------------
(***************************************************************************)
(* What a generation job promises, whatever drives it: the transition      *)
(* table of the README, per job.  Several jobs may move in one step, since *)
(* one transaction claims several.                                         *)
(***************************************************************************)
EXTENDS Integers

CONSTANTS Job, MaxAttempts, InitialStatus, InitialAttempts

VARIABLES status, attempts

Status == {"ABSENT", "QUEUED", "SUBMITTING", "PROCESSING", "RETRY_WAIT",
           "SUCCEEDED", "FAILED"}

Init ==
  /\ status = InitialStatus
  /\ attempts = InitialAttempts

\* The job moves from a status of `from` to `to` without using an attempt.
Moves(j, from, to) ==
  /\ status[j] \in from
  /\ status'[j] = to
  /\ attempts'[j] = attempts[j]

Create(j) == Moves(j, {"ABSENT"}, "QUEUED")

\* A submission uses an attempt, and there is one left.
Submit(j) ==
  /\ status[j] \in {"QUEUED", "RETRY_WAIT"}
  /\ attempts[j] < MaxAttempts
  /\ status'[j] = "SUBMITTING"
  /\ attempts'[j] = attempts[j] + 1

LoseSource(j) == Moves(j, {"QUEUED", "RETRY_WAIT"}, "FAILED")

Accept(j) == Moves(j, {"SUBMITTING"}, "PROCESSING")

Retry(j) ==
  /\ attempts[j] < MaxAttempts
  /\ Moves(j, {"SUBMITTING", "PROCESSING"}, "RETRY_WAIT")

Fail(j) == Moves(j, {"SUBMITTING", "PROCESSING"}, "FAILED")

Succeed(j) == Moves(j, {"PROCESSING"}, "SUCCEEDED")

Stay(j) == status'[j] = status[j] /\ attempts'[j] = attempts[j]

Step(j) ==
  \/ Create(j) \/ Submit(j) \/ LoseSource(j) \/ Accept(j)
  \/ Retry(j) \/ Fail(j) \/ Succeed(j) \/ Stay(j)

Next ==
  /\ status' \in [Job -> Status]
  /\ attempts' \in [Job -> 0 .. MaxAttempts]
  /\ \A j \in Job : Step(j)

Spec == Init /\ [][Next]_<<status, attempts>>
=============================================================================
