------------------------------- MODULE Worker -------------------------------
(***************************************************************************)
(* GenerationWorker (app/worker.py): one coroutine that ticks, and the     *)
(* provider calls it fans out.                                             *)
(*                                                                         *)
(* A tick does the first of these that finds work: recover one SUBMITTING  *)
(* job, claim due jobs and submit them, expire one attempt, poll.  Submits *)
(* and polls are coroutines under asyncio.gather, which waits for all of   *)
(* them unless one raises: then the tick ends at once, and the others run  *)
(* on detached while the next tick begins.                                 *)
(*                                                                         *)
(* ledger is the providers' side, external to the program: what became of  *)
(* each submission.  It is what the properties compare the rows with.      *)
(***************************************************************************)
EXTENDS Store, Anchor

CONSTANTS
  Worker,         \* the ticking coroutine, as a holder of transactions
  Concurrency,    \* GENERATION_CONCURRENCY
  AttemptCap,     \* bound: submissions of one job
  Generations,    \* bound: coroutines of one kind alive for one job
  LockTimeouts    \* whether a commit may find the database locked

Call == {"submit", "poll"} \X Job \X Generations
Attempt == 1 .. AttemptCap

ASSUME WorkerAssumption ==
  /\ Worker \in Proc
  /\ Concurrency \in Nat
  /\ AttemptCap \in Nat
  /\ Generations \subseteq Nat
  /\ LockTimeouts \in BOOLEAN
  /\ Call \subseteq Proc
  /\ Worker \notin Call

JobOf(c) == c[2]

LedgerState ==
  {"unsent",     \* not submitted
   "sent",       \* the submit call is out
   "rejected",   \* the call came back: nothing was created
   "lost",       \* nobody will learn whether a task was created
   "running", "succeeded", "failed", "retryable"}   \* a task, and its outcome

VARIABLES
  phase,    \* where the tick is
  gather,   \* the calls the tick waits for
  call,     \* the attempt each running call is about, None when idle
  ledger    \* per job and attempt, the provider's side

workerVars == <<phase, gather, call, ledger>>

Phase == {"tick", "recovering", "claim", "claiming", "expire", "expiring",
          "poll", "gather"}

WorkerTypeOK ==
  /\ phase \in Phase
  /\ gather \subseteq Call
  /\ call \in [Call -> Nat \cup {None}]
  /\ ledger \in [Job -> [Attempt -> LedgerState]]

WorkerInit ==
  /\ phase = "tick"
  /\ gather = {}
  /\ call = [c \in Call |-> None]
  /\ ledger = [j \in Job |-> [a \in Attempt |->
                IF a > Backlog[j].attempts THEN "unsent"
                ELSE IF Backlog[j].status = "SUCCEEDED" THEN "succeeded"
                ELSE "rejected"]]

\* Nothing of the worker changes but the phase.
Goto(next) ==
  /\ phase' = next
  /\ UNCHANGED <<gather, call, ledger>>

----------------------------------------------------------------------------
(***************************************************************************)
(* _recover_one_submitting                                                 *)
(***************************************************************************)
Submitting == {j \in Job : job[j].status = "SUBMITTING"}

NothingToRecover ==
  /\ phase = "tick"
  /\ Submitting = {}
  /\ Goto("claim")
  /\ UNCHANGED storeVars

RecoverRead ==
  /\ phase = "tick"
  /\ Submitting # {}
  /\ Open(Worker, FailTx(First(Submitting)))
  /\ Goto("recovering")

RecoverCommit ==
  /\ phase = "recovering"
  /\ Commit(Worker)
  /\ Goto("tick")

----------------------------------------------------------------------------
(***************************************************************************)
(* _claim_due_submissions.  The budget is what the in-flight jobs leave of *)
(* the concurrency.  The walk goes through all due jobs in creation order, *)
(* page after page, until it has filled the budget: jobs the anchor gate   *)
(* holds back and jobs that lost their source take no share of it.         *)
(***************************************************************************)
Due == {j \in Job : job[j].status \in Claimable /\ job[j].wake # "ahead"}

Orphaned(j) ==
  job[j].kind = "VIDEO" /\ ~ \E i \in artifact : i = job[j].source

AnchorStatuses ==
  {job[k].status : k \in {i \in Job : /\ job[i].cut = AnchorOrder
                                      /\ job[i].kind = "IMAGE"}}

\* Mutant of AnchorDecision: a failed anchor job releases the gate at once.
AnchorDecisionEager(j) ==
  DecideAnchor(job[j].cut, AnchorOrder \in Cut,
               cut[AnchorOrder].image # None,
               FALSE,
               "FAILED" \in AnchorStatuses)

\* _resolve_anchor_reference
AnchorDecision(j) ==
  DecideAnchor(job[j].cut, AnchorOrder \in Cut,
               cut[AnchorOrder].image # None,
               AnchorStatuses \cap Active # {},
               "FAILED" \in AnchorStatuses)

Ready(j) ==
  /\ ~Orphaned(j)
  /\ job[j].kind = "IMAGE" => AnchorDecision(j) # "WAIT"

\* _count_in_flight
InFlightJobs == {j \in Job : job[j].status \in InFlight}

\* Mutant of Budget: the limit is per tick, not on the jobs in flight.
BudgetPerTick == Concurrency

Budget == IF Cardinality(InFlightJobs) >= Concurrency THEN 0
          ELSE Concurrency - Cardinality(InFlightJobs)

\* Mutant of Visited: one capped fetch instead of the keyset walk.
VisitedOneFetch ==
  {j \in Due : Cardinality({k \in Due : k < j}) < Budget}

\* The due jobs the walk looks at: fewer than a budget of ready ones before.
Visited ==
  {j \in Due : Cardinality({k \in Due : k < j /\ Ready(k)}) < Budget}

Claimed(j) ==
  [job[j] EXCEPT
     !.status = "SUBMITTING",
     !.reference = IF job[j].kind = "IMAGE" /\ AnchorDecision(j) = "REFERENCE"
                   THEN cut[AnchorOrder].image ELSE @,
     !.attempts = @ + 1,
     !.task = None,
     !.wake = "null",
     !.deadline = "null"]

\* The pending write of the claim: an UPDATE of every job it visits and does
\* not skip.
ClaimTx ==
  LET orphans == {j \in Visited : Orphaned(j)}
      ready == {j \in Visited : Ready(j)}
      want(j) == IF j \in orphans THEN Failed(job[j]) ELSE Claimed(j)
  IN [Closed EXCEPT
        !.open = TRUE,
        !.cols = [j \in Job |-> IF j \in orphans \cup ready
                                THEN Dirty(job[j], want(j)) ELSE {}],
        !.set = [j \in Job |-> IF j \in orphans \cup ready
                               THEN want(j) ELSE NoRow]]

Touched == {j \in Visited : Orphaned(j) \/ Ready(j)}

NothingToClaim ==
  /\ phase = "claim"
  /\ Touched = {}
  /\ Goto("expire")
  /\ UNCHANGED storeVars

ClaimRead ==
  /\ phase = "claim"
  /\ Touched # {}
  /\ \A j \in Touched : job[j].attempts < AttemptCap
  /\ Open(Worker, ClaimTx)
  /\ Goto("claiming")

Idle(kind, j) == {g \in Generations : call[<<kind, j, g>>] = None}

\* The call a new coroutine of this kind for this job becomes.
NewCall(kind, j) == <<kind, j, First(Idle(kind, j))>>

\* Mutant of Gather: the tick starts the coroutines and does not wait.
GatherDetached(kind, jobs, attempt) ==
  /\ \A j \in jobs : Idle(kind, j) # {}
  /\ LET started == {NewCall(kind, j) : j \in jobs} IN
     call' = [c \in Call |-> IF c \in started THEN attempt[JobOf(c)]
                                               ELSE call[c]]
  /\ gather' = {}
  /\ phase' = "tick"

\* asyncio.gather over one coroutine per job.
Gather(kind, jobs, attempt) ==
  /\ \A j \in jobs : Idle(kind, j) # {}
  /\ LET started == {NewCall(kind, j) : j \in jobs} IN
     /\ gather' = started
     /\ call' = [c \in Call |-> IF c \in started THEN attempt[JobOf(c)]
                                                 ELSE call[c]]
  /\ phase' = "gather"

Requests == {j \in Job : tx[Worker].set[j].status = "SUBMITTING"}

ClaimCommit ==
  /\ phase = "claiming"
  /\ Requests # {}
  /\ Commit(Worker)
  /\ LET attempt == [j \in Job |-> tx[Worker].set[j].attempts] IN
     /\ Gather("submit", Requests, attempt)
     /\ ledger' = [j \in Job |->
                    IF j \in Requests
                    THEN [ledger[j] EXCEPT ![attempt[j]] = "sent"]
                    ELSE ledger[j]]

\* Only jobs without their source image were found: they fail, none runs.
ClaimOnlyOrphans ==
  /\ phase = "claiming"
  /\ Requests = {}
  /\ Commit(Worker)
  /\ Goto("tick")

----------------------------------------------------------------------------
(***************************************************************************)
(* _expire_one_attempt                                                     *)
(***************************************************************************)
Overdue ==
  {j \in Job : job[j].status = "PROCESSING" /\ job[j].deadline = "reached"}

NothingToExpire ==
  /\ phase = "expire"
  /\ Overdue = {}
  /\ Goto("poll")
  /\ UNCHANGED storeVars

ExpireRead ==
  /\ phase = "expire"
  /\ \E j \in Overdue : Open(Worker, RetryTx(j))
  /\ Goto("expiring")

ExpireCommit ==
  /\ phase = "expiring"
  /\ Commit(Worker)
  /\ Goto("tick")

\* _run: an exception out of run_once is logged and the loop goes on.
WorkerRollback ==
  /\ phase \in {"recovering", "claiming", "expiring"}
  /\ Conflict(Worker) \/ (LockTimeouts /\ LockedOut(Worker))
  /\ Goto("tick")

----------------------------------------------------------------------------
(***************************************************************************)
(* _claim_due_polls: up to the concurrency of the jobs whose poll is due.  *)
(***************************************************************************)
PollDue == {j \in Job : /\ job[j].status = "PROCESSING"
                        /\ job[j].task # None
                        /\ job[j].wake # "ahead"}

NothingToPoll ==
  /\ phase = "poll"
  /\ PollDue = {}
  /\ Goto("tick")
  /\ UNCHANGED storeVars

PollStart ==
  /\ phase = "poll"
  /\ PollDue # {}
  /\ \E polled \in SUBSET PollDue :
       /\ polled # {}
       /\ Cardinality(polled) <= Concurrency
       /\ polled = PollDue \/ Cardinality(polled) = Concurrency
       /\ Gather("poll", polled, [j \in Job |-> job[j].task])
  /\ UNCHANGED <<ledger, storeVars>>

----------------------------------------------------------------------------
(***************************************************************************)
(* The coroutines.  A call that came back reads its job; if the job is no  *)
(* longer in the status the outcome is for, the call ends without a write. *)
(***************************************************************************)
\* _provider_for: the provider of the mode the job was created in.
Routable(j) == Available(job[j].mode)

Returning(c, kind) ==
  /\ c[1] = kind
  /\ call[c] # None
  /\ ~tx[c].open
  /\ Routable(JobOf(c))

CallEnds(c) ==
  /\ call' = [call EXCEPT ![c] = None]
  /\ gather' = gather \ {c}
  /\ phase' = IF phase = "gather" /\ gather \subseteq {c} THEN "tick"
                                                          ELSE phase

\* An exception reaches gather: the siblings stay alive, unwaited for.
CallRaises(c) ==
  /\ call' = [call EXCEPT ![c] = None]
  /\ IF c \in gather
     THEN gather' = {} /\ phase' = "tick"
     ELSE UNCHANGED <<gather, phase>>

ReadThen(c, expected, t) ==
  IF job[JobOf(c)].status = expected
  THEN Open(c, t) /\ UNCHANGED <<call, gather, phase>>
  ELSE CallEnds(c) /\ UNCHANGED storeVars

Record(c, outcome) ==
  ledger' = [ledger EXCEPT ![JobOf(c)][call[c]] = outcome]

\* The else branch of _submit.
ProcessingTx(j, task) ==
  Update(j, [job[j] EXCEPT !.status = "PROCESSING", !.task = task,
                           !.wake = "ahead", !.deadline = "ahead"],
         {"wake", "deadline"})

SubmitAccepted(c) ==
  /\ Returning(c, "submit")
  /\ Record(c, "running")
  /\ ReadThen(c, "SUBMITTING", ProcessingTx(JobOf(c), call[c]))

\* RetryableProviderError: the connection failed, 429 or 5xx.
SubmitRejected(c) ==
  /\ Returning(c, "submit")
  /\ Record(c, "rejected")
  /\ ReadThen(c, "SUBMITTING", RetryTx(JobOf(c)))

\* Mutant of SubmitRefused: a read timeout is taken for a rejection.
SubmitRefusedRetried(c) ==
  /\ Returning(c, "submit")
  /\ Record(c, "lost")
  /\ ReadThen(c, "SUBMITTING", RetryTx(JobOf(c)))

\* SubmissionUncertainError and PermanentProviderError: after either, a task
\* may exist that nobody will hear of again.
SubmitRefused(c) ==
  /\ Returning(c, "submit")
  /\ Record(c, "lost")
  /\ ReadThen(c, "SUBMITTING", FailTx(JobOf(c)))

\* What the provider answers about the task of this call.
Verdict(c) == ledger[JobOf(c)][call[c]]

\* Still pending, or a transient error of the poll itself.
PollUnsettled(c) ==
  /\ Returning(c, "poll")
  /\ ReadThen(c, "PROCESSING", RescheduleTx(JobOf(c)))
  /\ UNCHANGED ledger

\* The task failed for good, the result has no URL, or the poll itself got a
\* permanent error, which needs nothing of the task.
PollFailed(c) ==
  /\ Returning(c, "poll")
  /\ ReadThen(c, "PROCESSING", FailTx(JobOf(c)))
  /\ UNCHANGED ledger

PollRetryable(c) ==
  /\ Returning(c, "poll")
  /\ Verdict(c) = "retryable"
  /\ ReadThen(c, "PROCESSING", RetryTx(JobOf(c)))
  /\ UNCHANGED ledger

PollSucceeded(c) ==
  /\ Returning(c, "poll")
  /\ Verdict(c) = "succeeded"
  /\ ReadThen(c, "PROCESSING", CompleteTx(JobOf(c)))
  /\ UNCHANGED ledger

\* _provider_for: no live provider in this process.
Unroutable(c) ==
  /\ call[c] # None
  /\ ~tx[c].open
  /\ ~Routable(JobOf(c))
  /\ IF c[1] = "submit" THEN Record(c, "rejected") ELSE UNCHANGED ledger
  /\ CallRaises(c)
  /\ UNCHANGED storeVars

CallCommit(c) ==
  /\ Commit(c)
  /\ CallEnds(c)
  /\ UNCHANGED ledger

CallRollback(c) ==
  /\ Conflict(c) \/ (LockTimeouts /\ LockedOut(c))
  /\ CallRaises(c)
  /\ UNCHANGED ledger

----------------------------------------------------------------------------
\* External: the provider brings a task to its outcome.
ProviderFinishes(j, a) ==
  /\ ledger[j][a] = "running"
  /\ \E outcome \in {"succeeded", "failed", "retryable"} :
       ledger' = [ledger EXCEPT ![j][a] = outcome]
  /\ UNCHANGED <<phase, gather, call, storeVars>>

CallReturns(c) ==
  \/ SubmitAccepted(c)
  \/ SubmitRejected(c)
  \/ SubmitRefused(c)
  \/ PollUnsettled(c)
  \/ PollFailed(c)
  \/ PollRetryable(c)
  \/ PollSucceeded(c)
  \/ Unroutable(c)

CallStep(c) == CallReturns(c) \/ CallCommit(c) \/ CallRollback(c)

TickStep ==
  \/ NothingToRecover \/ RecoverRead \/ RecoverCommit
  \/ NothingToClaim \/ ClaimRead \/ ClaimCommit \/ ClaimOnlyOrphans
  \/ NothingToExpire \/ ExpireRead \/ ExpireCommit
  \/ NothingToPoll \/ PollStart
  \/ WorkerRollback
=============================================================================
