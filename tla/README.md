# A TLA+ model of the prompt-to-animation application

The repository is a prompt-to-animation application: a FastAPI backend over
SQLite that turns a prompt into a scene of six cuts, generates an image and a
video for every cut through an asynchronous provider, and a React front end that
shows the scene, offers what can be done next and plays the result.  Its own logic
is in four places, each modelled here: the generation queue (jobs as database rows,
one worker coroutine that moves them, provider callbacks that move them too, and
requests that create jobs and select results), the creation of a scene from what a
language model drafts, the page that follows the rows by polling, and the player
that plays the selected videos in a row.

Paths below are relative to `src/backend/app/` unless they start with `src/`.

## 1. Inventory

| component | state | operations | interacts with |
|---|---|---|---|
| database (`models.py`, `core/db.py`) | rows of `generation_jobs`, `cuts`, `cut_images`, `cut_videos`; unique indexes | transaction of a handler | everything |
| worker (`worker.py`) | where the tick is, the coroutines under `gather` | `run_once`: recover, claim, submit, expire, poll; `apply_external_result` | database, providers, anchor gate, registry |
| anchor gate (`anchor.py`) | none, a pure decision | `decide_anchor` | worker, scene response |
| callbacks (`webhooks.py`) | per delivery, the job it was found for | `apply_webhook` | database, worker's transitions |
| requests (`generations.py`, `batches.py`) | per request, the cuts still to do | create jobs for a cut or a scene, select an image or a video | database, runtime mode |
| runtime (`runtime.py`, `core/config.py`) | the mode, whether live providers exist | `set`, `generation_provider` | requests, worker |
| providers (`providers/`) | the tasks, at the provider | `submit`, `poll`, callback delivery | worker, callbacks |
| scene drafts (`scenes.py`, `prompting.py`, `openai_scene.py`) | per request, its attempt and the draft | `create_scene` with its retry loop and transaction | scene provider, registry, database |
| scene response (`scenes.py`, `schemas.py`) | none | four reads, the explanation of the anchor gate | database, anchor gate |
| workspace, cut cards, batch controls (`src/frontend/src/features/`) | cached scene, the fetch, the requests under way | polling, generate, select | HTTP API, scene response |
| player (`src/frontend/src/features/player/`) | index, playing, completed, play attempt, the element held | play, pause, restart, advance, fail, reset | scene data, video element |
| errors, logging, CORS, static files, migrations | none of interest | formatting, I/O | |

What is hard in it: a handler reads before it writes and the reads hold no lock
(`webhooks.py:104-107` says so of one case), so any two of worker, callbacks and
requests can interleave; the provider answers late, twice or never; the process
can die between two commits; a coroutine that raises detaches its siblings from
the tick.  On the page, answers and fetches of different ages replace one scene, a
fetch reads four tables while they change, and an answer may be lost; in the player
promises, media events and new selections of different ages meet one element.
`PROJECT.json` lists the hazards at their lines, with the properties
that would catch each.

What makes each correct: a job ends, and when it says SUCCEEDED it has its
artifact; it is submitted no more than `max_attempts` times and never again after
a submission of unknown outcome; no more than the configured number are in
flight; a cut has one active job of a kind; what a cut selects, and what a video
starts from, was generated for that cut (and in that mode); an image runs without
the anchor only when the anchor failed for good, and a response explains every wait for
it.  A scene is stored with all its cuts or not at all, and
the answer says which.  A page at rest shows the rows as they are.  In the
player nothing plays that its button would not pause, and no cut is skipped.  Where
the code does not keep what its documents promise, section 3 says so.

## 2. Modules

    Runtime       mode and registry
    Store         rows, pending writes, commit, rollback    EXTENDS Runtime
    Anchor        decide_anchor
    Worker        the tick and its provider calls           EXTENDS Store, Anchor
    Webhook       callback handlers                         EXTENDS Worker
    Api           request handlers                          EXTENDS Store
    System        composition, crash, fairness              EXTENDS Webhook, Api
    Lifecycle     the job life cycle as documented, on its own
    Board         the rows as their readers see them, on its own
    Properties    what is to hold; the refinements of Lifecycle and Board
    MCSystem      backlogs and the process set for TLC
    SceneView     the backend and a request that reads the scene
                                                          EXTENDS Properties
    MCSceneView   the two together, for TLC
    SystemProofs  theorems: types and rows
    SceneViewProofs   theorem: the scene response         EXTENDS SystemProofs
    LifecycleProofs   theorems: what a worker that is alone guarantees, and the
                      refinement of Lifecycle             EXTENDS SystemProofs
    AttemptProofs     theorem: attempts with every writer of a job
                                                          EXTENDS LifecycleProofs
    BoardProofs       theorems: the refinement of Board, the anchor gate under
                      requests                            EXTENDS LifecycleProofs

    SceneDraft        POST /api/scenes                      EXTENDS Runtime
    MCSceneDraft      the shapes of drafts for TLC
    SceneDraftProofs  theorems

    Workspace     the page of a scene                       EXTENDS Board
    MCWorkspace   scenes for TLC
    WorkspaceProofs   theorems

    Player        the sequence player; its cfg needs no MC module
    PlayerProofs  theorems

`Board` is the seam between the backend and the page.  It is an abstract
specification of the rows: jobs are created, end, and leave artifacts; selections are
made among those.  The backend implements it (`FollowsBoard`, with `ShownRow` as the
refinement mapping: the four active statuses are one, an artifact is the success of
its job), and the page is modelled over it.

**Transactions.**  Every handler is `async with session.begin()`: it reads,
decides, assigns, commits.  The driver issues BEGIN at the first INSERT or
UPDATE, the UPDATE names the columns whose value differs from the value read,
and nothing compares versions.  So a handler is two steps: a read step computes
a `Transaction` record from the rows as they are and stores it in `tx[p]`;
`Commit(p)` merges it into the rows as they have become, `Conflict(p)` rolls it
back if a unique index refuses it, `LockedOut(p)` if the lock was not free within
`busy_timeout`.  Each process of the model is a coroutine: the tick (`Worker`),
a provider call (a member of `Call`), a callback handler (`Hook`), a request
(`Client`).  The guard of a handler (`status is PROCESSING`, ...) is evaluated
in its read step, as in the code.

**Rows.**  A row keeps the columns the queue's logic reads: status, cut, kind,
mode, version, source, reference, attempts, task, and the two timestamps as
`"null"`, `"ahead"`, `"reached"`.  An artifact is identified by the job that
produced it (`generation_job_id` is unique).  `task` is the number of the attempt
whose task id the row holds.  Row numbers are the order `(created_at, id)` by
which the worker picks; `created_at` has a resolution of a second, so which of two
jobs of a batch comes first is open, and the backlogs put the anchor both before
and after the images that wait for it.  Left out: error codes and texts, URLs, prompts,
`completed_at`, `generation_batches`.  Nothing deletes rows, so nothing here does
(the branches for a missing job or cut are never taken).

**Worker.**  `phase` is the point of `run_once`; `gather` the coroutines the tick
waits for; `call[c]` the attempt a coroutine is about.  `CallEnds` is a normal
return, `CallRaises` an exception that reaches `gather`: the tick ends and the
others stay alive.  The claim is one transaction over all rows it visits:
`Visited` is the keyset walk, a due job being looked at as long as fewer than a
budget of ready ones come before it.  `ledger` is the provider's side (external):
what became of each submission.  It is written when a submission goes out or is
answered and when the provider finishes a task; the properties compare rows with
it.  `SubmissionUncertainError` and `PermanentProviderError` are one action: both
fail the job, and after either a task may exist nobody hears of.  A transient poll
error and an answer PENDING are one action: both reschedule.

**Callbacks.**  `Receive` is the lookup by task id among PROCESSING jobs, `Apply`
the second transaction, which knows the job id only.  A delivery of a settled task
may come at any time, repeatedly or never.

**Requests.**  A batch is one transaction per cut under the mode read when it
arrived; a cut refused (`AppError`, which the unique indexes are turned into) is
skipped, another exception ends the request.

**The scene response.**  `SceneView` adds to the backend one request that reads the
scene: `ReadCuts` and `ReadJobs` are the two SELECTs the anchor gate of the response is
fed from, with any steps of the backend between them.  `anchorSeen` is what the request
keeps of the cuts.  `Told` is the jobs the response would mark, were it to read the jobs
now; `HeldBack` the jobs the claimer would skip now.

**Scene creation.**  A request is a record: its stage in `create_scene`, the
provider it was given, the attempt, the draft and the answer.  A draft is the sequence
of its cuts' orders; the shapes a model comes up with are a constant.  One action per
way an attempt ends (`DraftAccepted`, `DraftRejected`, `CallUnavailable`,
`CallFailed`), `CallAgain` after the sleep, then the two flushes, the commit and the
answer.  The first INSERT takes the write lock and a lock that is not had, or a commit
that is refused, rolls back.  `told` is the provider's record (external).  The rows of
scenes are a set and the cuts of each; the queue's `Cut` is not derived from it.

**The page.**  `shown` is the scene in the cache, `fetch` the read under way (what
each of the four SELECTs of `get_scene` has seen so far), `press` the request behind
every button: sent, in effect and answered, waiting for the refreshed scene.  The cache
is TanStack Query, external: one fetch of a scene at a time; `invalidateQueries`
discards the one under way, starts another and is awaited by the mutation, whose
button stays disabled until then.  `Button` says which buttons of which cards are in
use.  A read that fails and is retried (`retry: 1`) is
one that begins again.  `unheard` notes that an answer was lost and no read begun since
is shown: on an error the page refreshes nothing, by design, so the properties except
that interval.

**The player.**  `state` is what was rendered, `next` what the setters have made of it
since, `effects` the effects of the last render that have not run.  React is external:
clicks and new scene data render and run their effects at once, media events,
rejections and effects leave their updates for a later task (React 19: the lanes of
discrete events and of external stores are synchronous, those of other events not, and
updates that wait are rendered together).  `media` is the element, paused, playing or
at its end; `endDue` its `ended` event on the way; `promises` the open promises of
`play()`, of which only the latest attempt and the older ones are told apart.
Assumed of the environment: nobody but the player pauses the element; a clip is longer
than a render waits; two clicks take longer than an event that is queued.

**Crash.**  `Crash` rolls back what is open, forgets every coroutine, handler and
the runtime mode, and turns a submission that was out into `"lost"`.

## 3. Runs

Every action of every next-state relation fires in the passing runs.

| run | module, instance | checks |
|---|---|---|
| `Faults` | `MCSceneView`: a failed anchor requested again before two images that wait for it, one live and the keys lost, 2 attempts, limit 1, one crash, a reader of the scene; fair | `TypeOK`, `AttemptBound`, `NoBlindResubmit`, `ConcurrencyBound`, `FollowsLifecycle`, `JobsEnd`, `HeldIsExplained`, `UnanchoredOnlyAfterFailure` |
| `Duplicates` | `MCSystem`: one image, two handlers, two deliveries, locked and late commits, one crash | `SucceededHasArtifact`, `OverrunIsBounded`, `Integrity` |
| `Requests` | `MCSystem`: two clients, two cuts, a malformed row, both modes, locked commits | `SourceOfOwnCutAndMode`, `SelectionOfOwnCut`, `FollowsBoard` |
| `Scenes` | `MCSceneDraft`: two requests, three attempts, three shapes, both modes, one crash; fair | `SceneDraftTypeOK`, `StoredSceneIsWhole`, `AnswerTells`, `OneProviderAskedInMeasure`, `RequestsAnswered` |
| `Page` | `MCWorkspace`: a cut with an image, all its buttons and the video batch, two requests out, lost answers; fair | `WorkspaceTypeOK`, `ShowsWhatWasRequested`, `RestsOnRows`, `EndsAreShown` |
| `Player` | `Player`: six cuts, two videos, two changes of selections; fair | `PlayerTypeOK`, `PlaysOnlyUnderPause`, `NoCutSkipped`, `PlayedOn` |
| `CallbacksFinal` | `MCSystem`: one image, two handlers, two deliveries | violates `TerminalIsFinal` |
| `EarlyRecovery` | `MCSystem`: a mock video and a live image without keys, limit 2 | violates `RecoversOnlyOrphanedSubmits` |
| `LateRetryOfLost` | `MCSystem`: one image, one handler, one delivery | violates `NoBlindResubmit` |
| `StaleVideoSelection` | `MCSystem`: two images and two videos of a cut, one client | violates `VideoOfSelectedImage` |
| `StaleSelectionShown` | `MCWorkspace`: a new scene of one cut | violates `RestsOnSelections` |
| `EndedAfterReset` | `Player`: six cuts, one change of selections | violates `StopsOnReset` |

Further instances are kept as configurations beside these runs (`tlc -config X.cfg M`).
The first finds no error, each of the others a violation:

| configuration | module, instance | checks |
|---|---|---|
| `AnchorAskedAgain` | `MCSceneView`: a failed anchor, an image of cut 2 to retry, one client that asks for images, one reader | `HeldIsExplained`, `UnanchoredOnlyAfterFailure` hold |
| `DetachedCall` | `MCSystem`: a video and an image, limit 2, locked commits, no callbacks | violates `TerminalIsFinal` |
| `LateRetry` | `MCSystem`: one image, one handler, one delivery | violates `AttemptBound` |
| `LateRefusal` | `MCSystem`: one cut, two clients | violates `RefusedBesideActive` |
| `WaitTold` | `MCSceneView`: the images of two cuts, one reader | violates `WaitIsTrue` |
| `MixedModeAnchor` | `MCSystem`: a live image behind a mock anchor | violates `ReferenceOfOwnMode` |
| `VideoOfOldSelection` | `MCWorkspace`: two cuts, three images, two requests out | violates `VideoOfImageAskedFor` |
| `RestartWithoutClip` | `Player`: six cuts, one change of selections | violates `PlaysUnderPause` |

Deadlock is checked where the worker ticks for ever; `Scenes`, `Page` and `Player`
switch it off, since there everything may have been answered, nobody may click and the
player may be gone.

The violations are disagreements between the code and what its documents, comments
or tests say; for the runs, `PROJECT.json` quotes the lines.  In short:

- *TerminalIsFinal.*  In `CallbacksFinal` the expiry reads a PROCESSING job, a callback
  completes it, the expiry commits RETRY_WAIT over SUCCEEDED.  The job runs again, its
  second completion meets the artifact index, and it can end FAILED with the artifact in
  place and selected.  In `DetachedCall` no callback is needed: a commit that finds the
  database locked raises out of `asyncio.gather`, the tick ends under a second
  submission, the next tick declares that one's job FAILED, and the submission commits
  PROCESSING over it.  The property, and with it the documented life cycle
  (`FollowsLifecycle`), holds of a worker that waits for all its calls and is the only
  one to write outcomes; section 4 says exactly when.
- *RecoversOnlyOrphanedSubmits.*  A live job in a process without keys raises beside
  another submission; the next tick takes the other, still waiting for its answer, for
  the leftover of a restart.
- *AttemptBound, NoBlindResubmit.*  A commit may wait 5 s for the database
  (`core/db.py:34`), the first retry is due after 1 s (`core/config.py:28`).  A
  callback's RETRY_WAIT that is held back until the expiry's retry has been submitted
  puts attempt 2 of 2 back to waiting, and a third is submitted, even if the outcome of
  the second is not known; `src/README.md:309` and `:313` rule out either.  Only this order is dangerous, and it ends: `Duplicates`
  checks, and `AttemptProofs` proves, that a job is submitted at most once more for
  every coroutine that can hold such a retry (`OverrunIsBounded`).
- *RefusedBesideActive.*  Two requests read the same highest version, and the job of the
  first has ended when the second inserts.  The version index refuses it, and the test
  for the name of the other index matches its message too (`generations.py:169`): the
  answer is that a job is active, and none is, though `src/README.md:456` explains that
  answer by the partial index on active jobs alone.
- *WaitIsTrue.*  A response reads the cuts, the anchor is delivered, the response reads
  the jobs: it tells of a wait that is over, though `scenes.py:228` calls a gated job one
  that the claimer would skip.  The converse holds (`HeldIsExplained`),
  because the cuts are read first and no cut loses its image.
- *VideoOfSelectedImage.*  A video that finishes and a new image selection read
  the cut at the same time; each writes one of the two columns.  The same cause
  lets a finishing job replace a selection made between its read and its commit,
  which `src/README.md:470` rules out.
- *ReferenceOfOwnMode.*  A live image takes a mock anchor as its reference
  (`worker.py:301` compares no modes), though `src/README.md:99` says that combinations
  across modes are refused.
- *RestsOnSelections.*  The page reads the cuts, a job finishes and selects its
  result, the page reads the jobs: none is active any more, polling stops, and the
  selection is not shown until something else refreshes the scene.  What the page
  shows of jobs and artifacts is right in every such case (`RestsOnRows`), because
  `get_scene` reads the artifacts after the jobs.
- *VideoOfImageAskedFor.*  The answer to an older selection on one card, put over the
  scene after a selection on another card has landed, shows the latter's old image as
  selected until the refetch lands; a video asked for in that moment is made from the
  image the backend has, not from the one shown.  `src/README.md:466` fixes a video to
  the image selected when it is asked for, and the card keeps it from being asked for while
  its own selection is out (`CutCard.test.tsx:302`).
- *StopsOnReset.*  A clip that ends in the few milliseconds before new selections arrive
  has its update rendered together with them: the lineage effect resets the sequence,
  then the index effect, which still sees `playing`, starts it again.
- *PlaysUnderPause.*  When the last clip ends between the reset for new selections and
  its render, the sequence is completed at Cut 1.  A restart changes no index then, and
  the player waits under "Pause sequence" for a clip nobody started, where
  `SequencePlayer.test.tsx:448` expects a restart to play Cut 1.

**Bounds and why they are enough.**  `MaxJobs`, `NumCuts`, `AttemptCap`,
`Generations`, `MaxDeliveries`, `MaxCrashes`, `ModesInUse`, `LiveOptions`,
`RequestKinds` and the sizes of `Hook` and `Client` are bounds of the instances.
Two jobs are the fewest that compete for a budget of one; two attempts are the fewest
with a retry and a last one; two handlers and two deliveries cover a duplicate and
one for a later attempt; one crash meets every step.  The limit is 1 in the passing
runs: with it no call runs beside one that raises, which is what the limit 2 of
`EarlyRecovery` and `DetachedCall` is for.  `Faults` runs the worker without callbacks
and requests: what holds with all of them is checked in `Duplicates` and `Requests`, what
does not in the violations.  `AttemptCap` is above
`MaxAttempts`, and in `Duplicates` (2 attempts, 4 coroutines that can hold a retry,
`AttemptCap` 7) above the bound of `OverrunIsBounded`, so it is not what keeps either
true.  With one generation a
second coroutine of a kind for a job whose first is still detached is not started:
such a tick waits.

`Scenes`: `Post` two requests are what competes for the lock; three attempts, the
configured number, are a first, a middle and a last; the shapes are the right one, a
permutation and one too short (`Shapes`); `MaxRestarts` one crash.  `Page`: `MaxJobs`
leaves two jobs beside the image there is, so that two requests race; `Hands` is how
many requests are out at once, two being the fewest that answer out of order;
`AnswersLost` allows one lost answer until it is healed; `Button` are the buttons in
use.  A batch over one cut is the race of a batch with a card.  Cuts meet on the page
in the fetch, in the batch and in the answers of selections, which are whole scenes:
the passing run has one cut, the theorems hold for any number, and
`VideoOfOldSelection` has two.
`Player`: the six cuts of the program, and `MaxChanges` two changes of selections, so
that the second meets the effects of the first; two videos are a selection and another.

**Fairness.** `FairViewSpec` has weak fairness on the tick, on each provider call
and on the two timers of each job: the event loop runs whatever can run, the
HTTP client has timeouts of 30 s and time passes. Nothing is assumed of the
provider (a task may stay pending for ever, a callback may never come), of
requests or of crashes. `JobsEnd` says that from some time on every job there is
has ended, which without new requests is that each ends for good. It needs a
commit that is not locked out for ever, so `Faults` has `LockTimeouts`
FALSE, and an anchor that is requested: a cut after the first waits for an
anchor nobody asks for, by design (`anchor.py:38-41`). The queue of a fair run
is finite; a stream of new requests that keeps every tick busy claiming is not
modelled.

`SceneDraftSpec`: the steps of a request are fair, since a call to the model ends
within its timeout of 30 s, a sleep ends and a lock is had or times out.  The mode may
be switched for ever.  `WorkspaceSpec`: jobs end (`JobsEnd` of the backend), fetches and
requests are answered, and the interval timer runs while a job shown is active; nothing
is assumed of the user, of the focus or of lost answers.  `PlayerSpec`: renders and
effects run, a queued `ended` is delivered, the promise of the latest `play()` is
settled and what plays comes to its end; nothing is assumed of the user or of the
selections.

## 4. Proofs

The theorems hold for every value of the constants, from the named assumptions on
them (`StoreAssumption`, `BacklogAssumption`, `RuntimeAssumption`, `WorkerAssumption`,
`WebhookAssumption`, `ApiAssumption`, `SystemAssumption`, `SceneDraftAssumption`,
`WorkspaceAssumption`, `RowsAssumption`, `PlayerAssumption`), each of which TLC evaluates in the runs.

### The queue (`SystemProofs`)

| theorem | property |
|---|---|
| `TypeCorrect` | `TypeOK` |
| `AlwaysIntegrity` | `Integrity`, the inductive invariant |
| `SucceededAlwaysHasArtifact` | `SucceededHasArtifact` |
| `SelectionAlwaysOfOwnCut` | `SelectionOfOwnCut` |
| `SourceAlwaysOfOwnCutAndMode` | `SourceOfOwnCutAndMode` |

The argument.  A property of rows that several handlers write from stale reads
cannot be proved of the rows alone: the write that would break it is already
pending.  `Sound(t)` says what a pending write carries in spite of that: it sets
SUCCEEDED only with the job's artifact, it takes no row away, the selection and
source it sets fit its cut.  `Integrity` is the properties of the rows together
with `Sound(tx[p])` for every process, and it is inductive under `TypeOK`.
`StoreStep` lists the ways a step can touch the rows (not at all, open a sound
transaction, end one, let a timer run out, restart); `NextIsStoreStep` shows that
every action is one of them, using a lemma per handler (`FailSound`,
`CompleteSound`, `ClaimSound`, ...) that what it opens is sound; `CommitKeeps`,
`SoundKept`, `CommitConsistent` and `StoreStepIntegrity` show that the invariant
survives each way.  That a cut has one active job of a kind (`OneActiveJob`) is what the
partial index refuses to break; it is kept here as a part of `Integrity` because other
arguments rest on it.

Assumed of the start: the backlog is rows this program can have left (each is of a
kind and a cut, both indexes hold, no job has used more attempts than there are and one that waits
has some left, a video's source is a successful image of its cut and mode).  The
coroutines that hold transactions, of the worker, the callbacks and the requests, are
distinct (`WorkerAssumption`, `WebhookAssumption`, `SystemAssumption`).

### The scene response (`SceneViewProofs`)

| theorem | property |
|---|---|
| `HeldIsAlwaysExplained` | `HeldIsExplained` |

For every backend, with callbacks, detached calls, requests and locks.  The response and
the claimer look at different rows, so the theorem is not that one gate agrees with
itself.  It rests on the order of the SELECTs and on a fact of the rows: no commit takes
the image of a cut away without setting another (`ImageKept`, from the soundness of
pending writes).  So an anchor that was ready when the cuts were read still is
(`SeenStays`), and the gate of the response is never more open than the claimer's
(`GateIsTold`).

### The worker alone (`LifecycleProofs`)

| theorem | property |
|---|---|
| `AlwaysAlone` | `Alone`, the inductive invariant |
| `AttemptsAreBounded` | `AttemptBound` |
| `TerminalStaysFinal` | `TerminalIsFinal` |
| `RowsFollowLifecycle` | `FollowsLifecycle`, the refinement of `Lifecycle` |
| `NeverResubmitsBlindly` | `NoBlindResubmit` |
| `ConcurrencyIsBounded` | `ConcurrencyBound` |

These hold when the worker alone drives the jobs (`WorkerAlone`): no callback is
delivered, and nobody is detached from `asyncio.gather`, because either at most one
call is out at a time (`Concurrency <= 1`) or no call raises (commits find the database
free, the keys are configured).  That is a hypothesis about how the program is run, not
something it guarantees: the default limit is 3 and the callback route is always there.
Without it these are false of this code, as `CallbacksFinal`, `DetachedCall`, `LateRetry`
and `LateRetryOfLost` show: a detached call or a callback commits what it decided before
somebody else moved the job.  What is left of `AttemptBound` then is `OverrunIsBounded`,
below.
Requests, selections, lock timeouts (with one call), lost keys, crashes and
timers at any moment are all allowed.  `ConcurrencyIsBounded` also needs that no more
jobs than the concurrency were in flight at the start, which a smaller
`GENERATION_CONCURRENCY` after a restart would break.

The argument.  `Lawful(t, rows)` says that a pending write is a documented transition of
the rows as they are now.  That is no invariant of the rows and writes alone: it needs
that a job has one writer (`SoleWriter`), which needs that the tick waits for all its
calls while it has no transaction itself (`Control`, `NoneDetached`), which needs that
no call raises beside another (`RaisesAlone`): with one call out because the budget and
the polls are counted (`OneCall`, over `WalkWithinBudget`, a fact about the
cardinalities of the claim's walk); with many, because no index can refuse what a call
commits (`CallAccepted`, from `NoRefusal` and lawfulness).  `Alone` is these parts
together, and is inductive under `TypeOK` and `Integrity` (`AloneKept`).  A commit is
then a `Transition` of every row (`CommitTransition`), whence the refinement, the
finality and the bound on attempts.  `NoBlindResubmit` has a second invariant on top:
`Accounted`, an uncertain submission is the last of a job that is SUBMITTING or FAILED
and that nobody is about to write otherwise, and `Awaited`, a submit call that is not
back has its submission out.  `ConcurrencyBound` has `Fits` (jobs in flight and about to be).

### The board (`BoardProofs`)

| theorem | property |
|---|---|
| `AlwaysSeen` | `Seen`, the inductive invariant |
| `RowsFollowBoard` | `FollowsBoard`, the refinement of `Board` |
| `UnanchoredIsAfterFailure` | `UnanchoredOnlyAfterFailure` |

Also under `WorkerAlone`, with any number of clients, of either kind of request, and
with crashes.  With callbacks it is false of this code: a failure decided before a
success is committed over it, and the board never takes an end back.

The argument.  A commit is one step of the board, as the rows are by then: `Create` for
`_create_job`, `Finish` for `_complete`, `ChooseImage` or `ChooseVideo` for a selection,
`Fail` for the jobs an update ends, nothing for the rest (`StepShows`).  The hard part is
that what a handler decided from the rows it read is still right.  `Formed` says so of
every pending write: a first image selects itself exactly when its cut has none *now*,
and a selection drops the video only where an image is.  It stays true because an image,
once selected, is only ever replaced by another (`ImageStays`), and because nobody else
can select the first one in between: not another job, of which `OneActiveJob` and
`SoleWriter` leave none that could finish (`ImageWriters`), and not a request, which
would need an image that is there, and then `ImageSelected` has one selected already.
Which videos overlapping selections leave behind is open on the board too, so nothing is
hidden that `StaleVideoSelection` finds.

The gate is decided on the rows the claim read.  `GateHeld` says what is left of that
until it commits: the anchor still has no image and its failed job is still failed
(`RequestSpares`: no request changes either), and all that can have come is a job that a
request queued, since nobody else commits while the tick is about to submit
(`ClaimUndisturbed`).

### Every writer of a job (`AttemptProofs`)

| theorem | property |
|---|---|
| `OverrunAlwaysBounded` | `OverrunIsBounded` |

Without any hypothesis: any number of callbacks, detached calls, requests, locked and
late commits, and crashes.

The argument.  With many writers a status moves back and forth, and no pending write can
be told to be a documented transition.  But once a job has used its attempts nobody
*opens* a retry of it any more, so what can still come are the retries that were read
before.  `Within` counts them: the attempts of such a job, and one for the claim it waits
for or is under (`Ripe`), and one for every pending retry (`Late`), are within the bound.
A claim turns ripe into an attempt, a late commit turns a pending retry into ripe, and
nothing adds to the sum.  `AllCounted` says what a pending write must be for that: only
the claim counts an attempt, one more than there are, and only the calls and callbacks of
a job make it wait again.

### Scene creation (`SceneDraftProofs`)

| theorem | property |
|---|---|
| `DraftTypeCorrect` | `SceneDraftTypeOK` |
| `ScenesAreWhole` | `StoredSceneIsWhole` |
| `AnswersTell` | `AnswerTells` |
| `AsksOneProviderInMeasure` | `OneProviderAskedInMeasure` |

`DraftInv` says of each request what its stage means.  `Asking`: while it asks, the
provider has been asked one time less than its attempt and has said nothing final; the
provider asked is the one the request holds.  `Keeping`: it holds the lock exactly
between the flushes, with exactly these flushed and a draft that is in order, and its
scene exists only after the commit.  `Answering`: its answer belongs to the last reply
and the scene.  The lock is what makes it inductive for many requests: `flushed` is of
its holder, and `OneRequestActs` shows that a step that takes it from nobody leaves
every other request as it was (`OthersKeep`); a lemma per action shows the rest.

### The page (`WorkspaceProofs`)

| theorem | property |
|---|---|
| `PageTypeCorrect` | `WorkspaceTypeOK` |
| `AlwaysShowsWhatWasRequested` | `ShowsWhatWasRequested` |
| `AlwaysRestsOnRows` | `RestsOnRows` |

They hold for any number of cuts, jobs, buttons and requests out at once, over answers
that get lost.  Views of many ages are about: on show, half read, in every answer.
`PageInv` says two things of them.  All are of the past (`Past`, `Whole` in `ViewsInv`):
a status they show is the job's or an earlier one, and once the artifacts are read
every success has its own; this survives each step because the rows only move on
(`Moves`).  And what the shown view lacks is owed: if a job is missing, there is a
request that has been or will be answered and will refresh the scene, an answer was lost,
or the fetch under way will bring it (`KnowsInv`).  `RestsOnRows` follows without an
induction of its own: at rest nothing shown is active and nothing is missing, so each
status is the last one.  That a video is made from the image shown when it was asked for
is false of this code with two cards (`VideoOfOldSelection`).  A batch is
taken cut by cut in their order; that one of the cuts left comes first is the least
number principle, from the well-founded order of the library (`NextIsLeft`).

### The player (`PlayerProofs`)

| theorem | property |
|---|---|
| `PlayerTypeCorrect` | `PlayerTypeOK` |
| `AlwaysPlaysOnlyUnderPause` | `PlaysOnlyUnderPause` |
| `NeverSkipsACut` | `NoCutSkipped` |

For any number of cuts, videos and changes, whatever is rendered together.
`PlaysOnlyUnderPause` speaks of moments in which nothing is left to render, so the
invariant has to say what holds in between.  `PlayerInv` is: `IndexInv`, the index that
waits is not ahead of the rendered one, but for an advance whose clip is at its end;
`MediaInv`, what plays is the active element and will be shown as playing; `TaskInv`, a
clip that was moved to has not been started before its effect ran, unless by a click.  One
lemma per action, as above.  The converse, that a clip plays under "Pause sequence", is
false of this code (`RestartWithoutClip`).

### Only model-checked

Liveness (`JobsEnd`, `RequestsAnswered`, `EndsAreShown`, `PlayedOn`): ENABLED and
temporal induction under fairness are beyond the prover.

## 5. Not modelled

Formatting and pure I/O: HTTP, payload parsing, secrets, prompts, wording, error codes
where no decision hangs on them, logging, redaction, CORS, static files and the
migrations, which run before the process starts.  The rows of `generation_batches`,
which nothing here reads.  The length of delays (backoff, `Retry-After`, intervals):
timers are reached some time.  The mock scenarios, beyond the outcomes they produce.

On the page: the view after a failed read, the mode switch and the age of the
configuration it is shown with, other tabs and users (their writes are steps of
`Board` that the backend's runs cover), histories and summaries.  The answer of a
selection is read in one step with its commit, although the code reads the four tables
after it: what it then misses is what a later fetch misses, and the fetch it starts is
modelled in full.

A shutdown that lets the loop finish is a special case of `Crash`.

## 6. Plan

1. Done: the queue with its row invariants proved; scene creation, the page and the
   player, each with its proofs; the scene response against the anchor gate; the board
   between the queue and the page.
2. Done: both refinements and each safety property that a passing run checks, under the
   hypotheses named in section 4.  Liveness stays with TLC.
3. Models left: the backoff (`_set_retry_or_failure`, `Retry-After`) as a function with
   its bounds; the page under a mode switch.
