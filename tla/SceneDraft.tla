----------------------------- MODULE SceneDraft -----------------------------
(***************************************************************************)
(* POST /api/scenes (create_scene of app/scenes.py): a request asks the    *)
(* scene provider of the mode it arrived in for a draft, asks again when   *)
(* the provider is unreachable or its draft has the wrong shape, and       *)
(* stores the scene and its cuts in one transaction of two flushes.  The   *)
(* first INSERT takes the database's write lock.                           *)
(*                                                                         *)
(* told is the provider's side, external to the program: what it was       *)
(* asked, and what it answered last.                                       *)
(***************************************************************************)
EXTENDS Integers, Sequences, Runtime

CONSTANTS
  Post,           \* bound: the requests of a run
  DraftAttempts,  \* GENERATION_MAX_ATTEMPTS
  Shapes,         \* bound: the cut orders a language model comes up with
  NoOne,          \* nobody holds the write lock, nothing was answered
  MaxRestarts     \* bound: crashes in a run

InOrder == <<1, 2, 3, 4, 5, 6>>

Stage == {"idle", "calling", "sleeping", "saving", "filling", "committing",
          "stored", "answered"}

Answer == {"CREATED", "SCENE_SCHEMA_INVALID", "SCENE_PROVIDER_UNAVAILABLE",
           "SCENE_PROVIDER_FAILED", "SERVER_ERROR", "CONNECTION_LOST"}

Reply == {"draft", "misshapen", "unavailable", "failed"}

ASSUME SceneDraftAssumption ==
  /\ DraftAttempts \in Nat \ {0}
  /\ InOrder \in Shapes
  /\ NoOne \notin Post \cup Mode \cup Answer \cup Reply
  /\ MaxRestarts \in Nat

VARIABLES
  post,      \* per request: its stage, provider, attempt, draft and answer
  told,      \* per request: the providers asked, how often, the last reply
  lock,      \* who holds the write lock
  flushed,   \* what its holder has inserted and not committed
  scene,     \* the scenes stored, by the request that made each
  cutsOf,    \* per scene, the orders of its cuts in the database
  restarts

draftVars == <<post, told, lock, flushed, scene, cutsOf, restarts>>

Request == [stage : Stage, provider : Mode \cup {NoOne},
            attempt : 0 .. DraftAttempts,
            draft : Shapes \cup {NoOne}, answer : Answer \cup {NoOne}]

SceneDraftTypeOK ==
  /\ RuntimeTypeOK
  /\ post \in [Post -> Request]
  /\ told \in [Post -> [by : SUBSET Mode, count : Nat,
                        last : Reply \cup {NoOne}]]
  /\ lock \in Post \cup {NoOne}
  /\ flushed \in SUBSET {"scene", "cuts"}
  /\ scene \subseteq Post
  /\ cutsOf \in [Post -> Shapes \cup {<<>>}]
  /\ restarts \in Nat

NotPosted == [stage |-> "idle", provider |-> NoOne, attempt |-> 0,
              draft |-> NoOne, answer |-> NoOne]

SceneDraftInit ==
  /\ RuntimeInit
  /\ post = [r \in Post |-> NotPosted]
  /\ told = [r \in Post |-> [by |-> {}, count |-> 0, last |-> NoOne]]
  /\ lock = NoOne
  /\ flushed = {}
  /\ scene = {}
  /\ cutsOf = [r \in Post |-> <<>>]
  /\ restarts = 0

dbVars == <<lock, flushed, scene, cutsOf>>

At(r, stage) == post[r].stage = stage

Becomes(r, stage) == post' = [post EXCEPT ![r].stage = stage]

Answered(r, answer) ==
  post' = [post EXCEPT ![r].stage = "answered", ![r].answer = answer]

----------------------------------------------------------------------------
(***************************************************************************)
(* _generate_draft                                                         *)
(***************************************************************************)

\* The provider is looked up once, when the request arrives.
Receive(r) ==
  /\ At(r, "idle")
  /\ Available(mode)
  /\ post' = [post EXCEPT ![r].stage = "calling", ![r].provider = mode,
                          ![r].attempt = 1]
  /\ UNCHANGED <<told, dbVars>>

\* What the provider was asked; the count is capped past what is allowed.
Tells(r, reply) ==
  told' = [told EXCEPT
             ![r].by = @ \cup {post[r].provider},
             ![r].count = IF @ > DraftAttempts THEN @ ELSE @ + 1,
             ![r].last = reply]

\* Mutant of OrderedOnce: six cuts, in any order.
SixCuts(draft) == Len(draft) = 6

\* SceneDraft: six cuts, ordered 1 through 6.
OrderedOnce(draft) == draft = InOrder

\* The mock provider answers with one draft, the language model with any.
Drafts(provider) == IF provider = "MOCK" THEN {InOrder} ELSE Shapes

DraftAccepted(r) ==
  /\ At(r, "calling")
  /\ \E d \in Drafts(post[r].provider) :
       /\ OrderedOnce(d)
       /\ post' = [post EXCEPT ![r].stage = "saving", ![r].draft = d]
  /\ Tells(r, "draft")
  /\ UNCHANGED dbVars

\* Mutant of AgainOrAnswer: once too often.
AgainOrAnswerLate(r, answer) ==
  IF post[r].attempt > DraftAttempts THEN Answered(r, answer)
                                     ELSE Becomes(r, "sleeping")

\* The last attempt is reported, an earlier one is slept over.
AgainOrAnswer(r, answer) ==
  IF post[r].attempt = DraftAttempts THEN Answered(r, answer)
                                     ELSE Becomes(r, "sleeping")

\* Mutant of DraftRejected: a rejected shape is taken for the error class it
\* extends.
DraftRejectedAsOutage(r) ==
  /\ At(r, "calling")
  /\ \E d \in Drafts(post[r].provider) : ~OrderedOnce(d)
  /\ AgainOrAnswer(r, "SCENE_PROVIDER_UNAVAILABLE")
  /\ Tells(r, "misshapen")
  /\ UNCHANGED dbVars

\* SchemaProviderError and ValidationError
DraftRejected(r) ==
  /\ At(r, "calling")
  /\ \E d \in Drafts(post[r].provider) : ~OrderedOnce(d)
  /\ AgainOrAnswer(r, "SCENE_SCHEMA_INVALID")
  /\ Tells(r, "misshapen")
  /\ UNCHANGED dbVars

\* RetryableProviderError: no connection, 429 or 5xx.
CallUnavailable(r) ==
  /\ At(r, "calling")
  /\ post[r].provider = "LIVE"
  /\ AgainOrAnswer(r, "SCENE_PROVIDER_UNAVAILABLE")
  /\ Tells(r, "unavailable")
  /\ UNCHANGED dbVars

\* PermanentProviderError: a read timeout or another status.
CallFailed(r) ==
  /\ At(r, "calling")
  /\ post[r].provider = "LIVE"
  /\ Answered(r, "SCENE_PROVIDER_FAILED")
  /\ Tells(r, "failed")
  /\ UNCHANGED dbVars

\* Mutant of CallAgain: the attempt is not counted.
CallAgainUncounted(r) ==
  /\ At(r, "sleeping")
  /\ Becomes(r, "calling")
  /\ UNCHANGED <<told, dbVars>>

\* Mutant of CallAgain: the provider is looked up for every attempt.
CallAgainOfMode(r) ==
  /\ At(r, "sleeping")
  /\ post' = [post EXCEPT ![r].stage = "calling", ![r].provider = mode,
                          ![r].attempt = @ + 1]
  /\ UNCHANGED <<told, dbVars>>

CallAgain(r) ==
  /\ At(r, "sleeping")
  /\ post' = [post EXCEPT ![r].stage = "calling", ![r].attempt = @ + 1]
  /\ UNCHANGED <<told, dbVars>>

----------------------------------------------------------------------------
(***************************************************************************)
(* The transaction of create_scene.                                        *)
(***************************************************************************)

FlushScene(r) ==
  /\ At(r, "saving")
  /\ lock = NoOne
  /\ lock' = r
  /\ flushed' = {"scene"}
  /\ Becomes(r, "filling")
  /\ UNCHANGED <<told, scene, cutsOf>>

FlushCuts(r) ==
  /\ At(r, "filling")
  /\ flushed' = flushed \cup {"cuts"}
  /\ Becomes(r, "committing")
  /\ UNCHANGED <<told, lock, scene, cutsOf>>

CommitScene(r) ==
  /\ At(r, "committing")
  /\ scene' = IF "scene" \in flushed THEN scene \cup {r} ELSE scene
  /\ cutsOf' = IF "cuts" \in flushed
               THEN [cutsOf EXCEPT ![r] = post[r].draft] ELSE cutsOf
  /\ lock' = NoOne
  /\ flushed' = {}
  /\ Becomes(r, "stored")
  /\ UNCHANGED told

Respond(r) ==
  /\ At(r, "stored")
  /\ Answered(r, "CREATED")
  /\ UNCHANGED <<told, dbVars>>

\* Another writer, or at the commit a reader, held the database for longer
\* than busy_timeout: everything is rolled back.
SaveLockedOut(r) ==
  /\ At(r, "saving") \/ At(r, "committing")
  /\ IF lock = r THEN lock' = NoOne /\ flushed' = {}
                 ELSE UNCHANGED <<lock, flushed>>
  /\ Answered(r, "SERVER_ERROR")
  /\ UNCHANGED <<told, scene, cutsOf>>

----------------------------------------------------------------------------
PostStep(r) ==
  \/ Receive(r)
  \/ DraftAccepted(r) \/ DraftRejected(r)
  \/ CallUnavailable(r) \/ CallFailed(r)
  \/ CallAgain(r)
  \/ FlushScene(r) \/ FlushCuts(r) \/ CommitScene(r)
  \/ SaveLockedOut(r)
  \/ Respond(r)

PostActs(r) == PostStep(r) /\ UNCHANGED <<runtimeVars, restarts>>

SwitchesMode ==
  /\ \E m \in ModesInUse : SwitchMode(m)
  /\ UNCHANGED draftVars

\* The process dies: its requests lose their connection.
Restart ==
  /\ restarts < MaxRestarts
  /\ restarts' = restarts + 1
  /\ RuntimeRestart
  /\ post' = [r \in Post |->
               IF At(r, "idle") \/ At(r, "answered") THEN post[r]
               ELSE [post[r] EXCEPT !.stage = "answered",
                                    !.answer = "CONNECTION_LOST"]]
  /\ lock' = NoOne
  /\ flushed' = {}
  /\ UNCHANGED <<told, scene, cutsOf>>

SceneDraftNext == (\E r \in Post : PostActs(r)) \/ SwitchesMode \/ Restart

\* A call returns within its 30 s, a sleep ends, the lock is had or times out.
SceneDraftSpec ==
  /\ SceneDraftInit
  /\ [][SceneDraftNext]_<<runtimeVars, draftVars>>
  /\ \A r \in Post : WF_<<runtimeVars, draftVars>>(PostActs(r))

----------------------------------------------------------------------------
(***************************************************************************)
(* A stored scene has its six cuts, in order, cut 1 among them: the anchor *)
(* that the other cuts wait for is there, whatever the model drafted and   *)
(* wherever the process died or was locked out.                            *)
(***************************************************************************)
StoredSceneIsWhole == \A r \in scene : cutsOf[r] = InOrder

(***************************************************************************)
(* The answer tells what happened: CREATED is said of stored scenes only,  *)
(* an error leaves none behind (a lost connection may), and it names the   *)
(* kind of the last failure, after all attempts unless it was permanent.   *)
(***************************************************************************)
AnswerTells ==
  \A r \in Post :
    LET answer == post[r].answer IN
    /\ answer = "CREATED" => r \in scene
    /\ r \in scene => answer \in {NoOne, "CREATED", "CONNECTION_LOST"}
    /\ answer = "SCENE_SCHEMA_INVALID" =>
         told[r].last = "misshapen" /\ told[r].count = DraftAttempts
    /\ answer = "SCENE_PROVIDER_UNAVAILABLE" =>
         told[r].last = "unavailable" /\ told[r].count = DraftAttempts
    /\ answer = "SCENE_PROVIDER_FAILED" => told[r].last = "failed"

(***************************************************************************)
(* A request keeps the provider of the mode it arrived in, over mode       *)
(* switches between its attempts; asks it no more often than allowed; and  *)
(* never again after a draft it took or a failure that must not be retried *)
(* (a model that read the request may have billed it).                     *)
(***************************************************************************)
OneProviderAskedInMeasure ==
  \A r \in Post :
    /\ \A a, b \in told[r].by : a = b
    /\ told[r].count <= DraftAttempts
    /\ told[r].last \in {"draft", "failed"} =>
         ~At(r, "calling") /\ ~At(r, "sleeping")

(***************************************************************************)
(* Every request that is received is answered.                             *)
(***************************************************************************)
RequestsAnswered == \A r \in Post : At(r, "calling") ~> At(r, "answered")
=============================================================================
