-------------------------- MODULE SceneDraftProofs --------------------------
(***************************************************************************)
(* The safety of scene creation, for any number of requests and restarts,  *)
(* any number of attempts and whatever the language model drafts.          *)
(***************************************************************************)
EXTENDS SceneDraft, TLAPS

(***************************************************************************)
(* One request: how its stage, what the provider was asked and told, and   *)
(* its rows belong together.                                               *)
(***************************************************************************)
Asking(r) ==
  /\ At(r, "idle") => /\ told[r].count = 0 /\ told[r].by = {}
                      /\ told[r].last = NoOne
  /\ At(r, "calling") => /\ post[r].attempt \in 1 .. DraftAttempts
                         /\ told[r].count = post[r].attempt - 1
  /\ At(r, "sleeping") => /\ post[r].attempt \in 1 .. DraftAttempts - 1
                          /\ told[r].count = post[r].attempt
  /\ At(r, "calling") \/ At(r, "sleeping") =>
       post[r].provider \in Mode /\ told[r].last \notin {"draft", "failed"}
  /\ told[r].count <= DraftAttempts
  /\ told[r].by \subseteq {post[r].provider}

Keeping(r) ==
  /\ lock = r <=> At(r, "filling") \/ At(r, "committing")
  /\ At(r, "saving") \/ At(r, "filling") \/ At(r, "committing") =>
       post[r].draft = InOrder
  /\ At(r, "filling") => flushed = {"scene"}
  /\ At(r, "committing") => flushed = {"scene", "cuts"}
  /\ At(r, "stored") => r \in scene
  /\ r \in scene => /\ At(r, "stored") \/ At(r, "answered")
                    /\ cutsOf[r] = InOrder

Answering(r) ==
  LET answer == post[r].answer IN
  /\ ~At(r, "answered") => answer = NoOne
  /\ answer = "CREATED" => r \in scene
  /\ r \in scene => answer \in {NoOne, "CREATED", "CONNECTION_LOST"}
  /\ answer = "SCENE_SCHEMA_INVALID" =>
       told[r].last = "misshapen" /\ told[r].count = DraftAttempts
  /\ answer = "SCENE_PROVIDER_UNAVAILABLE" =>
       told[r].last = "unavailable" /\ told[r].count = DraftAttempts
  /\ answer = "SCENE_PROVIDER_FAILED" => told[r].last = "failed"

RequestInv(r) == Asking(r) /\ Keeping(r) /\ Answering(r)

DraftInv ==
  /\ SceneDraftTypeOK
  /\ \A r \in Post : RequestInv(r)

----------------------------------------------------------------------------
(***************************************************************************)
(* The constants.                                                          *)
(***************************************************************************)
LEMMA DraftConstants ==
  /\ DraftAttempts \in Nat /\ DraftAttempts >= 1
  /\ InOrder \in Shapes
  /\ NoOne \notin Post /\ NoOne \notin Mode
  /\ NoOne \notin Answer /\ NoOne \notin Reply
  /\ MaxRestarts \in Nat /\ ModesInUse \subseteq Mode
  /\ LiveOptions \subseteq BOOLEAN
  BY SceneDraftAssumption, RuntimeAssumption
     DEF SceneDraftAssumption, RuntimeAssumption

(***************************************************************************)
(* The first state.                                                        *)
(***************************************************************************)
LEMMA DraftInitInv ==
  ASSUME SceneDraftInit
  PROVE  DraftInv
<1> USE DraftConstants DEF SceneDraftInit
<1>1. RuntimeTypeOK  BY DEF RuntimeInit, RuntimeTypeOK
<1>2. NotPosted \in Request
  BY DEF NotPosted, Request, Stage
<1>3. SceneDraftTypeOK  BY <1>1, <1>2 DEF SceneDraftTypeOK
<1>4. ASSUME NEW r \in Post PROVE RequestInv(r)
  BY DEF NotPosted, RequestInv, Asking, Keeping, Answering, At, Answer, Reply
<1> QED  BY <1>3, <1>4 DEF DraftInv

(***************************************************************************)
(* A request that a step does not touch.                                   *)
(***************************************************************************)
LEMMA OthersKeep ==
  ASSUME NEW q \in Post, RequestInv(q),
         post'[q] = post[q], told'[q] = told[q], cutsOf'[q] = cutsOf[q],
         q \in scene' <=> q \in scene,
         lock' = q <=> lock = q,
         lock = q => flushed' = flushed
  PROVE  RequestInv(q)'
  BY DEF RequestInv, Asking, Keeping, Answering, At

(***************************************************************************)
(* What the provider knows of a request, and the records after an update.  *)
(***************************************************************************)
Told == [by : SUBSET Mode, count : Nat, last : Reply \cup {NoOne}]

LEMMA RequestUpdated ==
  ASSUME NEW x \in Request, NEW s \in Stage
  PROVE  /\ [x EXCEPT !.stage = s] \in Request
         /\ \A a \in Answer :
              [x EXCEPT !.stage = s, !.answer = a] \in Request
         /\ \A d \in Shapes :
              [x EXCEPT !.stage = s, !.draft = d] \in Request
         /\ \A n \in 0 .. DraftAttempts :
              [x EXCEPT !.stage = s, !.attempt = n] \in Request
         /\ \A n \in 0 .. DraftAttempts, m \in Mode :
              [x EXCEPT !.stage = s, !.provider = m, !.attempt = n]
                \in Request
  BY DEF Request

(***************************************************************************)
(* A step of one request keeps the invariant when it leaves the request    *)
(* well formed and takes the lock, its flushes and rows from no other.     *)
(***************************************************************************)
LEMMA OneRequestActs ==
  ASSUME DraftInv, NEW p \in Post, NEW x \in Request, NEW y \in Told,
         post' = [post EXCEPT ![p] = x], told' = [told EXCEPT ![p] = y],
         lock' \in {lock, p, NoOne}, lock' # lock => lock \in {p, NoOne},
         flushed' \in SUBSET {"scene", "cuts"},
         flushed' = flushed \/ lock \in {p, NoOne},
         scene' \in {scene, scene \cup {p}},
         cutsOf' \in {cutsOf, [cutsOf EXCEPT ![p] = InOrder]},
         UNCHANGED <<runtimeVars, restarts>>,
         RequestInv(p)'
  PROVE  DraftInv'
<1> USE DraftConstants
<1>0. SceneDraftTypeOK /\ \A r \in Post : RequestInv(r)  BY DEF DraftInv
<1>1. SceneDraftTypeOK'
  <2>1. post' \in [Post -> Request]  BY <1>0 DEF SceneDraftTypeOK
  <2>2. told' \in [Post -> Told]  BY <1>0 DEF SceneDraftTypeOK, Told
  <2>3. /\ lock' \in Post \cup {NoOne}
        /\ scene' \subseteq Post
        /\ cutsOf' \in [Post -> Shapes \cup {<<>>}]
    BY <1>0 DEF SceneDraftTypeOK
  <2>4. RuntimeTypeOK' /\ restarts' \in Nat
    BY <1>0 DEF SceneDraftTypeOK, RuntimeTypeOK, runtimeVars
  <2> QED  BY <2>1, <2>2, <2>3, <2>4 DEF SceneDraftTypeOK, Told
<1>2. ASSUME NEW q \in Post, q # p
      PROVE  RequestInv(q)'
  <2>1. /\ post'[q] = post[q] /\ told'[q] = told[q] /\ cutsOf'[q] = cutsOf[q]
        /\ q \in scene' <=> q \in scene
        /\ lock' = q <=> lock = q
        /\ lock = q => flushed' = flushed
    BY <1>0, <1>2 DEF SceneDraftTypeOK
  <2> QED  BY <1>0, <2>1, OthersKeep
<1> QED  BY <1>1, <1>2 DEF DraftInv

(***************************************************************************)
(* What the invariant says of the request that acts.                       *)
(***************************************************************************)
LEMMA ActorTyped ==
  ASSUME DraftInv, NEW p \in Post
  PROVE  /\ post[p] \in Request /\ told[p] \in Told
         /\ told = [told EXCEPT ![p] = told[p]]
         /\ post \in [Post -> Request] /\ told \in [Post -> Told]
         /\ mode \in Mode /\ lock \in Post \cup {NoOne}
         /\ flushed \subseteq {"scene", "cuts"} /\ scene \subseteq Post
         /\ cutsOf \in [Post -> Shapes \cup {<<>>}]
         /\ RequestInv(p)
  BY DEF DraftInv, SceneDraftTypeOK, RuntimeTypeOK, Told

(***************************************************************************)
(* What the provider knows after an answer to one more attempt.            *)
(***************************************************************************)
LEMMA Tell ==
  ASSUME DraftInv, NEW p \in Post, At(p, "calling"),
         NEW reply \in Reply, Tells(p, reply)
  PROVE  \E y \in Told :
           /\ told' = [told EXCEPT ![p] = y]
           /\ y.by \subseteq {post[p].provider}
           /\ y.count = post[p].attempt
           /\ y.last = reply
<1> DEFINE count == IF told[p].count > DraftAttempts THEN told[p].count
                                                    ELSE told[p].count + 1
           y == [told[p] EXCEPT !.by = told[p].by \cup {post[p].provider},
                                !.count = count, !.last = reply]
<1>1. told[p] \in Told /\ RequestInv(p)
  BY ActorTyped
<1>2. /\ told[p].count = post[p].attempt - 1
      /\ post[p].attempt \in 1 .. DraftAttempts
      /\ told[p].by \subseteq {post[p].provider}
      /\ post[p].provider \in Mode
  BY <1>1 DEF RequestInv, Asking, At
<1>3. told' = [told EXCEPT ![p] = y]  BY DEF Tells
<1>4. count = post[p].attempt /\ count \in Nat
  BY <1>2, DraftConstants
<1> HIDE DEF count
<1>5. PICK t \in Told, m \in Mode, n \in Nat :
        t = told[p] /\ m = post[p].provider /\ n = count
  BY <1>1, <1>2, <1>4
<1>6. PICK z : z = [t EXCEPT !.by = t.by \cup {m}, !.count = n,
                             !.last = reply]
  OBVIOUS
<1>7. z \in Told /\ z.by = t.by \cup {m} /\ z.count = n /\ z.last = reply
  BY <1>5, <1>6 DEF Told
<1>8. y = z  BY <1>5, <1>6
<1>9. told' = [told EXCEPT ![p] = z]  BY <1>3, <1>8
<1> HIDE DEF y
<1> QED  BY <1>2, <1>4, <1>5, <1>7, <1>9

(***************************************************************************)
(* The requests' steps.                                                    *)
(***************************************************************************)
LEMMA ReceiveKeeps ==
  ASSUME DraftInv, NEW p \in Post, Receive(p),
         UNCHANGED <<runtimeVars, restarts>>
  PROVE  DraftInv'
<1> DEFINE x == [post[p] EXCEPT !.stage = "calling", !.provider = mode,
                              !.attempt = 1]
<1>0. At(p, "idle") /\ UNCHANGED <<lock, flushed, scene, cutsOf>>
  BY ActorTyped DEF Receive, dbVars
<1>1. post[p] \in Request /\ told[p] \in Told /\ RequestInv(p)
  BY ActorTyped
<1>2. "calling" \in Stage /\ mode \in Mode /\ 1 \in 0 .. DraftAttempts
  BY <1>0, <1>1, ActorTyped, DraftConstants DEF Stage
<1>3. x \in Request  BY <1>1, <1>2, RequestUpdated
<1>4. /\ x.stage = "calling" /\ x.provider = mode
      /\ x.attempt = 1 /\ x.draft = post[p].draft
      /\ x.answer = post[p].answer
  BY <1>1 DEF Request
<1>5. /\ post' = [post EXCEPT ![p] = x]
      /\ told' = [told EXCEPT ![p] = told[p]]
  BY ActorTyped DEF Receive
<1>6. post'[p] = x /\ told'[p] = told[p]  BY <1>5, ActorTyped
<1> HIDE DEF x
<1>7. RequestInv(p)'
  BY <1>0, <1>1, <1>2, <1>4, <1>6, ActorTyped, DraftConstants
     DEF RequestInv, Asking, Keeping, Answering, At, Answer, Reply
<1> QED  BY <1>0, <1>1, <1>2, <1>3, <1>5, <1>7, ActorTyped,
            OneRequestActs DEF RequestInv, Keeping, At

LEMMA CallAgainKeeps ==
  ASSUME DraftInv, NEW p \in Post, CallAgain(p),
         UNCHANGED <<runtimeVars, restarts>>
  PROVE  DraftInv'
<1> DEFINE x == [post[p] EXCEPT !.stage = "calling",
                              !.attempt = post[p].attempt + 1]
<1>0. At(p, "sleeping") /\ UNCHANGED <<lock, flushed, scene, cutsOf>>
  BY ActorTyped DEF CallAgain, dbVars
<1>1. post[p] \in Request /\ told[p] \in Told /\ RequestInv(p)
  BY ActorTyped
<1>2. /\ "calling" \in Stage
      /\ post[p].attempt \in 1 .. DraftAttempts - 1
      /\ post[p].attempt + 1 \in 0 .. DraftAttempts
  BY <1>0, <1>1, ActorTyped, DraftConstants DEF Stage, RequestInv, Asking, At
<1>3. x \in Request  BY <1>1, <1>2, RequestUpdated
<1>4. /\ x.stage = "calling" /\ x.attempt = post[p].attempt + 1
      /\ x.provider = post[p].provider /\ x.draft = post[p].draft
      /\ x.answer = post[p].answer
  BY <1>1 DEF Request
<1>5. /\ post' = [post EXCEPT ![p] = x]
      /\ told' = [told EXCEPT ![p] = told[p]]
  BY ActorTyped DEF CallAgain
<1>6. post'[p] = x /\ told'[p] = told[p]  BY <1>5, ActorTyped
<1> HIDE DEF x
<1>7. RequestInv(p)'
  BY <1>0, <1>1, <1>2, <1>4, <1>6, ActorTyped, DraftConstants
     DEF RequestInv, Asking, Keeping, Answering, At, Answer, Reply
<1> QED  BY <1>0, <1>1, <1>2, <1>3, <1>5, <1>7, ActorTyped,
            OneRequestActs DEF RequestInv, Keeping, At

LEMMA FlushSceneKeeps ==
  ASSUME DraftInv, NEW p \in Post, FlushScene(p),
         UNCHANGED <<runtimeVars, restarts>>
  PROVE  DraftInv'
<1> DEFINE x == [post[p] EXCEPT !.stage = "filling"]
<1>0. /\ At(p, "saving") /\ lock = NoOne /\ lock' = p
      /\ flushed' = {"scene"} /\ UNCHANGED <<scene, cutsOf>>
  BY ActorTyped DEF FlushScene, dbVars
<1>1. post[p] \in Request /\ told[p] \in Told /\ RequestInv(p)
  BY ActorTyped
<1>2. "filling" \in Stage
  BY <1>0, <1>1, ActorTyped, DraftConstants DEF Stage
<1>3. x \in Request  BY <1>1, <1>2, RequestUpdated
<1>4. /\ x.stage = "filling" /\ x.provider = post[p].provider
      /\ x.attempt = post[p].attempt /\ x.draft = post[p].draft
      /\ x.answer = post[p].answer
  BY <1>1 DEF Request
<1>5. /\ post' = [post EXCEPT ![p] = x]
      /\ told' = [told EXCEPT ![p] = told[p]]
  BY ActorTyped DEF FlushScene, Becomes
<1>6. post'[p] = x /\ told'[p] = told[p]  BY <1>5, ActorTyped
<1> HIDE DEF x
<1>7. RequestInv(p)'
  BY <1>0, <1>1, <1>2, <1>4, <1>6, ActorTyped, DraftConstants
     DEF RequestInv, Asking, Keeping, Answering, At, Answer, Reply
<1> QED  BY <1>0, <1>1, <1>2, <1>3, <1>5, <1>7, ActorTyped,
            OneRequestActs DEF RequestInv, Keeping, At

LEMMA FlushCutsKeeps ==
  ASSUME DraftInv, NEW p \in Post, FlushCuts(p),
         UNCHANGED <<runtimeVars, restarts>>
  PROVE  DraftInv'
<1> DEFINE x == [post[p] EXCEPT !.stage = "committing"]
<1>0. /\ At(p, "filling") /\ flushed' = flushed \cup {"cuts"}
      /\ UNCHANGED <<lock, scene, cutsOf>>
  BY ActorTyped DEF FlushCuts, dbVars
<1>1. post[p] \in Request /\ told[p] \in Told /\ RequestInv(p)
  BY ActorTyped
<1>2. "committing" \in Stage
  BY <1>0, <1>1, ActorTyped, DraftConstants DEF Stage
<1>3. x \in Request  BY <1>1, <1>2, RequestUpdated
<1>4. /\ x.stage = "committing" /\ x.provider = post[p].provider
      /\ x.attempt = post[p].attempt /\ x.draft = post[p].draft
      /\ x.answer = post[p].answer
  BY <1>1 DEF Request
<1>5. /\ post' = [post EXCEPT ![p] = x]
      /\ told' = [told EXCEPT ![p] = told[p]]
  BY ActorTyped DEF FlushCuts, Becomes
<1>6. post'[p] = x /\ told'[p] = told[p]  BY <1>5, ActorTyped
<1> HIDE DEF x
<1>7. RequestInv(p)'
  BY <1>0, <1>1, <1>2, <1>4, <1>6, ActorTyped, DraftConstants
     DEF RequestInv, Asking, Keeping, Answering, At, Answer, Reply
<1> QED  BY <1>0, <1>1, <1>2, <1>3, <1>5, <1>7, ActorTyped,
            OneRequestActs DEF RequestInv, Keeping, At

LEMMA CommitSceneKeeps ==
  ASSUME DraftInv, NEW p \in Post, CommitScene(p),
         UNCHANGED <<runtimeVars, restarts>>
  PROVE  DraftInv'
<1> DEFINE x == [post[p] EXCEPT !.stage = "stored"]
<1>0. /\ At(p, "committing") /\ lock' = NoOne /\ flushed' = {}
  BY ActorTyped DEF CommitScene, dbVars
<1>1. post[p] \in Request /\ told[p] \in Told /\ RequestInv(p)
  BY ActorTyped
<1>2. "stored" \in Stage
      /\ lock = p /\ scene' = scene \cup {p}
      /\ cutsOf' = [cutsOf EXCEPT ![p] = InOrder]
  BY <1>0, <1>1, ActorTyped, DraftConstants
     DEF Stage, RequestInv, Keeping, At, CommitScene
<1>3. x \in Request  BY <1>1, <1>2, RequestUpdated
<1>4. /\ x.stage = "stored" /\ x.provider = post[p].provider
      /\ x.attempt = post[p].attempt /\ x.draft = post[p].draft
      /\ x.answer = post[p].answer
  BY <1>1 DEF Request
<1>5. /\ post' = [post EXCEPT ![p] = x]
      /\ told' = [told EXCEPT ![p] = told[p]]
  BY ActorTyped DEF CommitScene, Becomes
<1>6. post'[p] = x /\ told'[p] = told[p]  BY <1>5, ActorTyped
<1> HIDE DEF x
<1>7. RequestInv(p)'
  BY <1>0, <1>1, <1>2, <1>4, <1>6, ActorTyped, DraftConstants
     DEF RequestInv, Asking, Keeping, Answering, At, Answer, Reply
<1> QED  BY <1>0, <1>1, <1>2, <1>3, <1>5, <1>7, ActorTyped,
            OneRequestActs DEF RequestInv, Keeping, At

LEMMA RespondKeeps ==
  ASSUME DraftInv, NEW p \in Post, Respond(p),
         UNCHANGED <<runtimeVars, restarts>>
  PROVE  DraftInv'
<1> DEFINE x == [post[p] EXCEPT !.stage = "answered", !.answer = "CREATED"]
<1>0. At(p, "stored") /\ UNCHANGED <<lock, flushed, scene, cutsOf>>
  BY ActorTyped DEF Respond, dbVars
<1>1. post[p] \in Request /\ told[p] \in Told /\ RequestInv(p)
  BY ActorTyped
<1>2. "answered" \in Stage /\ "CREATED" \in Answer
  BY <1>0, <1>1, ActorTyped, DraftConstants DEF Stage, Answer
<1>3. x \in Request  BY <1>1, <1>2, RequestUpdated
<1>4. /\ x.stage = "answered" /\ x.answer = "CREATED"
      /\ x.provider = post[p].provider /\ x.attempt = post[p].attempt
      /\ x.draft = post[p].draft
  BY <1>1 DEF Request
<1>5. /\ post' = [post EXCEPT ![p] = x]
      /\ told' = [told EXCEPT ![p] = told[p]]
  BY ActorTyped DEF Respond, Answered
<1>6. post'[p] = x /\ told'[p] = told[p]  BY <1>5, ActorTyped
<1> HIDE DEF x
<1>7. RequestInv(p)'
  BY <1>0, <1>1, <1>2, <1>4, <1>6, ActorTyped, DraftConstants
     DEF RequestInv, Asking, Keeping, Answering, At, Answer, Reply
<1> QED  BY <1>0, <1>1, <1>2, <1>3, <1>5, <1>7, ActorTyped,
            OneRequestActs DEF RequestInv, Keeping, At

LEMMA SaveLockedOutKeeps ==
  ASSUME DraftInv, NEW p \in Post, SaveLockedOut(p),
         UNCHANGED <<runtimeVars, restarts>>
  PROVE  DraftInv'
<1> DEFINE x == [post[p] EXCEPT !.stage = "answered", !.answer = "SERVER_ERROR"]
<1>0. /\ At(p, "saving") \/ At(p, "committing")
      /\ \/ lock = p /\ lock' = NoOne /\ flushed' = {}
         \/ lock # p /\ UNCHANGED <<lock, flushed>>
      /\ UNCHANGED <<scene, cutsOf>>
  BY ActorTyped DEF SaveLockedOut, dbVars
<1>1. post[p] \in Request /\ told[p] \in Told /\ RequestInv(p)
  BY ActorTyped
<1>2. "answered" \in Stage /\ "SERVER_ERROR" \in Answer
  BY <1>0, <1>1, ActorTyped, DraftConstants DEF Stage, Answer
<1>3. x \in Request  BY <1>1, <1>2, RequestUpdated
<1>4. /\ x.stage = "answered" /\ x.answer = "SERVER_ERROR"
      /\ x.provider = post[p].provider /\ x.attempt = post[p].attempt
      /\ x.draft = post[p].draft
  BY <1>1 DEF Request
<1>5. /\ post' = [post EXCEPT ![p] = x]
      /\ told' = [told EXCEPT ![p] = told[p]]
  BY ActorTyped DEF SaveLockedOut, Answered
<1>6. post'[p] = x /\ told'[p] = told[p]  BY <1>5, ActorTyped
<1> HIDE DEF x
<1>7. RequestInv(p)'
  BY <1>0, <1>1, <1>2, <1>4, <1>6, ActorTyped, DraftConstants
     DEF RequestInv, Asking, Keeping, Answering, At, Answer, Reply
<1> QED  BY <1>0, <1>1, <1>2, <1>3, <1>5, <1>7, ActorTyped,
            OneRequestActs DEF RequestInv, Keeping, At

(***************************************************************************)
(* A draft that is taken.                                                  *)
(***************************************************************************)
LEMMA DraftAcceptedKeeps ==
  ASSUME DraftInv, NEW p \in Post, DraftAccepted(p),
         UNCHANGED <<runtimeVars, restarts>>
  PROVE  DraftInv'
<1> DEFINE x == [post[p] EXCEPT !.stage = "saving", !.draft = InOrder]
<1>0. /\ At(p, "calling") /\ UNCHANGED <<lock, flushed, scene, cutsOf>>
      /\ post' = [post EXCEPT ![p] = x] /\ Tells(p, "draft")
  BY ActorTyped DEF DraftAccepted, OrderedOnce, dbVars
<1>1. post[p] \in Request /\ told[p] \in Told /\ RequestInv(p)
  BY ActorTyped
<1>2. "saving" \in Stage /\ InOrder \in Shapes /\ "draft" \in Reply
  BY DraftConstants DEF Stage, Reply
<1>3. x \in Request  BY <1>1, <1>2, RequestUpdated
<1>4. /\ x.stage = "saving" /\ x.provider = post[p].provider
      /\ x.attempt = post[p].attempt /\ x.draft = InOrder
      /\ x.answer = post[p].answer
  BY <1>1 DEF Request
<1>5. PICK y \in Told : /\ told' = [told EXCEPT ![p] = y]
                        /\ y.by \subseteq {post[p].provider}
                        /\ y.count = post[p].attempt /\ y.last = "draft"
  BY <1>0, <1>2, Tell
<1>6. post'[p] = x /\ told'[p] = y  BY <1>0, <1>5, ActorTyped
<1> HIDE DEF x
<1>7. RequestInv(p)'
  BY <1>0, <1>1, <1>4, <1>5, <1>6, ActorTyped, DraftConstants
     DEF RequestInv, Asking, Keeping, Answering, At, Answer, Reply
<1> QED  BY <1>0, <1>1, <1>3, <1>5, <1>7, ActorTyped,
            OneRequestActs DEF RequestInv, Keeping, At

(***************************************************************************)
(* A failure that is reported: a permanent one, or the last attempt's.     *)
(***************************************************************************)
LEMMA ReportKeeps ==
  ASSUME DraftInv, NEW p \in Post, At(p, "calling"),
         NEW answer \in Answer, NEW reply \in Reply,
         Answered(p, answer), Tells(p, reply),
         \/ answer = "SCENE_PROVIDER_FAILED" /\ reply = "failed"
         \/ /\ post[p].attempt = DraftAttempts
            /\ \/ answer = "SCENE_SCHEMA_INVALID" /\ reply = "misshapen"
               \/ /\ answer = "SCENE_PROVIDER_UNAVAILABLE"
                  /\ reply = "unavailable",
         UNCHANGED <<dbVars, runtimeVars, restarts>>
  PROVE  DraftInv'
<1> DEFINE x == [post[p] EXCEPT !.stage = "answered", !.answer = answer]
<1>0. /\ UNCHANGED <<lock, flushed, scene, cutsOf>>
      /\ UNCHANGED <<runtimeVars, restarts>>
      /\ post' = [post EXCEPT ![p] = x]
  BY ActorTyped DEF Answered, dbVars
<1>1. post[p] \in Request /\ told[p] \in Told /\ RequestInv(p)
  BY ActorTyped
<1>2. "answered" \in Stage
  BY DEF Stage
<1>3. x \in Request  BY <1>1, <1>2, RequestUpdated
<1>4. /\ x.stage = "answered" /\ x.provider = post[p].provider
      /\ x.attempt = post[p].attempt /\ x.draft = post[p].draft
      /\ x.answer = answer
  BY <1>1 DEF Request
<1>5. PICK y \in Told : /\ told' = [told EXCEPT ![p] = y]
                        /\ y.by \subseteq {post[p].provider}
                        /\ y.count = post[p].attempt /\ y.last = reply
  BY Tell
<1>6. post'[p] = x /\ told'[p] = y  BY <1>0, <1>5, ActorTyped
<1> HIDE DEF x
<1>7. RequestInv(p)'
  BY <1>0, <1>1, <1>4, <1>5, <1>6, ActorTyped, DraftConstants
     DEF RequestInv, Asking, Keeping, Answering, At, Answer, Reply
<1> QED  BY <1>0, <1>1, <1>3, <1>5, <1>7, ActorTyped,
            OneRequestActs DEF RequestInv, Keeping, At

(***************************************************************************)
(* A failure that is slept over.                                           *)
(***************************************************************************)
LEMMA SleepKeeps ==
  ASSUME DraftInv, NEW p \in Post, At(p, "calling"),
         post[p].attempt # DraftAttempts, Becomes(p, "sleeping"),
         NEW reply \in {"misshapen", "unavailable"}, Tells(p, reply),
         UNCHANGED <<dbVars, runtimeVars, restarts>>
  PROVE  DraftInv'
<1> DEFINE x == [post[p] EXCEPT !.stage = "sleeping"]
<1>0. /\ UNCHANGED <<lock, flushed, scene, cutsOf>>
      /\ UNCHANGED <<runtimeVars, restarts>>
      /\ post' = [post EXCEPT ![p] = x]
  BY ActorTyped DEF Becomes, dbVars
<1>1. post[p] \in Request /\ told[p] \in Told /\ RequestInv(p)
  BY ActorTyped
<1>2. "sleeping" \in Stage /\ reply \in Reply
  BY DEF Stage, Reply
<1>3. x \in Request  BY <1>1, <1>2, RequestUpdated
<1>4. /\ x.stage = "sleeping" /\ x.provider = post[p].provider
      /\ x.attempt = post[p].attempt /\ x.draft = post[p].draft
      /\ x.answer = post[p].answer
  BY <1>1 DEF Request
<1>5. PICK y \in Told : /\ told' = [told EXCEPT ![p] = y]
                        /\ y.by \subseteq {post[p].provider}
                        /\ y.count = post[p].attempt /\ y.last = reply
  BY <1>2, Tell
<1>6. post'[p] = x /\ told'[p] = y  BY <1>0, <1>5, ActorTyped
<1>7. post[p].attempt \in 1 .. DraftAttempts - 1
  BY <1>1, DraftConstants DEF RequestInv, Asking, At
<1> HIDE DEF x
<1>8. RequestInv(p)'
  BY <1>0, <1>1, <1>4, <1>5, <1>6, <1>7, ActorTyped, DraftConstants
     DEF RequestInv, Asking, Keeping, Answering, At, Answer, Reply
<1> QED  BY <1>0, <1>1, <1>3, <1>5, <1>8, ActorTyped,
            OneRequestActs DEF RequestInv, Keeping, At

(***************************************************************************)
(* The three ways a call to the provider fails.                            *)
(***************************************************************************)
LEMMA DraftRejectedKeeps ==
  ASSUME DraftInv, NEW p \in Post, DraftRejected(p),
         UNCHANGED <<runtimeVars, restarts>>
  PROVE  DraftInv'
<1>1. /\ At(p, "calling") /\ Tells(p, "misshapen") /\ UNCHANGED dbVars
      /\ AgainOrAnswer(p, "SCENE_SCHEMA_INVALID")
  BY DEF DraftRejected
<1>2. "misshapen" \in Reply /\ "SCENE_SCHEMA_INVALID" \in Answer
  BY DEF Reply, Answer
<1>3. CASE post[p].attempt = DraftAttempts
  BY <1>1, <1>2, <1>3, ReportKeeps DEF AgainOrAnswer
<1>4. CASE post[p].attempt # DraftAttempts
  BY <1>1, <1>2, <1>4, SleepKeeps DEF AgainOrAnswer
<1> QED  BY <1>3, <1>4

LEMMA CallUnavailableKeeps ==
  ASSUME DraftInv, NEW p \in Post, CallUnavailable(p),
         UNCHANGED <<runtimeVars, restarts>>
  PROVE  DraftInv'
<1>1. /\ At(p, "calling") /\ Tells(p, "unavailable") /\ UNCHANGED dbVars
      /\ AgainOrAnswer(p, "SCENE_PROVIDER_UNAVAILABLE")
  BY DEF CallUnavailable
<1>2. "unavailable" \in Reply /\ "SCENE_PROVIDER_UNAVAILABLE" \in Answer
  BY DEF Reply, Answer
<1>3. CASE post[p].attempt = DraftAttempts
  BY <1>1, <1>2, <1>3, ReportKeeps DEF AgainOrAnswer
<1>4. CASE post[p].attempt # DraftAttempts
  BY <1>1, <1>2, <1>4, SleepKeeps DEF AgainOrAnswer
<1> QED  BY <1>3, <1>4

LEMMA CallFailedKeeps ==
  ASSUME DraftInv, NEW p \in Post, CallFailed(p),
         UNCHANGED <<runtimeVars, restarts>>
  PROVE  DraftInv'
<1>1. /\ At(p, "calling") /\ Tells(p, "failed") /\ UNCHANGED dbVars
      /\ Answered(p, "SCENE_PROVIDER_FAILED")
  BY DEF CallFailed
<1>2. "failed" \in Reply /\ "SCENE_PROVIDER_FAILED" \in Answer
  BY DEF Reply, Answer
<1> QED  BY <1>1, <1>2, ReportKeeps

(***************************************************************************)
(* The steps of no request.                                                *)
(***************************************************************************)
LEMMA SwitchesModeKeeps ==
  ASSUME DraftInv, SwitchesMode
  PROVE  DraftInv'
<1>1. /\ mode' \in Mode /\ live' = live
      /\ UNCHANGED <<post, told, lock, flushed, scene, cutsOf, restarts>>
  BY DraftConstants DEF SwitchesMode, SwitchMode, draftVars
<1>2. SceneDraftTypeOK'
  BY <1>1 DEF DraftInv, SceneDraftTypeOK, RuntimeTypeOK
<1>3. ASSUME NEW r \in Post PROVE RequestInv(r)'
  BY <1>1, OthersKeep DEF DraftInv
<1> QED  BY <1>2, <1>3 DEF DraftInv

LEMMA RestartKeeps ==
  ASSUME DraftInv, Restart
  PROVE  DraftInv'
<1>1. /\ mode' \in Mode /\ live' \in BOOLEAN
      /\ lock' = NoOne /\ flushed' = {} /\ restarts' = restarts + 1
      /\ UNCHANGED <<told, scene, cutsOf>>
  BY DraftConstants DEF Restart, RuntimeRestart
<1>2. ASSUME NEW r \in Post
      PROVE  post'[r] \in Request /\ RequestInv(r)'
  <2> DEFINE x == [post[r] EXCEPT !.stage = "answered",
                                  !.answer = "CONNECTION_LOST"]
  <2>1. post[r] \in Request /\ told[r] \in Told /\ RequestInv(r)
    BY ActorTyped
  <2>2. "answered" \in Stage /\ "CONNECTION_LOST" \in Answer
    BY DEF Stage, Answer
  <2>3. x \in Request  BY <2>1, <2>2, RequestUpdated
  <2>4. /\ x.stage = "answered" /\ x.provider = post[r].provider
        /\ x.attempt = post[r].attempt /\ x.draft = post[r].draft
        /\ x.answer = "CONNECTION_LOST"
    BY <2>1 DEF Request
  <2>5. post'[r] = IF At(r, "idle") \/ At(r, "answered") THEN post[r] ELSE x
    BY DEF Restart
  <2> HIDE DEF x
  <2>6. CASE At(r, "idle") \/ At(r, "answered")
    <3>1. post'[r] = post[r]  BY <2>5, <2>6
    <3> QED  BY <1>1, <2>1, <2>6, <3>1, DraftConstants
                DEF RequestInv, Asking, Keeping, Answering, At
  <2>7. CASE ~(At(r, "idle") \/ At(r, "answered"))
    <3>1. post'[r] = x  BY <2>5, <2>7
    <3> QED  BY <1>1, <2>1, <2>3, <2>4, <2>7, <3>1, DraftConstants
                DEF RequestInv, Asking, Keeping, Answering, At
  <2> QED  BY <2>6, <2>7
<1>3. post' \in [Post -> Request]
  <2>1. post' = [r \in Post |-> post'[r]]  BY DEF Restart
  <2> QED  BY <1>2, <2>1
<1>4. SceneDraftTypeOK'
  BY <1>1, <1>3 DEF DraftInv, SceneDraftTypeOK, RuntimeTypeOK
<1> QED  BY <1>2, <1>4 DEF DraftInv

(***************************************************************************)
(* The invariant is inductive, and holds always.                           *)
(***************************************************************************)
LEMMA DraftNextKeeps ==
  ASSUME DraftInv, [SceneDraftNext]_<<runtimeVars, draftVars>>
  PROVE  DraftInv'
<1>1. ASSUME NEW p \in Post, PostActs(p)
      PROVE  DraftInv'
  <2> USE <1>1 DEF PostActs
  <2>1. CASE Receive(p)  BY <2>1, ReceiveKeeps
  <2>2. CASE DraftAccepted(p)  BY <2>2, DraftAcceptedKeeps
  <2>3. CASE DraftRejected(p)  BY <2>3, DraftRejectedKeeps
  <2>4. CASE CallUnavailable(p)  BY <2>4, CallUnavailableKeeps
  <2>5. CASE CallFailed(p)  BY <2>5, CallFailedKeeps
  <2>6. CASE CallAgain(p)  BY <2>6, CallAgainKeeps
  <2>7. CASE FlushScene(p)  BY <2>7, FlushSceneKeeps
  <2>8. CASE FlushCuts(p)  BY <2>8, FlushCutsKeeps
  <2>9. CASE CommitScene(p)  BY <2>9, CommitSceneKeeps
  <2>10. CASE SaveLockedOut(p)  BY <2>10, SaveLockedOutKeeps
  <2>11. CASE Respond(p)  BY <2>11, RespondKeeps
  <2> QED  BY <2>1, <2>2, <2>3, <2>4, <2>5, <2>6, <2>7, <2>8, <2>9, <2>10,
              <2>11 DEF PostStep
<1>2. CASE UNCHANGED <<runtimeVars, draftVars>>
  <2>1. UNCHANGED <<mode, live, post, told, lock, flushed, scene, cutsOf,
                    restarts>>
    BY <1>2 DEF runtimeVars, draftVars
  <2>2. SceneDraftTypeOK'
    BY <2>1 DEF DraftInv, SceneDraftTypeOK, RuntimeTypeOK
  <2>3. ASSUME NEW r \in Post PROVE RequestInv(r)'
    BY <2>1, OthersKeep DEF DraftInv
  <2> QED  BY <2>2, <2>3 DEF DraftInv
<1> QED  BY <1>1, <1>2, SwitchesModeKeeps, RestartKeeps DEF SceneDraftNext

LEMMA DraftInvAlways == SceneDraftSpec => []DraftInv
<1>1. SceneDraftInit => DraftInv  BY DraftInitInv
<1>2. DraftInv /\ [SceneDraftNext]_<<runtimeVars, draftVars>> => DraftInv'
  BY DraftNextKeeps
<1> QED  BY <1>1, <1>2, PTL DEF SceneDraftSpec

(***************************************************************************)
(* Type correctness of scene creation (create_scene, _generate_draft).     *)
(***************************************************************************)
THEOREM DraftTypeCorrect == SceneDraftSpec => []SceneDraftTypeOK
<1>1. DraftInv => SceneDraftTypeOK  BY DEF DraftInv
<1> QED  BY <1>1, DraftInvAlways, PTL

(***************************************************************************)
(* Whatever the language model drafts, and wherever the process dies or is *)
(* locked out, a scene is stored with its six cuts in order or not at all. *)
(***************************************************************************)
THEOREM ScenesAreWhole == SceneDraftSpec => []StoredSceneIsWhole
<1>1. DraftInv => StoredSceneIsWhole
  BY DEF DraftInv, SceneDraftTypeOK, RequestInv, Keeping, StoredSceneIsWhole
<1> QED  BY <1>1, DraftInvAlways, PTL

(***************************************************************************)
(* An answer to POST /api/scenes tells what was stored, and what the       *)
(* provider said last.                                                     *)
(***************************************************************************)
THEOREM AnswersTell == SceneDraftSpec => []AnswerTells
<1>1. DraftInv => AnswerTells
  BY DEF DraftInv, RequestInv, Answering, AnswerTells
<1> QED  BY <1>1, DraftInvAlways, PTL

(***************************************************************************)
(* A request asks one provider, at most DraftAttempts times, and not again *)
(* after a draft it took or a permanent failure.                           *)
(***************************************************************************)
THEOREM AsksOneProviderInMeasure ==
  SceneDraftSpec => []OneProviderAskedInMeasure
<1>1. DraftInv => OneProviderAskedInMeasure
  BY DEF DraftInv, RequestInv, Asking, OneProviderAskedInMeasure
<1> QED  BY <1>1, DraftInvAlways, PTL
=============================================================================
