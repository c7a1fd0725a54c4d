------------------------- MODULE ApiVersionImports -------------------------
(***************************************************************************)
(* Theorem about what the status of an ApiVersion says of its document:    *)
(* while nobody edits during an import, a digest that is recorded is that  *)
(* of the document Azure serves.                                           *)
(***************************************************************************)
EXTENDS ApiVersionPromises

Halfway == {"poll", "saveInProgress", "saveSucceeded"}

(* A step that leaves the import at hand, if there is one.                 *)
LEMMA ImportLeft ==
  ASSUME ImportInv, fresh' => fresh,
         Tracked' => Tracked /\ Brings(obj.status.token, obj.spec.content)',
         fresh' \/ Tracked' =>
           obj' # None /\ obj'.spec.content = obj.spec.content,
         Seen' \subseteq Seen \cup {obj'},
         copy' \in Seen \cup {copy, obj', None},
         pc' \in Halfway => ~fresh',
         pc' \in {"poll", "saveInProgress"} => op' # None
  PROVE  ImportInv'
<1>1. fresh' \/ Tracked' => SameContent'
  BY DEF ImportInv, SameContent
<1> QED BY <1>1 DEF ImportInv, Halfway

(* What an import brings does not change while it is Azure's turn, nor by  *)
(* what Reconcile does to the policy or when it deletes.                   *)
LEMMA BringsKept ==
  ASSUME StepInv, NEW token, NEW content, Brings(token, content),
         ImportEnds \/ Drift \/ PutPolicy \/ DeleteApi \/ DeletePolicy
  PROVE  Brings(token, content)'
<1>1. api \in Apis \cup {None} /\ request \in Requests \cup {None}
      /\ outcome \in [Tokens -> {"succeeded", "failed"}]
  BY DEF StepInv, TypeOK, AzureTypeOK
<1>2. served' = served /\ Digest(content)' = Digest(content)
  BY DEF ImportEnds, ImportSucceeds, ImportFails, Drift, PutPolicy, DeleteApi,
         DeletePolicy, Digest
<1>3. CASE ImportSucceeds
  <2>1. request' = None /\ api'.doc = Digest(request.content) /\ request # None
    BY <1>3 DEF ImportSucceeds, Imported
  <2> QED BY <1>2, <2>1 DEF Brings, Serves
<1>4. CASE ImportFails
  <2>1. request \in Requests /\ request' = None /\ api' = api
        /\ outcome' = [outcome EXCEPT ![request.token] = "failed"]
    BY <1>1, <1>4 DEF ImportFails
  <2>2. outcome'[request.token] = "failed"
        /\ (token # request.token => outcome'[token] = outcome[token])
    BY <1>1, <2>1 DEF Requests
  <2> QED BY <1>2, <2>1, <2>2 DEF Brings, Serves, Ended
<1>5. CASE Drift \/ PutPolicy \/ DeleteApi \/ DeletePolicy
  <2>1. request' = request /\ outcome' = outcome
    BY <1>5 DEF Drift, PutPolicy, DeleteApi, DeletePolicy
  <2>2. api' = None \/ (api # None /\ api'.doc = api.doc)
    <3>1. CASE Drift
      BY <1>1, <3>1 DEF Drift, Apis
    <3>2. CASE PutPolicy \/ DeleteApi \/ DeletePolicy
      <4>1. \E policy : api' \in {api, None, WithPolicy(policy)}
        BY <3>2 DEF PutPolicy, DeleteApi, DeletePolicy
      <4> QED BY <1>1, <4>1 DEF WithPolicy, Apis
    <3> QED BY <1>5, <3>1, <3>2
  <2> QED BY <1>2, <2>1, <2>2 DEF Brings, Serves, Ended
<1> QED BY <1>3, <1>4, <1>5 DEF ImportEnds

(* A write, and what the informer may hear of afterwards.                  *)
LEMMA Written ==
  ASSUME StepInv, NEW new \in Objects \cup {None}, NEW ok \in BOOLEAN,
         Submit(new, ok), cached' = cached
  PROVE  /\ Seen' \subseteq Seen \cup {obj'}
         /\ \/ obj' = obj
            \/ fresh /\ obj' = new /\ copy = obj /\ obj \in Objects
<1>1. \/ UNCHANGED server
      \/ fresh /\ Put(new)
  BY DEF Submit
<1>2. CASE UNCHANGED server
  BY <1>2 DEF server, Seen
<1>3. CASE fresh /\ Put(new)
  <2>1. watch \in Seq(Objects \cup {None}) /\ Tracks
    BY DEF StepInv, TypeOK, ClusterTypeOK, ClusterInv
  <2>2. obj' = new /\ Seen' \subseteq Seen \cup {new}
    BY <1>3, <2>1, PutSeen
  <2>3. copy = obj /\ pc # "idle" /\ copy # None /\ obj \in Objects
    BY <1>3 DEF StepInv, TypeOK, ClusterTypeOK, ClusterInv
  <2> QED BY <1>3, <2>2, <2>3
<1> QED BY <1>1, <1>2, <1>3

-----------------------------------------------------------------------------
(* The steps around the Reconcile.                                         *)

LEMMA AroundKeeps ==
  ASSUME StepInv, ImportInv,
         Informer \/ Delayed \/ Resynced \/ Crash \/ UNCHANGED vars
  PROVE  ImportInv'
<1>1. azure' = azure /\ obj' = obj
  BY DEF Informer, Delayed, Resynced, Crash, Deliver, TimerFires, Resync,
         Restart, vars, cluster, server
<1>2. Seen' \subseteq Seen \cup {obj'}
  <2>1. watch \in Seq(Objects \cup {None}) /\ Tracks
    BY DEF StepInv, TypeOK, ClusterTypeOK, ClusterInv
  <2>2. CASE Informer
    BY <2>1, <2>2, DeliverSeen DEF Informer
  <2>3. CASE Delayed \/ Resynced \/ UNCHANGED vars
    BY <2>3 DEF Delayed, Resynced, TimerFires, Resync, vars, cluster, server,
                Seen
  <2>4. CASE Crash
    <3>1. watch' = <<>> /\ cached' = obj
      BY <2>4 DEF Crash, Restart
    <3> QED BY <1>1, <3>1 DEF Seen
  <2> QED BY <2>2, <2>3, <2>4
<1>3. \/ pc' = pc /\ copy' = copy /\ fresh' = fresh /\ op' = op
      \/ pc' = "idle" /\ copy' = None /\ fresh' = FALSE
  BY DEF Informer, Delayed, Resynced, Crash, Deliver, TimerFires, Resync,
         Restart, vars, cluster, worker
<1>4. fresh' \/ Tracked' => SameContent'
  BY <1>1, <1>2, <1>3 DEF ImportInv, SameContent, Tracked
<1> QED BY <1>1, <1>3, <1>4
        DEF ImportInv, Tracked, Brings, Ended, Serves, Digest, azure

(* While nobody edits during an import, a user who edits finds no token    *)
(* recorded.                                                               *)
LEMMA UserLeaves ==
  ASSUME StepInv, ImportInv, ~EditsWhileTracked, User
  PROVE  ImportInv'
<1>1. /\ azure' = azure /\ op' = op /\ pc' = pc /\ copy' = copy
      /\ fresh' = FALSE /\ cached' = cached
  BY DEF User, UserCreates, UserEdits, UserDeletes, UserWrites
<1>2. obj \in Objects \cup {None}
  BY DEF StepInv, TypeOK, ClusterTypeOK
<1>3. PICK new \in Objects \cup {None} :
        /\ Put(new)
        /\ new # None /\ new.status.token # None =>
             Tracked /\ new.status = obj.status /\ new.spec = obj.spec
  <2>1. CASE \E spec \in Choices : UserCreates(spec, NoStatus)
    <3>1. PICK spec \in Choices : UserCreates(spec, NoStatus)
      BY <2>1
    <3> DEFINE new == [spec |-> spec, status |-> NoStatus, fin |-> FALSE,
                       del |-> FALSE]
    <3>2. Put(new)
      BY <3>1 DEF UserCreates, UserWrites
    <3>3. new \in Objects /\ new.status.token = None
      BY ChoicesAreSpecs DEF Objects, Object, NoStatus, Statuses, States
    <3> HIDE DEF new
    <3> QED BY <3>2, <3>3
  <2>2. CASE /\ obj # None /\ obj.status.token = None
             /\ \E spec \in Choices : UserEdits(spec)
    <3>1. PICK spec \in Choices : UserEdits(spec)
      BY <2>2
    <3> DEFINE new == [obj EXCEPT !.spec = spec]
    <3>2. Put(new)
      BY <3>1 DEF UserEdits, UserWrites
    <3>3. new \in Objects /\ new.status.token = None
      BY <1>2, <2>2, ChoicesAreSpecs DEF Objects, Object
    <3> HIDE DEF new
    <3> QED BY <3>2, <3>3
  <2>3. CASE UserDeletes
    <3>1. obj \in Objects
      BY <1>2, <2>3 DEF UserDeletes, Live
    <3> DEFINE marked == [obj EXCEPT !.del = TRUE]
    <3>2. Put(marked) \/ Put(None)
      BY <2>3 DEF UserDeletes, UserWrites
    <3>3. /\ marked \in Objects /\ obj # None
          /\ marked.status = obj.status /\ marked.spec = obj.spec
      BY <3>1, NoneIsNoValue DEF Objects, Object
    <3> HIDE DEF marked
    <3> QED BY <3>2, <3>3 DEF Tracked
  <2> QED BY <2>1, <2>2, <2>3 DEF User
<1>4. obj' = new /\ Seen' \subseteq Seen \cup {obj'}
  <2>1. watch \in Seq(Objects \cup {None}) /\ Tracks
    BY DEF StepInv, TypeOK, ClusterTypeOK, ClusterInv
  <2> QED BY <1>1, <1>3, <2>1, PutSeen
<1>5. Tracked' => /\ Tracked /\ obj'.status.token = obj.status.token
                  /\ obj' # None /\ obj'.spec.content = obj.spec.content
  BY <1>3, <1>4 DEF Tracked
<1>6. Tracked => Brings(obj.status.token, obj.spec.content)
  BY DEF ImportInv
<1>7. Tracked' => SameContent'
  BY <1>1, <1>4, <1>5 DEF ImportInv, SameContent
<1> QED BY <1>1, <1>5, <1>6, <1>7
        DEF ImportInv, Brings, Ended, Serves, Digest, azure

(* ... and nobody publishes another document behind a link.                *)
LEMMA RepublishLeaves ==
  ASSUME ImportInv, ~EditsWhileTracked, Republish
  PROVE  ImportInv'
<1>1. /\ request = None /\ op = None /\ pc # "saveSucceeded" /\ ~Tracked
      /\ obj' = obj /\ Seen' = Seen /\ UNCHANGED <<worker, request, op>>
  BY DEF Republish, Importing, Tracked, server, Seen
<1> QED BY <1>1 DEF ImportInv, SameContent, Tracked, worker

(* What Azure does on its own.                                             *)
LEMMA AzureBrings ==
  ASSUME StepInv, ImportInv, ImportEnds \/ Drift
  PROVE  ImportInv'
<1>1. /\ obj' = obj /\ Seen' = Seen /\ worker' = worker /\ op' = op
      /\ pc' = pc /\ copy' = copy /\ fresh' = fresh
  BY DEF ImportEnds, ImportSucceeds, ImportFails, Drift, cluster, server, Seen,
         worker
<1>2. fresh' \/ Tracked' => SameContent'
  BY <1>1 DEF ImportInv, SameContent, Tracked
<1>3. Tracked' => Brings(obj.status.token, obj.spec.content)'
  BY <1>1, BringsKept DEF ImportInv, Tracked
<1>4. fresh' /\ pc' \in {"poll", "saveInProgress"} =>
        Brings(op, copy.spec.content)'
  BY <1>1, BringsKept DEF ImportInv
<1>5. ASSUME fresh', pc' = "saveSucceeded"
      PROVE  /\ request' # None => request'.content = copy'.spec.content
             /\ Serves(copy.spec.content)'
  <2> DEFINE content == copy.spec.content
  <2>1. /\ request # None => request.content = content
        /\ Serves(content) /\ copy'.spec.content = content
    BY <1>1, <1>5 DEF ImportInv
  <2>2. /\ request' # None => request' = request
        /\ served' = served
    BY <1>1 DEF ImportEnds, ImportSucceeds, ImportFails, Drift, Digest
  <2>3. api' = None \/ api'.doc = Digest(content)
    <3>1. CASE ImportSucceeds
      BY <2>1, <3>1 DEF ImportSucceeds, Imported
    <3>2. CASE ImportFails
      BY <2>1, <3>2 DEF ImportFails, Serves
    <3>3. CASE Drift
      BY <2>1, <3>3 DEF Drift, Serves, StepInv, TypeOK, AzureTypeOK, Apis
    <3> QED BY <3>1, <3>2, <3>3 DEF ImportEnds
  <2> QED BY <1>1, <2>1, <2>2, <2>3 DEF Serves, Digest
<1> QED BY <1>1, <1>2, <1>3, <1>4, <1>5 DEF ImportInv

-----------------------------------------------------------------------------
(* The steps of Reconcile.  One that reads the cache takes a copy that is  *)
(* current if no newer version is on its way.                              *)
LEMMA GetBrings ==
  ASSUME StepInv, ImportInv, Get
  PROVE  ImportInv'
<1>1. /\ azure' = azure /\ op' = op /\ obj' = obj /\ Seen' = Seen
      /\ pc = "idle"
  BY DEF Get, Fetch, Skip, Start, server, Seen
<1>2. CASE Skip
  BY <1>1, <1>2 DEF Skip, worker, ImportInv, SameContent, Tracked, Brings,
                    Ended, Serves, Digest, azure
<1>3. CASE Start("addFinalizer") \/ Start("getApi")
  <2>1. /\ pc' \notin Halfway /\ copy' = cached /\ cached # None
        /\ fresh' = (watch = <<>>)
    BY <1>3 DEF Get, Fetch, Start, Skip, worker, Halfway
  <2>2. CASE watch = <<>>
    <3>1. cached = obj /\ Seen = {obj}
      BY <2>2 DEF StepInv, ClusterInv, Tracks, Seen
    <3>2. SameContent'
      BY <1>1, <2>1, <3>1 DEF SameContent
    <3> QED BY <1>1, <2>1, <3>2 DEF ImportInv, Halfway, Tracked, Brings, Ended,
                                    Serves, Digest, azure
  <2>3. CASE watch # <<>>
    <3>1. fresh' = FALSE /\ cached \in Seen
      BY <2>1, <2>3 DEF Seen
    <3> QED BY <1>1, <2>1, <3>1 DEF ImportInv, SameContent, Halfway, Tracked,
                                    Brings, Ended, Serves, Digest, azure
  <2> QED BY <2>2, <2>3
<1> QED BY <1>2, <1>3 DEF Get, Fetch

(* One that reads or changes something else in Azure.                      *)
LEMMA OtherCallLeaves ==
  ASSUME StepInv, ImportInv,
         GetApi \/ BeginPanics \/ GetPolicy \/ PutPolicy \/ DeleteApi
           \/ DeletePolicy
  PROVE  ImportInv'
<1>1. /\ obj' = obj /\ Seen' = Seen
      /\ copy' \in {copy, None} /\ (fresh' => fresh) /\ pc' \notin Halfway
  BY DEF GetApi, Compare, BeginPanics, GetPolicy, PutPolicy, DeleteApi,
         DeletePolicy, Goto, Retry, Return, server, Seen, Halfway
<1>2. Tracked => Brings(obj.status.token, obj.spec.content)'
  <2>1. CASE GetApi \/ BeginPanics \/ GetPolicy
    BY <1>1, <2>1 DEF GetApi, BeginPanics, GetPolicy, ImportInv, Brings, Ended,
                      Serves, Digest, azure
  <2>2. CASE PutPolicy \/ DeleteApi \/ DeletePolicy
    BY <1>1, <2>2, BringsKept DEF ImportInv
  <2> QED BY <2>1, <2>2
<1>3. (Tracked' => Tracked)
      /\ (fresh' \/ Tracked' => obj' # None)
  BY <1>1 DEF Tracked, ImportInv, SameContent
<1> QED BY <1>1, <1>2, <1>3, ImportLeft DEF Halfway

(* One that writes the object and says nothing of an import under way.     *)
LEMMA OtherWriteLeaves ==
  ASSUME StepInv, ImportInv,
         AddFinalizer \/ SaveSucceeded \/ SavePolicy \/ RemoveFinalizer
  PROVE  ImportInv'
<1>1. /\ azure' = azure /\ cached' = cached /\ pc' \notin Halfway
      /\ (fresh' => fresh)
  <2>1. CASE AddFinalizer
    <3>1. \/ \E requeue \in BOOLEAN : Return(requeue)
          \/ \E new : Proceed("getApi", new)
      BY <2>1 DEF AddFinalizer, Finalize, Retry
    <3>2. azure' = azure
      BY <2>1 DEF AddFinalizer
    <3> QED BY <3>1, <3>2 DEF Proceed, Return, Halfway
  <2>2. CASE SaveSucceeded \/ SavePolicy \/ RemoveFinalizer
    BY <2>2 DEF SaveSucceeded, SavePolicy, RemoveFinalizer, LetGo, Retry,
                Return, Halfway
  <2> QED BY <2>1, <2>2
<1>2. copy \in Objects /\ copy.status \in Statuses /\ copy.spec \in Specs
  BY DEF AddFinalizer, SaveSucceeded, SavePolicy, RemoveFinalizer, Finalize,
         LetGo, StepInv, TypeOK, ClusterTypeOK, ClusterInv, Objects, Object
<1>3. PICK new \in Objects \cup {None}, ok \in BOOLEAN :
        /\ Submit(new, ok)
        /\ \/ copy' = None /\ fresh' = FALSE
           \/ copy' = new /\ new \in Objects /\ ok
        /\ new # None => /\ new.spec = copy.spec
                         /\ new.status.token \in {copy.status.token, None}
  <2>1. CASE AddFinalizer
    <3> DEFINE new == [copy EXCEPT !.fin = TRUE]
    <3>1. new \in Objects /\ new.spec = copy.spec /\ new.status = copy.status
      BY <1>2 DEF Objects, Object
    <3>2. \/ \E ok \in BOOLEAN, requeue \in BOOLEAN :
               Submit(new, ok) /\ Return(requeue)
          \/ Submit(new, TRUE) /\ Proceed("getApi", new)
      BY <2>1 DEF AddFinalizer, Finalize, Retry
    <3> HIDE DEF new
    <3>3. \E ok \in BOOLEAN :
            /\ Submit(new, ok)
            /\ \/ copy' = None /\ fresh' = FALSE
               \/ copy' = new /\ ok
      BY <3>2 DEF Return, Proceed
    <3> QED BY <3>1, <3>3
  <2>2. CASE SaveSucceeded
    <3>1. PICK sha \in Documents \cup ErrorPages \cup {None},
               ok \in BOOLEAN :
            Submit([copy EXCEPT !.status = AppliedStatus(sha)], ok)
      <4>1. Digest(copy.spec.content) \in Documents
        BY <1>2 DEF Specs, Digest, StepInv, TypeOK, AzureTypeOK
      <4> QED BY <2>2, <4>1 DEF SaveSucceeded, SubmitStatus
    <3> DEFINE new == [copy EXCEPT !.status = AppliedStatus(sha)]
    <3>2. AppliedStatus(sha) \in Statuses /\ AppliedStatus(sha).token = None
      BY <1>2 DEF AppliedStatus, Statuses, States
    <3>3. new \in Objects /\ new.spec = copy.spec /\ new.status.token = None
      BY <1>2, <3>2 DEF Objects, Object
    <3>4. Submit(new, ok) /\ copy' = None /\ fresh' = FALSE
      BY <2>2, <3>1 DEF SaveSucceeded, Retry, Return
    <3> HIDE DEF new
    <3> QED BY <3>3, <3>4
  <2>3. CASE SavePolicy
    <3> DEFINE status == [copy.status EXCEPT !.psha = copy.spec.policy]
               new == [copy EXCEPT !.status = status]
    <3>1. status \in Statuses /\ status.token = copy.status.token
      BY <1>2 DEF Statuses, Specs
    <3>2. \E ok \in BOOLEAN : Submit(new, ok)
      BY <2>3 DEF SavePolicy, SubmitStatus
    <3> HIDE DEF status
    <3>3. /\ new \in Objects /\ new.spec = copy.spec
          /\ new.status.token = copy.status.token
      BY <1>2, <3>1 DEF Objects, Object
    <3>4. copy' = None /\ fresh' = FALSE
      BY <2>3 DEF SavePolicy, Retry, Return
    <3> HIDE DEF new
    <3> QED BY <3>2, <3>3, <3>4
  <2>4. CASE RemoveFinalizer
    <3>1. copy.del
      BY <2>4 DEF RemoveFinalizer, LetGo, StepInv, PathInv, DeleteSteps
    <3>2. /\ \E ok \in BOOLEAN : Submit(None, ok)
          /\ copy' = None /\ fresh' = FALSE
      BY <2>4, <3>1 DEF RemoveFinalizer, LetGo, WithoutFinalizer, Return
    <3> QED BY <3>2
  <2> QED BY <2>1, <2>2, <2>3, <2>4
<1>4. /\ Seen' \subseteq Seen \cup {obj'}
      /\ \/ obj' = obj
         \/ fresh /\ obj' = new /\ copy = obj /\ obj \in Objects
  BY <1>1, <1>3, Written
<1>5. copy' # None \/ fresh' =>
        fresh /\ obj' = new /\ copy' = new /\ new # None /\ copy = obj
  BY <1>1, <1>3, NoneIsNoValue DEF Submit, Put, StepInv, ClusterInv
<1>6. Tracked' => Tracked /\ obj'.status.token = obj.status.token
  BY <1>3, <1>4, NoneIsNoValue DEF Tracked
<1>7. fresh' \/ Tracked' => obj' # None /\ obj'.spec.content = obj.spec.content
  BY <1>3, <1>4, <1>5 DEF Tracked
<1>8. copy' \in Seen \cup {copy, obj', None}
  BY <1>3, <1>5
<1>9. Tracked' => Brings(obj.status.token, obj.spec.content)'
  BY <1>1, <1>6, <1>7 DEF ImportInv, Brings, Ended, Serves, Digest, azure
<1> QED BY <1>1, <1>4, <1>6, <1>7, <1>8, <1>9, ImportLeft DEF Halfway

-----------------------------------------------------------------------------
(* createUpdateApimApi.  A recorded token is resumed for the content it    *)
(* was recorded for.                                                       *)
LEMMA ResumeBrings ==
  ASSUME StepInv, ImportInv, ResumeImport
  PROVE  ImportInv'
<1>1. /\ obj' = obj /\ Seen' = Seen /\ azure' = azure /\ copy' = copy
      /\ fresh' = fresh /\ pc' = "poll"
      /\ op' = copy.status.token /\ op' # None
  BY DEF ResumeImport, Goto, server, Seen
<1>2. fresh => Tracked /\ copy = obj
  <2>1. fresh => copy = obj /\ copy # None
    BY DEF ResumeImport, StepInv, ClusterInv
  <2> QED BY <1>1, <2>1 DEF Tracked
<1> QED BY <1>1, <1>2 DEF ImportInv, SameContent, Tracked, Brings, Ended,
                          Serves, Digest, azure

(* While a recorded import is running no other is accepted, and one that   *)
(* is accepted after it is of the same content.                            *)
LEMMA StartBrings ==
  ASSUME StepInv, ImportInv, StartImport
  PROVE  ImportInv'
<1>1. PICK err \in Errors, done \in BOOLEAN, t \in UnusedTokens :
        /\ Call(TRUE, request # None, done, err)
        /\ request' = IF done THEN [content |-> copy.spec.content, token |-> t]
                      ELSE request
        /\ \/ err = "none" /\ op' = t /\ Goto("poll")
           \/ err # "none" /\ UNCHANGED op /\ Retry
  BY DEF StartImport
<1>2. /\ obj' = obj /\ Seen' = Seen /\ api' = api /\ served' = served
      /\ outcome' = outcome /\ copy # None /\ (done => request = None)
      /\ t \in Tokens /\ t # None
  <2>1. cached' = cached
    BY <1>1 DEF Goto, Retry, Return
  <2>2. obj' = obj /\ Seen' = Seen /\ api' = api /\ served' = served
        /\ outcome' = outcome
    BY <2>1 DEF StartImport, server, Seen
  <2>3. done => request = None
    BY <1>1 DEF Call
  <2>4. copy # None /\ t \in Tokens /\ t # None
    BY NoneIsNoValue DEF StartImport, StepInv, ClusterInv, UnusedTokens
  <2> QED BY <2>2, <2>3, <2>4
<1>3. Tracked => Brings(obj.status.token, obj.spec.content)'
  <2> SUFFICES ASSUME Tracked
               PROVE  Brings(obj.status.token, obj.spec.content)'
    OBVIOUS
  <2>1. CASE ~done
    BY <1>1, <1>2, <2>1 DEF ImportInv, Brings, Ended, Serves, Digest
  <2>2. CASE done
    <3>1. obj.status.token # t
      BY DEF Tracked, UnusedTokens, Versions
    <3>2. copy.spec.content = obj.spec.content
      BY <1>2 DEF ImportInv, SameContent
    <3>3. Ended(obj.status.token)' => Ended(obj.status.token)
      BY <1>2, <2>2 DEF Ended
    <3>4. request' = [content |-> copy.spec.content, token |-> t]
      BY <1>1, <2>2
    <3> QED BY <1>2, <3>2, <3>3, <3>4 DEF ImportInv, Brings, Serves, Digest
  <2> QED BY <2>1, <2>2
<1>4. CASE err # "none"
  <2>1. copy' = None /\ fresh' = FALSE /\ pc' = "idle"
    BY <1>1, <1>4 DEF Retry, Return
  <2>2. Tracked' => Tracked /\ obj' # None
    BY <1>2 DEF Tracked
  <2> QED BY <1>2, <1>3, <2>1, <2>2, ImportLeft DEF Halfway
<1>5. CASE err = "none"
  <2>1. done /\ op' = t /\ pc' = "poll" /\ copy' = copy /\ fresh' = fresh
    BY <1>1, <1>5 DEF Call, Goto
  <2>2. request' = [content |-> copy.spec.content, token |-> t]
    BY <1>1, <2>1
  <2>3. request' # None /\ request'.content = copy.spec.content
        /\ request'.token = t
    <3>1. copy.spec.content \in Documents \cup Links
      BY <1>2 DEF StepInv, TypeOK, ClusterTypeOK, Objects, Object, Specs
    <3> QED BY <1>2, <2>2, <3>1, NoneIsNoValue DEF Requests
  <2>4. Brings(op, copy.spec.content)'
    BY <2>1, <2>3 DEF Brings, Ended
  <2>5. fresh' \/ Tracked' => SameContent'
    BY <1>2, <2>1 DEF ImportInv, SameContent, Tracked
  <2>6. Tracked' => Brings(obj.status.token, obj.spec.content)'
    BY <1>2, <1>3 DEF Tracked
  <2> QED BY <1>2, <2>1, <2>4, <2>5, <2>6 DEF ImportInv
<1> QED BY <1>4, <1>5

(* The poller says that its import succeeded only when it did.             *)
LEMMA PollBrings ==
  ASSUME StepInv, ImportInv, Poll
  PROVE  ImportInv'
<1>1. PICK answer \in PollAnswers \cup {PollFails} :
        LET result == StartResumeOperation(answer) IN
        \/ result.err /\ Retry /\ op' = None
        \/ ~result.err /\ result.status = "InProgress"
             /\ Goto("saveInProgress") /\ UNCHANGED op
        \/ ~result.err /\ result.status = "Succeeded"
             /\ Goto("saveSucceeded") /\ op' = None
  BY DEF Poll
<1> DEFINE result == StartResumeOperation(answer)
<1>2. /\ obj' = obj /\ Seen' = Seen /\ azure' = azure /\ pc = "poll"
      /\ op # None
  <2>1. cached' = cached
    BY <1>1 DEF Goto, Retry, Return
  <2> QED BY <2>1 DEF Poll, server, Seen, ImportInv
<1>3. Tracked => Brings(obj.status.token, obj.spec.content)'
  BY <1>2 DEF ImportInv, Brings, Ended, Serves, Digest, azure
<1>4. CASE result.err /\ Retry /\ op' = None
  <2>1. copy' = None /\ fresh' = FALSE /\ pc' = "idle"
    BY <1>4 DEF Retry, Return
  <2>2. Tracked' => Tracked /\ obj' # None
    BY <1>2 DEF Tracked
  <2> QED BY <1>2, <1>3, <2>1, <2>2, ImportLeft DEF Halfway
<1>5. CASE Goto("saveInProgress") /\ UNCHANGED op
  <2>1. pc' = "saveInProgress" /\ copy' = copy /\ fresh' = fresh /\ op' = op
    BY <1>5 DEF Goto
  <2> QED BY <1>2, <2>1 DEF ImportInv, SameContent, Tracked, Brings, Ended,
                            Serves, Digest, azure
<1>6. CASE ~result.err /\ result.status = "Succeeded" /\ Goto("saveSucceeded")
  <2>1. pc' = "saveSucceeded" /\ copy' = copy /\ fresh' = fresh
    BY <1>6 DEF Goto
  <2>2. answer.done /\ ~answer.pollErr /\ ~answer.resultErr
    BY <1>6 DEF StartResumeOperation
  <2>3. Ended(op)
    <3>1. answer # PollFails /\ \A c : answer # StillRunning(c)
      <4>1. ~PollFails.done /\ \A c : ~StillRunning(c).done
        BY DEF PollFails, StillRunning
      <4> QED BY <2>2, <4>1
    <3>2. /\ ~(request # None /\ request.token = op)
          /\ answer = Finished(outcome[op] = "failed")
      BY <3>1 DEF PollAnswers
    <3>3. Finished(outcome[op] = "failed").resultErr = (outcome[op] = "failed")
      BY DEF Finished, PollFails
    <3>4. outcome[op] \in {"succeeded", "failed"}
      BY <1>2 DEF StepInv, TypeOK, AzureTypeOK
    <3> QED BY <2>2, <3>2, <3>3, <3>4 DEF Ended
  <2> QED BY <1>2, <2>1, <2>3 DEF ImportInv, SameContent, Tracked, Brings,
                                  Ended, Serves, Digest, azure
<1> QED BY <1>1, <1>4, <1>5, <1>6

(* The token that is recorded is that of an import of the content the      *)
(* object has: otherwise the write is refused.                             *)
LEMMA SaveBrings ==
  ASSUME StepInv, ImportInv, SaveInProgress
  PROVE  ImportInv'
<1> DEFINE status == [copy.status EXCEPT !.prov = "Provisioning", !.token = op]
           new    == [copy EXCEPT !.status = status]
<1>1. /\ azure' = azure /\ cached' = cached
      /\ pc = "saveInProgress" /\ op # None /\ op \in Tokens
      /\ pc' = "idle" /\ copy' = None /\ fresh' = FALSE
  BY DEF SaveInProgress, Retry, Return, ImportInv, StepInv, TypeOK, AzureTypeOK
<1>2. copy \in Objects /\ copy.status \in Statuses
  BY <1>1 DEF StepInv, TypeOK, ClusterTypeOK, ClusterInv, Objects, Object
<1>3. status \in Statuses /\ status.token = op
  BY <1>1, <1>2 DEF Statuses, States
<1>4. \E ok \in BOOLEAN : Submit(new, ok)
  BY DEF SaveInProgress, SubmitStatus
<1> HIDE DEF status
<1>5. new \in Objects /\ new.spec = copy.spec /\ new.status.token = op
  BY <1>2, <1>3 DEF Objects, Object
<1> HIDE DEF new
<1>6. /\ Seen' \subseteq Seen \cup {obj'}
      /\ \/ obj' = obj
         \/ fresh /\ obj' = new /\ copy = obj
  BY <1>1, <1>4, <1>5, Written
<1>7. CASE obj' = obj
  <2>1. Tracked' => Tracked /\ obj' # None
                    /\ Brings(obj.status.token, obj.spec.content)'
    BY <1>1, <1>7 DEF Tracked, ImportInv, Brings, Ended, Serves, Digest, azure
  <2> QED BY <1>1, <1>6, <1>7, <2>1, ImportLeft DEF Halfway
<1>8. CASE fresh /\ obj' = new /\ copy = obj
  <2>1. obj'.spec = obj.spec /\ obj'.status.token = op /\ obj' # None
    BY <1>5, <1>8, NoneIsNoValue
  <2>2. SameContent'
    BY <1>1, <1>6, <1>8, <2>1 DEF ImportInv, SameContent
  <2>3. Brings(obj.status.token, obj.spec.content)'
    BY <1>1, <1>8, <2>1 DEF ImportInv, Brings, Ended, Serves, Digest, azure
  <2> QED BY <1>1, <2>2, <2>3 DEF ImportInv
<1> QED BY <1>6, <1>7, <1>8

-----------------------------------------------------------------------------
LEMMA ImportStep ==
  ASSUME StepInv, ImportInv, ~EditsWhileTracked, [Next]_vars
  PROVE  ImportInv'
<1>1. CASE User
  BY <1>1, UserLeaves
<1>2. CASE Republish
  BY <1>2, RepublishLeaves
<1>3. CASE ImportEnds \/ Drift
  BY <1>3, AzureBrings
<1>4. CASE Informer \/ Delayed \/ Resynced \/ Crash \/ UNCHANGED vars
  BY <1>4, AroundKeeps
<1>5. CASE Get
  BY <1>5, GetBrings
<1>6. CASE \/ GetApi \/ BeginPanics \/ GetPolicy \/ PutPolicy \/ DeleteApi
           \/ DeletePolicy
  BY <1>6, OtherCallLeaves
<1>7. CASE AddFinalizer \/ SaveSucceeded \/ SavePolicy \/ RemoveFinalizer
  BY <1>7, OtherWriteLeaves
<1>8. CASE ResumeImport
  BY <1>8, ResumeBrings
<1>9. CASE StartImport
  BY <1>9, StartBrings
<1>10. CASE Poll
  BY <1>10, PollBrings
<1>11. CASE SaveInProgress
  BY <1>11, SaveBrings
<1> QED BY <1>1, <1>2, <1>3, <1>4, <1>5, <1>6, <1>7, <1>8, <1>9, <1>10, <1>11
        DEF Next, Reconcile

(* Only the report of a success records a digest.                          *)
LEMMA ShaWritten ==
  ASSUME StepInv, [Next]_vars, RecordsSha
  PROVE  /\ SaveSucceeded /\ fresh
         /\ obj'.status.sha = Digest(copy.spec.content)
<1>1. obj # None /\ obj' # None /\ obj \in Objects
      /\ obj'.status.sha \in Documents \ {obj.status.sha}
  BY DEF RecordsSha, StepInv, TypeOK, ClusterTypeOK
<1>2. CASE SaveSucceeded
  <2>1. PICK sha \in {Digest(copy.spec.content), None} \cup ErrorPages,
             ok \in BOOLEAN :
          Submit([copy EXCEPT !.status = AppliedStatus(sha)], ok)
    BY <1>2 DEF SaveSucceeded, SubmitStatus
  <2>2. obj' # obj
    BY <1>1
  <2>3. copy = obj /\ obj' = [copy EXCEPT !.status = AppliedStatus(sha)]
    BY <2>1, <2>2, Submitted
  <2>4. fresh
    BY <2>1, <2>2 DEF Submit, server
  <2>5. copy.status \in Statuses
    BY <1>1, <2>3 DEF Objects, Object
  <2>6. AppliedStatus(sha).sha = sha
    BY <2>5 DEF AppliedStatus, Statuses
  <2>7. obj'.status = AppliedStatus(sha)
    BY <1>1, <2>3 DEF Objects, Object
  <2>8. sha \notin ErrorPages \cup {None}
    BY <1>1, <2>6, <2>7, NoneIsNoValue, PagesAreNoDocuments
  <2> QED BY <1>2, <2>1, <2>4, <2>6, <2>7, <2>8
<1>3. CASE SaveInProgress
  <2> DEFINE status == [copy.status EXCEPT !.prov = "Provisioning", !.token = op]
  <2>1. \E ok \in BOOLEAN : Submit([copy EXCEPT !.status = status], ok)
    BY <1>3 DEF SaveInProgress, SubmitStatus
  <2>2. copy = obj /\ obj' = [copy EXCEPT !.status = status]
    BY <1>1, <2>1, Submitted
  <2>3. copy.status \in Statuses
    BY <1>1, <2>2 DEF Objects, Object
  <2>4. status.sha = copy.status.sha
    BY <2>3 DEF Statuses
  <2> HIDE DEF status
  <2>5. obj'.status = status
    BY <1>1, <2>2 DEF Objects, Object
  <2> QED BY <1>1, <2>2, <2>4, <2>5
<1>4. CASE SavePolicy
  <2> DEFINE status == [copy.status EXCEPT !.psha = copy.spec.policy]
  <2>1. \E ok \in BOOLEAN : Submit([copy EXCEPT !.status = status], ok)
    BY <1>4 DEF SavePolicy, SubmitStatus
  <2>2. copy = obj /\ obj' = [copy EXCEPT !.status = status]
    BY <1>1, <2>1, Submitted
  <2>3. copy.status \in Statuses
    BY <1>1, <2>2 DEF Objects, Object
  <2>4. status.sha = copy.status.sha
    BY <2>3 DEF Statuses
  <2> HIDE DEF status
  <2>5. obj'.status = status
    BY <1>1, <2>2 DEF Objects, Object
  <2> QED BY <1>1, <2>2, <2>4, <2>5
<1>5. CASE AddFinalizer
  <2>1. PICK ok \in BOOLEAN : Submit([copy EXCEPT !.fin = TRUE], ok)
    BY <1>5 DEF AddFinalizer, Finalize
  <2> QED BY <1>1, <2>1, Submitted DEF Objects, Object
<1>6. CASE RemoveFinalizer
  <2>1. copy.del
    BY <1>6 DEF RemoveFinalizer, LetGo, StepInv, PathInv, DeleteSteps
  <2>2. PICK ok \in BOOLEAN : Submit(None, ok)
    BY <1>6, <2>1 DEF RemoveFinalizer, LetGo, WithoutFinalizer
  <2> QED BY <1>1, <2>2, Submitted
<1>7. CASE User
  BY <1>1, <1>7 DEF User, UserCreates, UserEdits, UserDeletes, UserWrites, Put,
                    Objects, Object
<1>8. CASE Quiet \/ Republish \/ UNCHANGED vars
  BY <1>1, <1>8, QuietKeeps DEF Republish, server, vars, cluster
<1> QED BY <1>2, <1>3, <1>4, <1>5, <1>6, <1>7, <1>8 DEF Next, Reconcile, Quiet

(* While nobody edits during an import, a resumed, running or reported     *)
(* import is one of the content the object has.                            *)
THEOREM ImportsMatch == ~EditsWhileTracked => (Spec => []ImportInv)
<1> SUFFICES ASSUME ~EditsWhileTracked PROVE Spec => []ImportInv
  OBVIOUS
<1>1. Init => ImportInv
  BY DEF Init, ClusterInit, ImportInv, Tracked
<1>2. StepInv /\ ImportInv /\ [Next]_vars => ImportInv'
  BY ImportStep
<1> QED BY <1>1, <1>2, StepInvAlways, PTL DEF Spec

(* A document whose digest is newly recorded in the status is the one the  *)
(* API serves, whatever crashes, answers lost, links that answer with an   *)
(* error page and imports that Azure rejects, provided that nobody edits   *)
(* the object or its linked document between the start of an import and    *)
(* its report: the token does not say what is being imported, and the run  *)
(* ApiVersionStaleToken shows what happens otherwise.  The digest of an    *)
(* error page may be recorded as well, and says nothing of the API.        *)
THEOREM ShaIsImported == ~EditsWhileTracked => (Spec => RecordedShaIsImported)
<1> SUFFICES ASSUME ~EditsWhileTracked PROVE Spec => RecordedShaIsImported
  OBVIOUS
<1>1. Spec => []ImportInv
  BY ImportsMatch
<1>2. StepInv /\ ImportInv /\ [Next]_vars
        => [RecordsSha /\ api' # None => api'.doc = obj'.status.sha]_vars
  <2> SUFFICES ASSUME StepInv, ImportInv, [Next]_vars, RecordsSha, api' # None
               PROVE  api'.doc = obj'.status.sha
    OBVIOUS
  <2>1. SaveSucceeded /\ fresh /\ obj'.status.sha = Digest(copy.spec.content)
    BY ShaWritten
  <2>2. Serves(copy.spec.content) /\ api' = api
    BY <2>1 DEF SaveSucceeded, ImportInv, azure
  <2> QED BY <2>1, <2>2 DEF Serves
<1> QED BY <1>1, <1>2, StepInvAlways, PTL DEF Spec, RecordedShaIsImported
=============================================================================
