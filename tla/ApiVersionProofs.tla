-------------------------- MODULE ApiVersionProofs --------------------------
(***************************************************************************)
(* Theorems about ApiVersionController, for every set of documents, links, *)
(* policies and operations and every bound on edits and faults.            *)
(***************************************************************************)
EXTENDS ApiVersionController, ClusterProofs

LEMMA Types ==
  /\ None \notin Object(Specs, Statuses)
  /\ "idle" \in Steps /\ CreateSteps \subseteq Steps /\ DeleteSteps \subseteq Steps
  /\ {"addFinalizer", "getApi"} \subseteq Steps
BY NoneIsNoValue DEF Objects, Steps, CreateSteps, DeleteSteps

(* The dead branch of createUpdateApimApi (apiversion_controller.go:154-   *)
(* 162): StartResumeOperation says "Failed" only together with an error,   *)
(* so that the case which clears the token and reports "Failed" is never   *)
(* reached.                                                                *)
THEOREM FailedMeansError ==
  \A answer \in Answers :
    StartResumeOperation(answer).status = "Failed" =>
      StartResumeOperation(answer).err
BY DEF Answers, StartResumeOperation

-----------------------------------------------------------------------------
(* A step of the environment of the worker keeps its place in Reconcile.   *)

LEMMA PathKept ==
  ASSUME PathInv, pc' = pc, copy' = copy, Held => Held'
  PROVE  PathInv'
BY DEF PathInv

LEMMA PathReset ==
  ASSUME pc' = "idle"
  PROVE  PathInv'
BY DEF PathInv, CreateSteps, DeleteSteps

LEMMA UserKeeps ==
  ASSUME StepInv, User
  PROVE  StepInv' /\ (Held => Held')
<1>1. Good(Object(Specs, Statuses), Steps)' /\ (Held => Held')
  <2>1. Good(Object(Specs, Statuses), Steps)
    BY DEF StepInv, TypeOK, Good, Objects
  <2>2. CASE \E spec \in Choices : UserCreates(spec, NoStatus)
    <3>1. NoStatus \in Statuses
      BY DEF NoStatus, Statuses, States
    <3> QED BY <2>1, <2>2, <3>1, ChoicesAreSpecs, Types, UserStepsKeep
  <2>3. CASE obj # None /\ \E spec \in Choices : UserEdits(spec)
    <3>1. obj.status \in Statuses
      BY <2>1, <2>3 DEF Good, ClusterTypeOK, Object
    <3> QED BY <2>1, <2>3, <3>1, ChoicesAreSpecs, Types, UserStepsKeep
  <2>4. CASE UserDeletes
    <3>1. obj.status \in Statuses /\ obj.spec \in Specs
      BY <2>1, <2>4 DEF UserDeletes, Live, Good, ClusterTypeOK, Object
    <3> QED BY <2>1, <2>4, <3>1, Types, UserStepsKeep
  <2> QED BY <2>2, <2>3, <2>4 DEF User
<1>2. AzureTypeOK'
  BY DEF StepInv, TypeOK, AzureTypeOK, User, azure
<1>3. pc' = pc /\ copy' = copy
  BY DEF User, UserCreates, UserEdits, UserDeletes, UserWrites
<1> QED BY <1>1, <1>2, <1>3, PathKept DEF StepInv, TypeOK, Good, Objects

LEMMA InformerKeeps ==
  ASSUME StepInv, Informer \/ Delayed \/ Resynced \/ Crash
  PROVE  StepInv' /\ Held' = Held
<1>1. Good(Object(Specs, Statuses), Steps)' /\ Held' = Held
  <2>1. Good(Object(Specs, Statuses), Steps)
    BY DEF StepInv, TypeOK, Good, Objects
  <2>2. Deliver \/ TimerFires \/ Resync \/ Restart
    BY DEF Informer, Delayed, Resynced, Crash
  <2> QED BY <2>1, <2>2, Types, EnvironmentKeeps
<1>2. AzureTypeOK'
  BY DEF StepInv, TypeOK, AzureTypeOK, Informer, Delayed, Resynced, Crash, azure
<1>3. PathInv'
  <2>1. CASE Crash
    BY <2>1, PathReset DEF Crash, Restart
  <2>2. CASE Informer \/ Delayed \/ Resynced
    <3>1. pc' = pc /\ copy' = copy
      BY <2>2 DEF Informer, Delayed, Resynced, Deliver, TimerFires, Resync,
                  worker
    <3> QED BY <1>1, <3>1, PathKept DEF StepInv
  <2> QED BY <2>1, <2>2
<1> QED BY <1>1, <1>2, <1>3 DEF StepInv, TypeOK, Good, Objects

LEMMA AzureKeeps ==
  ASSUME StepInv, Republish \/ ImportEnds \/ Drift
  PROVE  StepInv' /\ Held' = Held
<1>1. /\ server' = server /\ cached' = cached /\ queue' = queue
      /\ configured' = configured /\ worker' = worker
  BY DEF Republish, ImportEnds, ImportSucceeds, ImportFails, Drift,
         cluster, server, queue, worker
<1>2. edits' \in 0 .. MaxEdits
  <2>1. edits' = edits \/ (edits < MaxEdits /\ edits' = edits + 1)
    BY DEF Republish, ImportEnds, ImportSucceeds, ImportFails, Drift, cluster
  <2> QED BY <2>1, BudgetsAreNaturals DEF StepInv, TypeOK, ClusterTypeOK
<1>3. faults' \in 0 .. MaxFaults
  <2>1. faults' = faults \/ Fault
    BY DEF Republish, ImportEnds, ImportSucceeds, ImportFails, Drift, cluster
  <2> QED BY <2>1, FaultsBounded DEF StepInv, TypeOK, ClusterTypeOK
<1>4. ClusterTypeOK(Objects, Steps)' /\ ClusterInv' /\ Held' = Held
  BY <1>1, <1>2, <1>3
     DEF StepInv, TypeOK, ClusterTypeOK, ClusterInv, server, queue, worker,
         Held, Tracks, Seen, Blocked
<1>5. PathInv'
  BY <1>1, <1>4, PathKept DEF StepInv, worker
<1>6. AzureTypeOK'
  <2>1. CASE Republish
    BY <2>1 DEF StepInv, TypeOK, AzureTypeOK, Republish
  <2>2. CASE ImportSucceeds
    <3>1. request \in Requests /\ request.content \in Documents \cup Links
      BY <2>2 DEF StepInv, TypeOK, AzureTypeOK, ImportSucceeds, Requests
    <3>2. Digest(request.content) \in Documents
      BY <3>1 DEF StepInv, TypeOK, AzureTypeOK, Digest
    <3>3. api' \in Apis
      BY <2>2, <3>1, <3>2 DEF StepInv, TypeOK, AzureTypeOK, ImportSucceeds,
                              Imported, Apis, Requests
    <3> QED BY <2>2, <3>3 DEF StepInv, TypeOK, AzureTypeOK, ImportSucceeds
  <2>3. CASE ImportFails
    BY <2>3 DEF StepInv, TypeOK, AzureTypeOK, ImportFails, cluster
  <2>4. CASE Drift
    BY <2>4 DEF StepInv, TypeOK, AzureTypeOK, Drift, Apis
  <2> QED BY <2>1, <2>2, <2>3, <2>4 DEF ImportEnds
<1> QED BY <1>4, <1>5, <1>6 DEF StepInv, TypeOK

-----------------------------------------------------------------------------
(* The steps of Reconcile.  A step that only reads the cluster ...         *)

LEMMA ReadStep ==
  ASSUME StepInv, pc # "idle", UNCHANGED server, faults' = faults \/ Fault,
         AzureTypeOK', PathInv',
         \/ \E step \in Steps \ {"idle"} : Goto(step)
         \/ \E requeue \in BOOLEAN : Return(requeue)
  PROVE  StepInv' /\ Held' = Held
<1>1. Good(Object(Specs, Statuses), Steps)
  BY DEF StepInv, TypeOK, Good, Objects
<1>2. Good(Object(Specs, Statuses), Steps)' /\ Held' = Held
  BY <1>1, Types, ReadKeeps
<1> QED BY <1>2 DEF StepInv, TypeOK, Good, Objects

(* ... and one that ends with an update of the status.                     *)
LEMMA StatusStep ==
  ASSUME StepInv, pc \in CreateSteps, NEW status \in Statuses,
         NEW ok \in BOOLEAN, SubmitStatus(status, ok), Retry, AzureTypeOK'
  PROVE  StepInv' /\ (Held => Held')
<1> DEFINE new == [copy EXCEPT !.status = status]
<1>1. pc # "idle" /\ copy \in Object(Specs, Statuses) /\ copy.fin
  BY DEF StepInv, TypeOK, ClusterTypeOK, ClusterInv, PathInv, Objects,
         CreateSteps
<1>2. new \in Object(Specs, Statuses) /\ Keeps(new)
  BY <1>1, Types DEF Object, Keeps, Blocked
<1>3. Submit(new, ok) /\ Return(TRUE)
  BY DEF SubmitStatus, Retry
<1>4. Good(Object(Specs, Statuses), Steps)
  BY DEF StepInv, TypeOK, Good, Objects
<1>5. Good(Object(Specs, Statuses), Steps)' /\ (Held => Held')
  <2> HIDE DEF new
  <2> QED BY <1>1, <1>2, <1>3, <1>4, Types, SubmitReturnKeeps
<1>6. PathInv'
  BY <1>3, PathReset DEF Return
<1> QED BY <1>5, <1>6 DEF StepInv, TypeOK, Good, Objects

LEMMA GetKeeps ==
  ASSUME StepInv, Get
  PROVE  StepInv' /\ Held' = Held
<1>1. Good(Object(Specs, Statuses), Steps)
  BY DEF StepInv, TypeOK, Good, Objects
<1>2. /\ Good(Object(Specs, Statuses), Steps)' /\ Held' = Held
      /\ \/ pc' = "idle"
         \/ pc' = "addFinalizer" /\ ~copy'.fin
         \/ pc' = "getApi" /\ copy'.fin /\ (~copy'.del => Held')
  <2>1. "addFinalizer" \in Steps /\ "getApi" \in Steps \ {"idle"}
    BY Types
  <2> QED BY <1>1, <2>1, FetchKeeps DEF Get
<1>3. PathInv'
  BY <1>2 DEF PathInv, CreateSteps, DeleteSteps
<1>4. AzureTypeOK'
  BY DEF StepInv, TypeOK, AzureTypeOK, Get, azure
<1> QED BY <1>2, <1>3, <1>4 DEF StepInv, TypeOK, Good, Objects

LEMMA AddFinalizerKeeps ==
  ASSUME StepInv, AddFinalizer
  PROVE  StepInv' /\ (Held => Held')
<1>1. Good(Object(Specs, Statuses), Steps) /\ ~copy.fin
  BY DEF StepInv, TypeOK, PathInv, Good, Objects, AddFinalizer, Finalize
<1>2. /\ Good(Object(Specs, Statuses), Steps)' /\ (Held => Held')
      /\ \/ pc' = "idle"
         \/ pc' = "getApi" /\ copy'.fin /\ ~copy'.del /\ Held'
  <2>1. "getApi" \in Steps \ {"idle"}
    BY Types
  <2> QED BY <1>1, <2>1, Types, FinalizeKeeps DEF AddFinalizer
<1>3. PathInv'
  BY <1>2 DEF PathInv, CreateSteps, DeleteSteps
<1>4. AzureTypeOK'
  BY DEF StepInv, TypeOK, AzureTypeOK, AddFinalizer, azure
<1> QED BY <1>2, <1>3, <1>4 DEF StepInv, TypeOK, Good, Objects

LEMMA GetApiKeeps ==
  ASSUME StepInv, GetApi
  PROVE  StepInv' /\ Held' = Held
<1>1. pc = "getApi" /\ UNCHANGED server /\ (faults' = faults \/ Fault)
  BY DEF GetApi, Read, NewAPIMClientFails, DigestFails, LinkFails, Compare,
         Goto
<1>2. AzureTypeOK'
  BY DEF StepInv, TypeOK, AzureTypeOK, GetApi, azure
<1>3. \/ copy.del /\ Goto("deleteApi")
      \/ ~copy.del /\ (Goto("begin") \/ Goto("getPolicy"))
      \/ \E requeue \in BOOLEAN : Return(requeue)
  BY DEF GetApi, Compare, Retry
<1>4. PathInv'
  <2>1. CASE \E requeue \in BOOLEAN : Return(requeue)
    BY <2>1, PathReset DEF Return
  <2>2. CASE copy.del /\ Goto("deleteApi")
    BY <1>1, <2>2 DEF StepInv, PathInv, Goto, CreateSteps, DeleteSteps
  <2>3. CASE ~copy.del /\ (Goto("begin") \/ Goto("getPolicy"))
    BY <1>1, <2>3 DEF StepInv, PathInv, Goto, CreateSteps, DeleteSteps, Held,
                      server
  <2> QED BY <1>3, <2>1, <2>2, <2>3
<1>5. \/ \E step \in Steps \ {"idle"} : Goto(step)
      \/ \E requeue \in BOOLEAN : Return(requeue)
  BY <1>3 DEF Steps
<1> QED BY <1>1, <1>2, <1>4, <1>5, ReadStep

(* createUpdateApimApi up to the status update.                            *)
LEMMA ImportStepsKeep ==
  ASSUME StepInv, BeginPanics \/ ResumeImport \/ StartImport \/ Poll
  PROVE  StepInv' /\ Held' = Held
<1>1. pc \in {"begin", "poll"} /\ UNCHANGED server
  BY DEF BeginPanics, ResumeImport, StartImport, Poll
<1>2. faults' = faults \/ Fault
  BY DEF BeginPanics, ResumeImport, StartImport, Poll, Call
<1>3. \/ Goto("poll") \/ Goto("saveInProgress") \/ Goto("saveSucceeded")
      \/ Return(TRUE)
  BY DEF BeginPanics, ResumeImport, StartImport, Poll, Retry
<1>4. copy \in Objects
  BY <1>1 DEF StepInv, TypeOK, ClusterTypeOK, ClusterInv
<1>5. AzureTypeOK'
  <2>1. CASE ResumeImport
    <3>1. op' \in Tokens
      BY <1>4, <2>1 DEF ResumeImport, Objects, Object, Statuses
    <3> QED BY <2>1, <3>1 DEF StepInv, TypeOK, AzureTypeOK, ResumeImport, azure
  <2>2. CASE StartImport
    <3>1. copy.spec.content \in Documents \cup Links
      BY <1>4 DEF Objects, Object, Specs
    <3>2. request' \in Requests \cup {None} /\ op' \in Tokens \cup {None}
      BY <2>2, <3>1 DEF StepInv, TypeOK, AzureTypeOK, StartImport, Requests,
                        UnusedTokens
    <3> QED BY <2>2, <3>2 DEF StepInv, TypeOK, AzureTypeOK, StartImport
  <2>3. CASE BeginPanics \/ Poll
    BY <2>3 DEF StepInv, TypeOK, AzureTypeOK, BeginPanics, Poll, azure
  <2> QED BY <2>1, <2>2, <2>3
<1>6. PathInv'
  <2>1. CASE Return(TRUE)
    BY <2>1, PathReset DEF Return
  <2>2. CASE Goto("poll") \/ Goto("saveInProgress") \/ Goto("saveSucceeded")
    BY <1>1, <2>2 DEF StepInv, PathInv, Goto, CreateSteps, DeleteSteps, Held,
                      server
  <2> QED BY <1>3, <2>1, <2>2
<1>7. \/ \E step \in Steps \ {"idle"} : Goto(step)
      \/ \E requeue \in BOOLEAN : Return(requeue)
  BY <1>3 DEF Steps
<1> QED BY <1>1, <1>2, <1>5, <1>6, <1>7, ReadStep

LEMMA PolicyStepsKeep ==
  ASSUME StepInv, GetPolicy \/ PutPolicy
  PROVE  StepInv' /\ Held' = Held
<1>1. pc \in {"getPolicy", "putPolicy"} /\ UNCHANGED server
  BY DEF GetPolicy, PutPolicy
<1>2. faults' = faults \/ Fault
  BY DEF GetPolicy, PutPolicy, Read, Call
<1>3. Goto("putPolicy") \/ Goto("savePolicy") \/ Return(TRUE)
  BY DEF GetPolicy, PutPolicy, Retry
<1>4. copy \in Objects
  BY <1>1 DEF StepInv, TypeOK, ClusterTypeOK, ClusterInv
<1>5. AzureTypeOK'
  <2>1. copy.spec.policy \in Policies
    BY <1>4 DEF Objects, Object, Specs
  <2>2. api' \in Apis \cup {None}
    BY <2>1 DEF StepInv, TypeOK, AzureTypeOK, GetPolicy, PutPolicy,
                   WithPolicy, azure, Apis
  <2> QED BY <2>2 DEF StepInv, TypeOK, AzureTypeOK, GetPolicy, PutPolicy, azure
<1>6. PathInv'
  <2>1. CASE Return(TRUE)
    BY <2>1, PathReset DEF Return
  <2>2. CASE Goto("putPolicy") \/ Goto("savePolicy")
    BY <1>1, <2>2 DEF StepInv, PathInv, Goto, CreateSteps, DeleteSteps, Held,
                      server
  <2> QED BY <1>3, <2>1, <2>2
<1>7. \/ \E step \in Steps \ {"idle"} : Goto(step)
      \/ \E requeue \in BOOLEAN : Return(requeue)
  BY <1>3 DEF Steps
<1> QED BY <1>1, <1>2, <1>5, <1>6, <1>7, ReadStep

(* A status that is written says of the import what it said before, or     *)
(* something.                                                              *)
LEMMA StatusWritten ==
  ASSUME StepInv, SaveInProgress \/ SaveSucceeded \/ SavePolicy
  PROVE  \E status \in Statuses, ok \in BOOLEAN :
            /\ SubmitStatus(status, ok)
            /\ status.prov = copy.status.prov \/ status.prov # ""
<1>0. copy \in Objects /\ copy.status \in Statuses
  BY DEF StepInv, TypeOK, ClusterTypeOK, ClusterInv, SaveInProgress,
         SaveSucceeded, SavePolicy, Objects, Object
<1>1. CASE SaveInProgress
  <2> DEFINE status == [copy.status EXCEPT !.prov = "Provisioning",
                                           !.token = op]
  <2>1. status \in Statuses /\ status.prov # ""
    BY <1>0 DEF StepInv, TypeOK, AzureTypeOK, Statuses, States
  <2> HIDE DEF status
  <2>2. \E ok \in BOOLEAN : SubmitStatus(status, ok)
    BY <1>1 DEF SaveInProgress, status
  <2> QED BY <2>1, <2>2
<1>2. CASE SaveSucceeded
  <2>1. copy.spec.content \in Documents \cup Links
    BY <1>0 DEF Objects, Object, Specs
  <2>2. Digest(copy.spec.content) \in Documents
    BY <2>1 DEF StepInv, TypeOK, AzureTypeOK, Digest
  <2>3. ASSUME NEW sha \in Documents \cup ErrorPages \cup {None}
        PROVE  AppliedStatus(sha) \in Statuses /\ AppliedStatus(sha).prov # ""
    BY <1>0 DEF AppliedStatus, Statuses, States
  <2>4. \E sha \in Documents \cup ErrorPages \cup {None}, ok \in BOOLEAN :
          SubmitStatus(AppliedStatus(sha), ok)
    BY <1>2, <2>2 DEF SaveSucceeded
  <2> QED BY <2>3, <2>4
<1>3. CASE SavePolicy
  <2> DEFINE status == [copy.status EXCEPT !.psha = copy.spec.policy]
  <2>1. status \in Statuses /\ status.prov = copy.status.prov
    BY <1>0 DEF Statuses, Objects, Object, Specs
  <2> HIDE DEF status
  <2>2. \E ok \in BOOLEAN : SubmitStatus(status, ok)
    BY <1>3 DEF SavePolicy, status
  <2> QED BY <2>1, <2>2
<1> QED BY <1>1, <1>2, <1>3

LEMMA SavesKeep ==
  ASSUME StepInv, SaveInProgress \/ SaveSucceeded \/ SavePolicy
  PROVE  StepInv' /\ (Held => Held')
<1>1. pc \in CreateSteps
  BY DEF SaveInProgress, SaveSucceeded, SavePolicy, CreateSteps
<1>2. AzureTypeOK' /\ Retry
  BY DEF StepInv, TypeOK, AzureTypeOK, SaveInProgress, SaveSucceeded,
         SavePolicy, azure
<1>3. \E status \in Statuses, ok \in BOOLEAN : SubmitStatus(status, ok)
  BY StatusWritten
<1> QED BY <1>1, <1>2, <1>3, StatusStep

(* deleteApiVersion.                                                       *)
LEMMA DeletesKeep ==
  ASSUME StepInv, DeleteApi \/ DeletePolicy
  PROVE  StepInv' /\ Held' = Held
<1>1. pc \in {"deleteApi", "deletePolicy"} /\ UNCHANGED server
  BY DEF DeleteApi, DeletePolicy
<1>2. faults' = faults \/ Fault
  BY DEF DeleteApi, DeletePolicy, Call
<1>3. Goto("deletePolicy") \/ Goto("removeFinalizer") \/ Return(TRUE)
  BY DEF DeleteApi, DeletePolicy, Retry
<1>4. AzureTypeOK'
  <2>1. api \in Apis \cup {None} => WithPolicy(None) \in Apis \cup {None}
    BY DEF WithPolicy, Apis
  <2>2. api' \in Apis \cup {None}
    BY <2>1 DEF StepInv, TypeOK, AzureTypeOK, DeleteApi, DeletePolicy
  <2> QED BY <2>2 DEF StepInv, TypeOK, AzureTypeOK, DeleteApi, DeletePolicy
<1>5. PathInv'
  <2>1. CASE Return(TRUE)
    BY <2>1, PathReset DEF Return
  <2>2. CASE Goto("deletePolicy") \/ Goto("removeFinalizer")
    BY <1>1, <2>2 DEF StepInv, PathInv, Goto, CreateSteps, DeleteSteps
  <2> QED BY <1>3, <2>1, <2>2
<1>6. \/ \E step \in Steps \ {"idle"} : Goto(step)
      \/ \E requeue \in BOOLEAN : Return(requeue)
  BY <1>3 DEF Steps
<1> QED BY <1>1, <1>2, <1>4, <1>5, <1>6, ReadStep

LEMMA RemoveFinalizerKeeps ==
  ASSUME StepInv, RemoveFinalizer
  PROVE  StepInv'
<1>1. Good(Object(Specs, Statuses), Steps) /\ copy.del
  BY DEF StepInv, TypeOK, PathInv, Good, Objects, RemoveFinalizer, LetGo,
         DeleteSteps
<1>2. Good(Object(Specs, Statuses), Steps)' /\ pc' = "idle"
  BY <1>1, Types, LetGoKeeps DEF RemoveFinalizer
<1>3. AzureTypeOK'
  BY DEF StepInv, TypeOK, AzureTypeOK, RemoveFinalizer, azure
<1>4. PathInv'
  BY <1>2, PathReset
<1> QED BY <1>2, <1>3, <1>4 DEF StepInv, TypeOK, Good, Objects

-----------------------------------------------------------------------------
(* All steps together.                                                     *)

LEMMA InitGood == Init => IndInv
<1> SUFFICES ASSUME Init PROVE IndInv
  OBVIOUS
<1>1. Good(Objects, Steps)
  BY Types, InitGoodCluster DEF Init
<1>2. AzureTypeOK
  BY DEF Init, AzureTypeOK
<1>3. PathInv /\ CleanInv /\ NoOrphan
  BY DEF Init, ClusterInit, PathInv, CleanInv, NoOrphan, CreateSteps,
         DeleteSteps
<1> QED BY <1>1, <1>2, <1>3 DEF IndInv, StepInv, TypeOK, Good

(* Only removing the finalizer lets go of the object.                      *)
LEMMA StepKeeps ==
  ASSUME StepInv, [Next]_vars
  PROVE  StepInv' /\ (~RemoveFinalizer => (Held => Held'))
<1>1. CASE User
  BY <1>1, UserKeeps
<1>2. CASE Republish \/ ImportEnds \/ Drift
  BY <1>2, AzureKeeps
<1>3. CASE Informer \/ Delayed \/ Resynced \/ Crash
  BY <1>3, InformerKeeps
<1>4. CASE Get
  BY <1>4, GetKeeps
<1>5. CASE AddFinalizer
  BY <1>5, AddFinalizerKeeps
<1>6. CASE GetApi
  BY <1>6, GetApiKeeps
<1>7. CASE BeginPanics \/ ResumeImport \/ StartImport \/ Poll
  BY <1>7, ImportStepsKeep
<1>8. CASE GetPolicy \/ PutPolicy
  BY <1>8, PolicyStepsKeep
<1>9. CASE SaveInProgress \/ SaveSucceeded \/ SavePolicy
  BY <1>9, SavesKeep
<1>10. CASE DeleteApi \/ DeletePolicy
  BY <1>10, DeletesKeep
<1>11. CASE RemoveFinalizer
  BY <1>11, RemoveFinalizerKeeps
<1>12. CASE UNCHANGED vars
  BY <1>12 DEF vars, cluster, azure, StepInv, TypeOK, ClusterTypeOK,
               AzureTypeOK, ClusterInv, PathInv, Held, Tracks, Seen, Blocked
<1> QED BY <1>1, <1>2, <1>3, <1>4, <1>5, <1>6, <1>7, <1>8, <1>9, <1>10, <1>11,
           <1>12 DEF Next, Reconcile

(* Type correctness.  It needs to know that a Reconcile in progress holds  *)
(* an object, hence the whole of StepInv.                                  *)
THEOREM TypeCorrect == Spec => []TypeOK
<1>1. Init => StepInv
  BY InitGood DEF IndInv
<1>2. StepInv /\ [Next]_vars => StepInv'
  BY StepKeeps
<1>3. StepInv => TypeOK
  BY DEF StepInv
<1> QED BY <1>1, <1>2, <1>3, PTL DEF Spec

(* What a step does to Azure, by the place of the worker.                  *)
LEMMA CleanKept ==
  ASSUME RefusesDuringImport, IndInv, [Next]_vars
  PROVE  CleanInv'
<1> USE DEF IndInv, CleanInv
<1>1. CASE User
  BY <1>1 DEF User, UserCreates, UserEdits, UserDeletes, UserWrites, azure
<1>2. CASE Republish
  BY <1>2 DEF Republish, worker
<1>3. CASE ImportEnds \/ Drift
  BY <1>3 DEF ImportEnds, ImportSucceeds, ImportFails, Drift, cluster, worker
<1>4. CASE Informer \/ Delayed \/ Resynced
  BY <1>4 DEF Informer, Delayed, Resynced, Deliver, TimerFires, Resync, worker,
              azure
<1>5. CASE Crash
  BY <1>5 DEF Crash, Restart
<1>6. CASE Get \/ AddFinalizer \/ GetApi
  <2>1. pc' \notin {"deletePolicy", "removeFinalizer"}
    BY <1>6 DEF Get, Fetch, Skip, Start, AddFinalizer, Finalize, Proceed,
                GetApi, Compare, Goto, Retry, Return, worker
  <2> QED BY <2>1
<1>7. CASE BeginPanics \/ ResumeImport \/ StartImport \/ Poll \/ GetPolicy
           \/ PutPolicy
  BY <1>7 DEF BeginPanics, ResumeImport, StartImport, Poll, GetPolicy,
              PutPolicy, Goto, Retry, Return
<1>8. CASE SaveInProgress \/ SaveSucceeded \/ SavePolicy \/ RemoveFinalizer
  BY <1>8 DEF SaveInProgress, SaveSucceeded, SavePolicy, RemoveFinalizer,
              LetGo, Retry, Return
<1>9. CASE DeleteApi
  BY <1>9 DEF DeleteApi, Call, Answer, IgnoreNotFound, IsNotFoundError, Goto,
              Retry, Return
<1>10. CASE DeletePolicy
  BY <1>10 DEF DeletePolicy, Call, WithPolicy, Goto, Retry, Return
<1>11. CASE UNCHANGED vars
  BY <1>11 DEF vars, cluster, azure
<1> QED BY <1>1, <1>2, <1>3, <1>4, <1>5, <1>6, <1>7, <1>8, <1>9, <1>10, <1>11
        DEF Next, Reconcile

InAzure == api # None \/ request # None

(* The steps that make something appear in Azure or disappear leave the    *)
(* object alone, and something appears only where the worker starts an     *)
(* import for an object that is held.                                      *)
LEMMA AzureChanges ==
  ASSUME [Next]_vars
  PROVE  /\ InAzure' # InAzure => obj' = obj
         /\ InAzure' /\ ~InAzure => StartImport
         /\ RemoveFinalizer => InAzure' = InAzure
<1> USE DEF InAzure
<1>1. CASE \/ User \/ Republish \/ Informer \/ Delayed \/ Resynced \/ Crash
           \/ Get \/ AddFinalizer \/ GetApi \/ BeginPanics
           \/ ResumeImport \/ Poll
           \/ SaveInProgress \/ SaveSucceeded \/ GetPolicy \/ SavePolicy
           \/ RemoveFinalizer \/ UNCHANGED vars
  BY <1>1 DEF User, Republish, Informer, Delayed, Resynced, Crash, Get,
              AddFinalizer, GetApi, BeginPanics, ResumeImport, Poll,
              SaveInProgress, SaveSucceeded, GetPolicy, SavePolicy, RemoveFinalizer, vars, azure
<1>2. CASE ImportEnds \/ Drift \/ StartImport \/ PutPolicy \/ DeleteApi
           \/ DeletePolicy
  <2>1. obj' = obj
    BY <1>2 DEF ImportEnds, ImportSucceeds, ImportFails, Drift, StartImport,
                PutPolicy, DeleteApi, DeletePolicy, cluster, server
  <2>2. InAzure' /\ ~InAzure => StartImport
    BY <1>2 DEF ImportEnds, ImportSucceeds, ImportFails, Drift, PutPolicy,
                WithPolicy, DeleteApi, DeletePolicy
  <2>3. ~RemoveFinalizer
    BY <1>2 DEF ImportEnds, ImportSucceeds, ImportFails, Drift, StartImport,
                PutPolicy, DeleteApi, DeletePolicy, RemoveFinalizer, LetGo,
                Goto, Retry, Return, cluster, worker
  <2> QED BY <2>1, <2>2, <2>3
<1> QED BY <1>1, <1>2 DEF Next, Reconcile

LEMMA NoOrphanKept ==
  ASSUME IndInv, [Next]_vars
  PROVE  NoOrphan'
<1>1. NoOrphan = (InAzure => Held) /\ NoOrphan' = (InAzure' => Held')
  BY DEF NoOrphan, InAzure
<1>2. CASE RemoveFinalizer
  <2>1. ~InAzure
    BY <1>2 DEF IndInv, CleanInv, InAzure, RemoveFinalizer, LetGo
  <2> QED BY <1>1, <1>2, <2>1, AzureChanges
<1>3. CASE ~RemoveFinalizer
  <2>1. Held => Held'
    BY <1>3, StepKeeps DEF IndInv
  <2>2. StartImport => Held
    BY DEF StartImport, IndInv, StepInv, PathInv, CreateSteps
  <2> QED BY <1>1, <2>1, <2>2, AzureChanges DEF IndInv
<1> QED BY <1>2, <1>3

LEMMA IndInvKept ==
  ASSUME RefusesDuringImport, IndInv, [Next]_vars
  PROVE  IndInv'
BY StepKeeps, CleanKept, NoOrphanKept DEF IndInv

(* However stale the cache is and whatever fails: the worker's copy, the   *)
(* step it is at, and what exists or is being imported in Azure fit        *)
(* together (apiversion_controller.go:67-117, 244-264), provided Azure     *)
(* refuses to delete an API it is importing.                               *)
THEOREM KeepsToThePath == RefusesDuringImport => (Spec => []IndInv)
<1> SUFFICES ASSUME RefusesDuringImport PROVE Spec => []IndInv
  OBVIOUS
<1>1. Init => IndInv
  BY InitGood
<1>2. IndInv /\ [Next]_vars => IndInv'
  BY IndInvKept
<1> QED BY <1>1, <1>2, PTL DEF Spec

(* However stale the cache, whoever edits and wherever the process dies,   *)
(* an object leaves the cluster only when nothing of it is left in Azure,  *)
(* provided Azure refuses to delete an API it is importing (otherwise the  *)
(* import ends, and makes the API again, after its object is gone).        *)
THEOREM LeavesNoOrphan == RefusesDuringImport => (Spec => []NoOrphan)
<1>1. IndInv => NoOrphan
  BY DEF IndInv
<1> QED BY <1>1, KeepsToThePath, PTL

(* The controller implements the abstract promise of ManagedResource: the  *)
(* Azure side comes into being only under the finalizer, and the finalizer *)
(* goes only when the Azure side is gone.                                  *)
THEOREM Implements == RefusesDuringImport => (Spec => ManagesTheApi)
<1> SUFFICES ASSUME RefusesDuringImport PROVE Spec => ManagesTheApi
  OBVIOUS
<1>1. Init => Managed!Init
  BY DEF Init, ClusterInit, Managed!Init, Held
<1>2. IndInv /\ IndInv' /\ [Next]_vars
        => [Managed!Next]_<<Held, api # None \/ request # None>>
  <2> SUFFICES ASSUME IndInv, IndInv', [Next]_vars
               PROVE  [Managed!Next]_<<Held, InAzure>>
    BY DEF InAzure
  <2>1. (InAzure => Held) /\ (InAzure' => Held')
    BY DEF IndInv, NoOrphan, InAzure
  <2>2. InAzure' # InAzure => Held' = Held
    BY AzureChanges DEF Held
  <2>3. InAzure \in BOOLEAN /\ InAzure' \in BOOLEAN
    BY DEF InAzure
  <2>4. Held \in BOOLEAN /\ Held' \in BOOLEAN
    BY DEF IndInv, StepInv, TypeOK, ClusterTypeOK, Objects, Object, Held
  <2> QED BY <2>1, <2>2, <2>3, <2>4
          DEF InAzure, Managed!Next, Managed!Hold, Managed!Provision,
              Managed!Cleanup, Managed!Release
<1>3. Init => IndInv
  BY InitGood
<1>4. IndInv /\ [Next]_vars => IndInv'
  BY IndInvKept
<1> QED BY <1>1, <1>2, <1>3, <1>4, PTL DEF Spec, ManagesTheApi, Managed!Spec
=============================================================================
