------------------------- MODULE ApiVersionPromises -------------------------
(***************************************************************************)
(* Theorems about what the rest of the operator may count on: that the     *)
(* object lives as VersionLife says, and that its status tells the truth   *)
(* about the policy.  They hold whatever Azure refuses.                    *)
(***************************************************************************)
EXTENDS ApiVersionProofs

LEMMA StepInvAlways == Spec => []StepInv
<1>1. Init => StepInv
  BY InitGood DEF IndInv
<1>2. StepInv /\ [Next]_vars => StepInv'
  BY StepKeeps
<1> QED BY <1>1, <1>2, PTL DEF Spec

(* The steps that leave the object and what users did alone.               *)
Quiet ==
  \/ ImportEnds \/ Drift \/ Informer \/ Delayed \/ Resynced \/ Crash
  \/ Get \/ GetApi \/ BeginPanics \/ ResumeImport \/ StartImport \/ Poll
  \/ GetPolicy \/ PutPolicy \/ DeleteApi \/ DeletePolicy

LEMMA QuietKeeps ==
  ASSUME Quiet
  PROVE  obj' = obj /\ edits' = edits
<1>1. CASE ImportEnds \/ Drift \/ Informer \/ Delayed \/ Resynced \/ Crash
  BY <1>1 DEF ImportEnds, ImportSucceeds, ImportFails, Drift, Informer,
              Delayed, Resynced, Crash, Deliver, TimerFires, Resync, Restart,
              cluster, server
<1>2. CASE Get
  BY <1>2 DEF Get, Fetch, Skip, Start, server
<1>3. CASE GetApi \/ BeginPanics \/ ResumeImport \/ StartImport \/ Poll
  BY <1>3 DEF GetApi, Compare, BeginPanics, ResumeImport, StartImport, Poll,
              Goto, Retry, Return, server
<1>4. CASE GetPolicy \/ PutPolicy \/ DeleteApi \/ DeletePolicy
  BY <1>4 DEF GetPolicy, PutPolicy, DeleteApi, DeletePolicy, Goto, Retry,
              Return, server
<1> QED BY <1>1, <1>2, <1>3, <1>4 DEF Quiet

(* The steps that write the object: what is written takes the place of the *)
(* object that was read, or nothing changes.                               *)
LEMMA Submitted ==
  ASSUME StepInv, NEW new, NEW ok \in BOOLEAN, Submit(new, ok)
  PROVE  \/ obj' = obj
         \/ obj' = new /\ copy = obj /\ obj \in Objects
BY DEF Submit, Put, server, StepInv, TypeOK, ClusterTypeOK, ClusterInv

LEMMA SavesStatus ==
  ASSUME StepInv, SaveInProgress \/ SaveSucceeded \/ SavePolicy
  PROVE  /\ edits' = edits
         /\ \/ obj' = obj
            \/ /\ obj \in Objects /\ obj.fin /\ ~obj.del
               /\ \E status \in Statuses :
                    /\ obj' = [obj EXCEPT !.status = status]
                    /\ status.prov = obj.status.prov \/ status.prov # ""
<1>1. pc \in CreateSteps /\ edits' = edits
  BY DEF SaveInProgress, SaveSucceeded, SavePolicy, Retry, Return, CreateSteps
<1>2. copy \in Objects /\ copy.fin /\ ~copy.del
  BY <1>1 DEF StepInv, TypeOK, ClusterTypeOK, ClusterInv, PathInv, CreateSteps
<1>3. \E status \in Statuses, ok \in BOOLEAN :
        /\ SubmitStatus(status, ok)
        /\ status.prov = copy.status.prov \/ status.prov # ""
  BY StatusWritten
<1>4. PICK status \in Statuses, ok \in BOOLEAN :
        /\ Submit([copy EXCEPT !.status = status], ok)
        /\ status.prov = copy.status.prov \/ status.prov # ""
  BY <1>3 DEF SubmitStatus
<1> QED BY <1>1, <1>2, <1>4, Submitted

-----------------------------------------------------------------------------
(* What VersionLife sees of the object.                                    *)
View(o) == IF o = None THEN None ELSE [o EXCEPT !.status = o.status.prov]

LEMMA ViewOf ==
  ASSUME NEW o \in Objects
  PROVE  /\ o # None /\ View(o) # None
         /\ View(o) = [spec |-> o.spec, status |-> o.status.prov,
                        fin |-> o.fin, del |-> o.del]
         /\ o.spec \in Specs /\ o.status.prov \in States
<1>1. o.status.prov \in States
  BY DEF Objects, Object, Statuses
<1>2. View(o) = [spec |-> o.spec, status |-> o.status.prov, fin |-> o.fin,
                  del |-> o.del]
  BY NoneIsNoValue DEF Objects, Object, View
<1>3. View(o) \in Object(Specs, States)
  BY <1>1, <1>2 DEF Objects, Object
<1> QED BY <1>1, <1>2, <1>3, NoneIsNoValue DEF Objects, Object

LEMMA MarkedView ==
  ASSUME NEW o \in Objects, NEW del \in BOOLEAN
  PROVE  View([o EXCEPT !.del = del]) = [View(o) EXCEPT !.del = del]
<1>1. [o EXCEPT !.del = del] \in Objects
  BY DEF Objects, Object
<1>2. /\ View([o EXCEPT !.del = del])
           = [spec |-> o.spec, status |-> o.status.prov, fin |-> o.fin,
              del |-> del]
      /\ View(o) = [spec |-> o.spec, status |-> o.status.prov, fin |-> o.fin,
                    del |-> o.del]
  BY <1>1, ViewOf DEF Objects, Object
<1> QED BY <1>2

LEMMA LifeStep ==
  ASSUME StepInv, [Next]_vars
  PROVE  [Life!Next]_<<View(obj), edits>>
<1>1. obj \in Objects \cup {None} /\ edits \in Nat /\ None \notin Objects
  BY NoneIsNoValue DEF StepInv, TypeOK, ClusterTypeOK
<1>2. CASE Quiet \/ UNCHANGED vars
  <2>1. obj' = obj /\ edits' = edits
    BY <1>2, QuietKeeps DEF vars, cluster
  <2> QED BY <2>1 DEF View
<1>3. CASE Republish
  <2>1. obj' = obj /\ edits' > edits
    BY <1>1, <1>3 DEF Republish, server
  <2> QED BY <2>1 DEF View, Life!Next, Life!Users, Life!ByUsers
<1>4. CASE User
  <2>1. edits' > edits
    <3>1. edits' = edits + 1
      BY <1>4 DEF User, UserCreates, UserEdits, UserDeletes, UserWrites
    <3> QED BY <1>1, <3>1
  <2>2. CASE \E spec \in Choices : UserCreates(spec, NoStatus)
    <3>1. PICK spec \in Choices : UserCreates(spec, NoStatus)
      BY <2>2
    <3>2. /\ obj = None
          /\ obj' = [spec |-> spec, status |-> NoStatus, fin |-> FALSE,
                     del |-> FALSE]
      BY <3>1 DEF UserCreates, UserWrites, Put
    <3>3. obj' \in Objects
      BY <3>2, ChoicesAreSpecs DEF Objects, Object, NoStatus, Statuses, States
    <3>4. View(obj)' = [spec |-> spec, status |-> "", fin |-> FALSE,
                         del |-> FALSE] /\ View(obj)' # None
      BY <3>2, <3>3, ViewOf DEF NoStatus, View
    <3>5. Life!Create
      BY <3>2, <3>4 DEF Life!Create, View
    <3> QED BY <2>1, <3>5 DEF Life!Next, Life!Users, Life!ByUsers
  <2>3. CASE obj # None /\ \E spec \in Choices : UserEdits(spec)
    <3>1. PICK spec \in Choices : UserEdits(spec)
      BY <2>3
    <3>2. obj \in Objects /\ obj' = [obj EXCEPT !.spec = spec]
      BY <1>1, <3>1 DEF UserEdits, UserWrites, Put
    <3>3. obj' \in Objects
      BY <3>2, ChoicesAreSpecs DEF Objects, Object
    <3>4. /\ View(obj)' = [View(obj) EXCEPT !.spec = spec]
          /\ View(obj)' # None /\ View(obj) # None
          /\ View(obj)'.spec = spec
      <4>1. View(obj) = [spec |-> obj.spec, status |-> obj.status.prov,
                          fin |-> obj.fin, del |-> obj.del] /\ View(obj) # None
        BY <3>2, ViewOf
      <4>2. View(obj)' = [spec |-> spec, status |-> obj.status.prov,
                           fin |-> obj.fin, del |-> obj.del] /\ View(obj)' # None
        BY <3>2, <3>3, ViewOf DEF View, Objects, Object
      <4> QED BY <4>1, <4>2
    <3>5. Life!Edit
      BY <3>4 DEF Life!Edit, View
    <3> QED BY <2>1, <3>5 DEF Life!Next, Life!Users, Life!ByUsers
  <2>4. CASE UserDeletes
    <3>1. /\ obj \in Objects /\ ~obj.del
          /\ obj' = IF obj.fin THEN [obj EXCEPT !.del = TRUE] ELSE None
      BY <1>1, <2>4 DEF UserDeletes, Live, UserWrites, Put
    <3>2. View(obj) = [spec |-> obj.spec, status |-> obj.status.prov,
                        fin |-> obj.fin, del |-> obj.del] /\ View(obj) # None
      BY <3>1, ViewOf
    <3>3. View(obj)' = Life!Deleted(View(obj))
      <4>1. CASE obj.fin
        <5>1. obj' = [obj EXCEPT !.del = TRUE]
          BY <3>1, <4>1
        <5>2. View([obj EXCEPT !.del = TRUE]) = [View(obj) EXCEPT !.del = TRUE]
          BY <3>1, MarkedView, Zenon
        <5>3. View(obj)' = [View(obj) EXCEPT !.del = TRUE]
          BY <5>1, <5>2, Zenon
        <5>4. View(obj).fin
          BY <3>2, <4>1
        <5> QED BY <5>3, <5>4 DEF Life!Deleted
      <4>2. CASE ~obj.fin
        BY <3>1, <3>2, <4>2 DEF Life!Deleted, View
      <4> QED BY <4>1, <4>2
    <3>4. Life!Delete
      BY <3>1, <3>2, <3>3 DEF Life!Delete, View
    <3> QED BY <2>1, <3>4 DEF Life!Next, Life!Users, Life!ByUsers
  <2> QED BY <1>4, <2>2, <2>3, <2>4 DEF User
<1>5. CASE AddFinalizer
  <2>1. edits' = edits /\ pc = "addFinalizer" /\ ~copy.fin
    BY <1>5 DEF AddFinalizer, Finalize, Retry, Return, Proceed, StepInv, PathInv
  <2>2. PICK ok \in BOOLEAN : Submit([copy EXCEPT !.fin = TRUE], ok)
    BY <1>5 DEF AddFinalizer, Finalize
  <2>3. CASE obj' = obj
    BY <2>1, <2>3 DEF View
  <2>4. CASE obj' = [obj EXCEPT !.fin = TRUE] /\ obj \in Objects /\ ~obj.fin
    <3>1. View(obj) = [spec |-> obj.spec, status |-> obj.status.prov,
                        fin |-> obj.fin, del |-> obj.del] /\ View(obj) # None
      BY <2>4, ViewOf
    <3>2. View(obj)' = [spec |-> obj.spec, status |-> obj.status.prov,
                         fin |-> TRUE, del |-> obj.del]
      <4>1. obj' \in Objects
        BY <2>4 DEF Objects, Object
      <4> QED BY <2>4, <4>1, ViewOf DEF View, Objects, Object
    <3>3. View(obj)' \in Life!Progressed(View(obj))
      BY <2>4, <3>1, <3>2 DEF Life!Progressed
    <3> QED BY <2>1, <3>1, <3>3 DEF Life!Next, Life!Progress, View
  <2> QED BY <2>1, <2>2, <2>3, <2>4, Submitted
<1>6. CASE SaveInProgress \/ SaveSucceeded \/ SavePolicy
  <2>1. edits' = edits
    BY <1>6, SavesStatus
  <2>2. CASE obj' = obj
    BY <2>1, <2>2 DEF View
  <2>3. CASE /\ obj \in Objects /\ obj.fin /\ ~obj.del
             /\ \E status \in Statuses :
                  /\ obj' = [obj EXCEPT !.status = status]
                  /\ status.prov = obj.status.prov \/ status.prov # ""
    <3>1. PICK status \in Statuses :
            /\ obj' = [obj EXCEPT !.status = status]
            /\ status.prov = obj.status.prov \/ status.prov # ""
      BY <2>3
    <3>2. obj' \in Objects
      BY <2>3, <3>1 DEF Objects, Object
    <3>3. View(obj) = [spec |-> obj.spec, status |-> obj.status.prov,
                        fin |-> obj.fin, del |-> obj.del] /\ View(obj) # None
      BY <2>3, ViewOf
    <3>4. View(obj)' = [spec |-> obj.spec, status |-> status.prov,
                         fin |-> obj.fin, del |-> obj.del]
      BY <2>3, <3>1, <3>2, ViewOf DEF View, Objects, Object
    <3>5. CASE status.prov = obj.status.prov
      BY <2>1, <3>3, <3>4, <3>5 DEF View
    <3>6. CASE status.prov # obj.status.prov
      <4>1. status.prov \in States \ {""}
        BY <3>1, <3>6 DEF Statuses
      <4>2. /\ View(obj)' = [View(obj) EXCEPT !.status = status.prov]
            /\ View(obj).status = obj.status.prov
        BY <3>3, <3>4
      <4>3. View(obj).fin = obj.fin /\ View(obj).del = obj.del
        BY <3>3
      <4>4. View(obj)' \in Life!Reported(View(obj))
        BY <2>3, <3>6, <4>1, <4>2, <4>3 DEF Life!Reported
      <4> QED BY <2>1, <3>3, <4>4 DEF Life!Next, Life!Report, View
    <3> QED BY <3>5, <3>6
  <2> QED BY <1>6, <2>2, <2>3, SavesStatus
<1>7. CASE RemoveFinalizer
  <2>1. edits' = edits /\ copy.fin /\ copy.del
    BY <1>7 DEF RemoveFinalizer, LetGo, Return, StepInv, PathInv, DeleteSteps
  <2>2. PICK ok \in BOOLEAN : Submit(None, ok)
    BY <1>7, <2>1 DEF RemoveFinalizer, LetGo, WithoutFinalizer
  <2>3. CASE obj' = obj
    BY <2>1, <2>3 DEF View
  <2>4. CASE obj' = None /\ obj \in Objects /\ obj.fin /\ obj.del
    <3>1. View(obj) = [spec |-> obj.spec, status |-> obj.status.prov,
                        fin |-> obj.fin, del |-> obj.del] /\ View(obj) # None
      BY <2>4, ViewOf
    <3>2. View(obj)' \in Life!Progressed(View(obj))
      BY <2>4, <3>1 DEF Life!Progressed, View
    <3> QED BY <2>1, <3>1, <3>2 DEF Life!Next, Life!Progress, View
  <2> QED BY <2>1, <2>2, <2>3, <2>4, Submitted
<1> QED BY <1>2, <1>3, <1>4, <1>5, <1>6, <1>7 DEF Next, Reconcile, Quiet

(* The object lives as VersionLife says: between what users do, its        *)
(* finalizer comes, its state is reported while it is wanted, and it goes  *)
(* once it is marked for deletion.                                         *)
THEOREM Lives == Spec => LivesAsPromised
<1>1. Init => Life!Init
  BY DEF Init, ClusterInit, Life!Init
<1>2. StepInv /\ [Next]_vars => [Life!Next]_Life!life
  BY LifeStep DEF Life!life, View
<1> QED BY <1>1, <1>2, StepInvAlways, PTL DEF Spec, LivesAsPromised, Life!Spec

-----------------------------------------------------------------------------
(* Between applying a policy and recording it, only that policy, or none,  *)
(* is in force: nobody else in this model applies one.                     *)
PolicyInv ==
  StepInv /\ (pc = "savePolicy" => InForce \in {None, copy.spec.policy})

LEMMA PolicyPut ==
  ASSUME StepInv, PutPolicy
  PROVE  PolicyInv'
<1>1. StepInv'
  BY StepKeeps DEF Next, Reconcile
<1>2. PICK err \in Errors, done \in BOOLEAN :
        /\ Call(api # None, FALSE, done, err)
        /\ api' = IF done THEN WithPolicy(copy.spec.policy) ELSE api
        /\ IF err = "none" THEN Goto("savePolicy") ELSE Retry
  BY DEF PutPolicy
<1>3. CASE err = "none"
  <2>1. done /\ api # None /\ copy' = copy
    BY <1>2, <1>3 DEF Call, Answer, Goto
  <2>2. api \in Apis /\ api' = [api EXCEPT !.policy = copy.spec.policy]
    BY <1>2, <2>1 DEF WithPolicy, StepInv, TypeOK, AzureTypeOK
  <2>3. api'.policy = copy.spec.policy
    BY <2>2 DEF Apis
  <2> QED BY <1>1, <2>1, <2>3 DEF PolicyInv, InForce
<1>4. CASE err # "none"
  BY <1>1, <1>2, <1>4 DEF Retry, Return, PolicyInv
<1> QED BY <1>3, <1>4

LEMMA PolicyKept ==
  ASSUME PolicyInv, [Next]_vars
  PROVE  PolicyInv'
<1>1. StepInv'
  BY StepKeeps DEF PolicyInv
<1>2. CASE PutPolicy
  BY <1>2, PolicyPut DEF PolicyInv
<1>3. CASE ImportEnds \/ Drift
  <2>1. pc' = pc /\ copy' = copy
    BY <1>3 DEF ImportEnds, ImportSucceeds, ImportFails, Drift, cluster, worker
  <2>2. InForce' \in {None, InForce}
    <3>1. CASE ImportSucceeds
      BY <3>1 DEF ImportSucceeds, Imported, InForce
    <3>2. CASE ImportFails
      BY <3>2 DEF ImportFails, InForce
    <3>3. CASE Drift
      BY <3>3 DEF Drift, InForce, PolicyInv, StepInv, TypeOK, AzureTypeOK, Apis
    <3> QED BY <1>3, <3>1, <3>2, <3>3 DEF ImportEnds
  <2> QED BY <1>1, <2>1, <2>2 DEF PolicyInv
<1>4. CASE User \/ Republish \/ Informer \/ Delayed \/ Resynced
           \/ UNCHANGED vars
  <2>1. pc' = pc /\ copy' = copy /\ api' = api
    BY <1>4 DEF User, UserCreates, UserEdits, UserDeletes, UserWrites,
                Republish, Informer, Delayed, Resynced, Deliver, TimerFires,
                Resync, vars, cluster, worker, azure
  <2> QED BY <1>1, <2>1 DEF PolicyInv, InForce
<1>5. CASE \/ Crash \/ Get \/ AddFinalizer \/ GetApi \/ BeginPanics
           \/ ResumeImport \/ StartImport \/ Poll \/ SaveInProgress
           \/ SaveSucceeded \/ GetPolicy \/ SavePolicy \/ DeleteApi
           \/ DeletePolicy \/ RemoveFinalizer
  <2>1. pc' # "savePolicy"
    <3>1. CASE Crash \/ Get \/ AddFinalizer \/ RemoveFinalizer
      BY <3>1 DEF Crash, Restart, Get, Fetch, Skip, Start, AddFinalizer,
                  Finalize, Retry, Return, Proceed, RemoveFinalizer, LetGo,
                  worker
    <3>2. CASE \/ GetApi \/ BeginPanics \/ ResumeImport \/ StartImport \/ Poll
               \/ GetPolicy \/ DeleteApi \/ DeletePolicy
      BY <3>2 DEF GetApi, Compare, BeginPanics, ResumeImport, StartImport, Poll,
                  GetPolicy, DeleteApi, DeletePolicy, Goto, Retry, Return
    <3>3. CASE SaveInProgress \/ SaveSucceeded \/ SavePolicy
      BY <3>3 DEF SaveInProgress, SaveSucceeded, SavePolicy, Retry, Return
    <3> QED BY <1>5, <3>1, <3>2, <3>3
  <2> QED BY <1>1, <2>1 DEF PolicyInv
<1> QED BY <1>2, <1>3, <1>4, <1>5 DEF Next, Reconcile

LEMMA PolicyRecorded ==
  ASSUME PolicyInv, [Next]_vars, RecordsPolicy
  PROVE  InForce' \in {None, obj'.status.psha}
<1>1. StepInv /\ obj # None /\ obj' # None /\ obj'.status.psha # obj.status.psha
  BY DEF PolicyInv, RecordsPolicy
<1>2. obj \in Objects
  BY <1>1 DEF StepInv, TypeOK, ClusterTypeOK
<1>3. CASE SavePolicy
  <2>1. PICK ok \in BOOLEAN :
          Submit([copy EXCEPT !.status =
                    [copy.status EXCEPT !.psha = copy.spec.policy]], ok)
    BY <1>3 DEF SavePolicy, SubmitStatus
  <2>2. /\ copy = obj
        /\ obj' = [copy EXCEPT !.status =
                     [copy.status EXCEPT !.psha = copy.spec.policy]]
    BY <1>1, <2>1, Submitted
  <2>3. obj'.status.psha = copy.spec.policy
    BY <1>2, <2>2 DEF Objects, Object, Statuses
  <2>4. InForce' = InForce /\ InForce \in {None, copy.spec.policy}
    BY <1>3 DEF SavePolicy, azure, InForce, PolicyInv
  <2> QED BY <2>3, <2>4
<1>4. CASE SaveInProgress
  <2>1. PICK ok \in BOOLEAN :
          Submit([copy EXCEPT !.status =
                    [copy.status EXCEPT !.prov = "Provisioning",
                                        !.token = op]], ok)
    BY <1>4 DEF SaveInProgress, SubmitStatus
  <2> DEFINE status == [copy.status EXCEPT !.prov = "Provisioning", !.token = op]
  <2>2. copy = obj /\ obj' = [copy EXCEPT !.status = status]
    BY <1>1, <2>1, Submitted
  <2>3. copy.status \in Statuses
    BY <1>2, <2>2 DEF Objects, Object
  <2>4. status.psha = copy.status.psha
    BY <2>3 DEF Statuses
  <2> HIDE DEF status
  <2>5. obj'.status = status
    BY <1>2, <2>2 DEF Objects, Object
  <2> QED BY <1>1, <2>2, <2>4, <2>5
<1>5. CASE SaveSucceeded
  <2>1. PICK ok \in BOOLEAN,
             sha \in {Digest(copy.spec.content), None} \cup ErrorPages :
          Submit([copy EXCEPT !.status = AppliedStatus(sha)], ok)
    BY <1>5 DEF SaveSucceeded, SubmitStatus
  <2>2. copy = obj /\ obj' = [copy EXCEPT !.status = AppliedStatus(sha)]
    BY <1>1, <2>1, Submitted
  <2>3. copy.status \in Statuses
    BY <1>2, <2>2 DEF Objects, Object
  <2>4. AppliedStatus(sha).psha = copy.status.psha
    BY <2>3 DEF AppliedStatus, Statuses
  <2>5. obj'.status = AppliedStatus(sha)
    BY <1>2, <2>2 DEF Objects, Object
  <2> QED BY <1>1, <2>2, <2>4, <2>5
<1>6. CASE AddFinalizer
  <2>1. PICK ok \in BOOLEAN : Submit([copy EXCEPT !.fin = TRUE], ok)
    BY <1>6 DEF AddFinalizer, Finalize
  <2> QED BY <1>1, <1>2, <2>1, Submitted DEF Objects, Object
<1>7. CASE RemoveFinalizer
  <2>1. copy.del
    BY <1>1, <1>7 DEF RemoveFinalizer, LetGo, StepInv, PathInv, DeleteSteps
  <2>2. PICK ok \in BOOLEAN : Submit(None, ok)
    BY <1>7, <2>1 DEF RemoveFinalizer, LetGo, WithoutFinalizer
  <2> QED BY <1>1, <2>2, Submitted
<1>8. CASE User
  BY <1>1, <1>2, <1>8 DEF User, UserCreates, UserEdits, UserDeletes, UserWrites,
                          Put, Objects, Object
<1>9. CASE Quiet \/ Republish \/ UNCHANGED vars
  BY <1>1, <1>9, QuietKeeps DEF Republish, server, vars, cluster
<1> QED BY <1>3, <1>4, <1>5, <1>6, <1>7, <1>8, <1>9 DEF Next, Reconcile, Quiet

(* A policy newly recorded in the status is the one in force in Azure,     *)
(* unless somebody removed it: whatever is edited, lost or restarted       *)
(* between the PUT and the status update.                                  *)
THEOREM PolicyIsApplied == Spec => RecordedPolicyIsApplied
<1>1. Init => PolicyInv
  BY InitGood DEF IndInv, PolicyInv, Init, ClusterInit
<1>2. PolicyInv /\ [Next]_vars => PolicyInv'
  BY PolicyKept
<1>3. PolicyInv /\ [Next]_vars
        => [RecordsPolicy => InForce' \in {None, obj'.status.psha}]_vars
  BY PolicyRecorded
<1> QED BY <1>1, <1>2, <1>3, PTL DEF Spec, RecordedPolicyIsApplied
=============================================================================
