--------------------------- MODULE BackendProofs ---------------------------
(***************************************************************************)
(* Theorems about BackendController, for all URLs and other fields and     *)
(* every bound on edits and faults.                                        *)
(***************************************************************************)
EXTENDS BackendController, ClusterProofs

LEMMA Types ==
  /\ None \notin Object(Specs, Statuses)
  /\ "idle" \in Steps
BY NoneIsNoValue DEF Objects, Steps

AzureTypeOK == backend \in Specs \cup {None} /\ etag \in BOOLEAN

LEMMA StepInvIs ==
  StepInv <=> Good(Object(Specs, Statuses), Steps) /\ AzureTypeOK /\ PathInv
BY DEF StepInv, TypeOK, Good, Objects, AzureTypeOK

LEMMA StepInvIsNext ==
  StepInv' <=> Good(Object(Specs, Statuses), Steps)' /\ AzureTypeOK' /\ PathInv'
BY DEF StepInv, TypeOK, Good, Objects, AzureTypeOK

-----------------------------------------------------------------------------
LEMMA InitGood == Init => StepInv
<1> SUFFICES ASSUME Init PROVE StepInv
  OBVIOUS
<1>1. Good(Objects, Steps)
  BY InitGoodCluster DEF Init, Steps
<1>2. PathInv
  BY DEF Init, ClusterInit, PathInv
<1> QED BY <1>1, <1>2 DEF Init, StepInv, TypeOK, Good

(* The environment of the worker.                                          *)
LEMMA EnvironmentStep ==
  ASSUME StepInv, User \/ Drift \/ Informer \/ Delayed \/ Resynced \/ Crash
  PROVE  StepInv' /\ (Held => Held')
<1>1. Good(Object(Specs, Statuses), Steps) /\ AzureTypeOK /\ PathInv
  BY StepInvIs
<1>2. CASE User
  <2>1. \/ \E spec \in Specs : UserCreates(spec, NoStatus) \/ UserEdits(spec)
        \/ UserDeletes
    BY <1>2 DEF User
  <2>2. NoStatus \in Statuses
    BY DEF NoStatus, Statuses
  <2>3. UserDeletes => obj.spec \in Specs
    BY <1>1 DEF UserDeletes, Live, Good, ClusterTypeOK, Object
  <2>4. Good(Object(Specs, Statuses), Steps)' /\ (Held => Held')
    BY <1>1, <2>1, <2>2, <2>3, Types, UserStepsKeep
  <2>5. AzureTypeOK'
    BY <1>1, <1>2 DEF User, azure, AzureTypeOK
  <2>6. PathInv'
    BY <1>1, <1>2, <2>4 DEF User, UserCreates, UserEdits, UserDeletes,
                            UserWrites, azure, PathInv
  <2> QED BY <2>4, <2>5, <2>6, StepInvIsNext
<1>3. CASE Drift
  <2>1. /\ server' = server /\ cached' = cached /\ queue' = queue
        /\ configured' = configured /\ worker' = worker /\ edits' = edits
        /\ backend # None /\ Fault
    BY <1>3 DEF Drift
  <2>2. faults' \in 0 .. MaxFaults
    BY <1>1, <2>1, FaultsBounded DEF Good, ClusterTypeOK
  <2>3. Good(Object(Specs, Statuses), Steps)' /\ Held' = Held
    BY <1>1, <2>1, <2>2 DEF Good, ClusterTypeOK, ClusterInv, server, queue,
                            worker, Held, Tracks, Seen, Blocked
  <2>4. AzureTypeOK'
    BY <1>3 DEF Drift, AzureTypeOK
  <2>5. PathInv'
    BY <1>1, <2>1, <2>3 DEF worker, PathInv
  <2> QED BY <2>3, <2>4, <2>5, StepInvIsNext
<1>4. CASE Informer \/ Delayed \/ Resynced \/ Crash
  <2>1. Good(Object(Specs, Statuses), Steps)' /\ Held' = Held
    BY <1>1, <1>4, Types, EnvironmentKeeps
       DEF Informer, Delayed, Resynced, Crash
  <2>2. AzureTypeOK'
    BY <1>1, <1>4 DEF Informer, Delayed, Resynced, Crash, azure, AzureTypeOK
  <2>3. PathInv'
    BY <1>1, <1>4, <2>1 DEF Informer, Delayed, Resynced, Crash, Deliver,
                            TimerFires, Resync, Restart, worker, azure, PathInv
  <2> QED BY <2>1, <2>2, <2>3, StepInvIsNext
<1> QED BY <1>2, <1>3, <1>4

(* The steps of Reconcile that only read the cluster.                      *)
LEMMA ReadStep ==
  ASSUME StepInv, Get \/ GetBackend \/ Create \/ Update \/ Delete
  PROVE  StepInv' /\ Held' = Held
<1>1. Good(Object(Specs, Statuses), Steps) /\ AzureTypeOK /\ PathInv
  BY StepInvIs
<1>2. CASE Get
  <2>1. "getBackend" \in Steps \ {"idle"} /\ "addFinalizer" \in Steps
    BY DEF Steps
  <2>2. /\ Good(Object(Specs, Statuses), Steps)' /\ Held' = Held
        /\ \/ pc' = "idle"
           \/ pc' = "addFinalizer" /\ ~copy'.fin
           \/ pc' = "getBackend" /\ copy'.fin /\ (~copy'.del => Held')
    BY <1>1, <1>2, <2>1, FetchKeeps DEF Get
  <2>3. AzureTypeOK' /\ PathInv'
    BY <1>1, <1>2, <2>2 DEF Get, azure, AzureTypeOK, PathInv
  <2> QED BY <2>2, <2>3, StepInvIsNext
<1>3. CASE GetBackend \/ Create \/ Update \/ Delete
  <2>1. /\ pc \in {"getBackend", "create", "update", "delete"}
        /\ UNCHANGED server /\ (faults' = faults \/ Fault)
    BY <1>3 DEF GetBackend, Create, Update, Delete, Provision, Read, Call,
                NewAPIMClientFails
  <2>2. \/ \E step \in Steps \ {"idle"} : Goto(step)
        \/ \E requeue \in BOOLEAN : Return(requeue)
    BY <1>3 DEF GetBackend, Create, Update, Delete, Provision, Retry, Steps
  <2>3. Good(Object(Specs, Statuses), Steps)' /\ Held' = Held
    BY <1>1, <2>1, <2>2, Types, ReadKeeps
  <2>4. copy.spec \in Specs
    BY <1>1, <2>1 DEF Good, ClusterTypeOK, ClusterInv, Object
  <2>5. AzureTypeOK'
    <3>1. backend' \in Specs \cup {None}
      BY <1>1, <1>3, <2>4 DEF GetBackend, Create, Update, Delete, Provision,
                              AzureTypeOK
    <3>2. etag' \in BOOLEAN
      BY <1>3 DEF GetBackend, Create, Update, Delete, Provision
    <3> QED BY <3>1, <3>2 DEF AzureTypeOK
  <2>6. PathInv'
    <3>1. CASE GetBackend
      BY <1>1, <2>3, <3>1 DEF GetBackend, Read, Answer, IsNotFoundError,
                        IgnoreNotFound, Goto, Retry, Return, PathInv
    <3>2. CASE Create \/ Update
      BY <1>1, <2>3, <3>2 DEF Create, Update, Provision, Goto, PathInv
    <3>3. CASE Delete
      BY <1>1, <2>3, <3>3 DEF Delete, Call, Answer, IsNotFoundError, IgnoreNotFound,
                        Goto, Retry, Return, PathInv
    <3> QED BY <1>3, <3>1, <3>2, <3>3
  <2> QED BY <2>3, <2>5, <2>6, StepInvIsNext
<1> QED BY <1>2, <1>3

(* The steps that write to the cluster and keep the finalizer.             *)
LEMMA WriteStep ==
  ASSUME StepInv, AddFinalizer \/ SaveCreated \/ SaveUpdated \/ SaveFailed
  PROVE  StepInv' /\ (Held => Held')
<1>1. Good(Object(Specs, Statuses), Steps) /\ AzureTypeOK /\ PathInv
  BY StepInvIs
<1>2. AzureTypeOK'
  BY <1>1 DEF AddFinalizer, SaveCreated, SaveUpdated, SaveFailed, azure,
              AzureTypeOK
<1>3. CASE AddFinalizer
  <2>1. "getBackend" \in Steps \ {"idle"} /\ ~copy.fin
    BY <1>1, <1>3 DEF AddFinalizer, Finalize, PathInv, Steps
  <2>2. /\ Good(Object(Specs, Statuses), Steps)' /\ (Held => Held')
        /\ pc' = "idle" \/ (pc' = "getBackend" /\ copy'.fin /\ Held')
    BY <1>1, <1>3, <2>1, Types, FinalizeKeeps DEF AddFinalizer
  <2>3. PathInv'
    BY <2>2 DEF PathInv
  <2> QED BY <1>2, <2>2, <2>3, StepInvIsNext
<1>4. CASE SaveCreated \/ SaveUpdated \/ SaveFailed
  <2>1. /\ pc # "idle" /\ copy.fin /\ copy \in Object(Specs, Statuses)
        /\ Blocked(copy) /\ \E requeue \in BOOLEAN : Return(requeue)
    BY <1>1, <1>4 DEF SaveCreated, SaveUpdated, SaveFailed, Retry, PathInv,
                      Good, ClusterTypeOK, ClusterInv
  <2>2. /\ Succeeded \in Statuses
        /\ [copy.status EXCEPT !.prov = "Failed"] \in Statuses
    BY <2>1 DEF Succeeded, Statuses, Object
  <2>3. PICK status \in Statuses, ok \in BOOLEAN : SubmitStatus(status, ok)
    BY <1>4, <2>2 DEF SaveCreated, SaveUpdated, SaveFailed
  <2> DEFINE new == [copy EXCEPT !.status = status]
  <2>4. new \in Object(Specs, Statuses) /\ Keeps(new) /\ Submit(new, ok)
    BY <2>1, <2>3, Types DEF Object, Keeps, Blocked, SubmitStatus
  <2>5. Good(Object(Specs, Statuses), Steps)' /\ (Held => Held')
    <3> HIDE DEF new
    <3> QED BY <1>1, <2>1, <2>4, Types, SubmitReturnKeeps
  <2>6. PathInv'
    BY <2>1 DEF Return, PathInv
  <2> QED BY <1>2, <2>5, <2>6, StepInvIsNext
<1> QED BY <1>3, <1>4

LEMMA ReleaseStep ==
  ASSUME StepInv, RemoveFinalizer
  PROVE  StepInv' /\ backend = None
<1>1. Good(Object(Specs, Statuses), Steps) /\ AzureTypeOK /\ PathInv
  BY StepInvIs
<1>2. copy.del /\ backend = None
  BY <1>1 DEF RemoveFinalizer, LetGo, PathInv
<1>3. Good(Object(Specs, Statuses), Steps)' /\ pc' = "idle"
  BY <1>1, <1>2, Types, LetGoKeeps DEF RemoveFinalizer
<1>4. AzureTypeOK' /\ PathInv'
  BY <1>1, <1>3 DEF RemoveFinalizer, azure, AzureTypeOK, PathInv
<1> QED BY <1>2, <1>3, <1>4, StepInvIsNext

LEMMA StutterStep ==
  ASSUME StepInv, UNCHANGED vars
  PROVE  StepInv' /\ Held' = Held
BY DEF vars, cluster, azure, StepInv, TypeOK, ClusterTypeOK, ClusterInv,
       PathInv, Held, Tracks, Seen, Blocked

LEMMA StepKeeps ==
  ASSUME StepInv, [Next]_vars
  PROVE  StepInv' /\ (Held /\ ~Held' => backend = None)
BY EnvironmentStep, ReadStep, WriteStep, ReleaseStep, StutterStep
   DEF Next, Reconcile

-----------------------------------------------------------------------------
(* Whatever the cache lags behind and whatever fails: the worker deletes   *)
(* only for an object marked for deletion, and removes the finalizer only  *)
(* when the backend is gone.                                               *)
THEOREM KeepsToThePath == Spec => []StepInv
<1>1. StepInv /\ [Next]_vars => StepInv'
  BY StepKeeps
<1> QED BY <1>1, InitGood, PTL DEF Spec

(* No step lets go of an object while its backend exists in Azure.  (That  *)
(* a backend is created AFTER its object is let go is another matter: the  *)
(* run BackendOrphan.)                                                     *)
THEOREM ReleasesWhenAbsent == Spec => ReleasedOnlyWhenAbsent
<1>1. StepInv /\ [Next]_vars => StepInv'
  BY StepKeeps
<1>2. StepInv /\ [Next]_vars => [Held /\ ~Held' => backend = None]_vars
  BY StepKeeps
<1> QED BY <1>1, <1>2, InitGood, PTL DEF Spec, ReleasedOnlyWhenAbsent

(* A backend appears only where the worker creates or updates it.          *)
LEMMA Appears ==
  ASSUME [Next]_vars, backend = None, backend' # None
  PROVE  pc \notin {"idle", "addFinalizer"} /\ Held' = Held
<1>1. Create \/ Update
  BY DEF Next, User, Drift, Informer, Delayed, Resynced, Crash, Reconcile, Get,
         AddFinalizer, GetBackend, SaveCreated, SaveUpdated, SaveFailed, Delete,
         RemoveFinalizer, azure, vars
<1>2. UNCHANGED server
  BY <1>1 DEF Create, Update, Provision
<1> QED BY <1>1, <1>2 DEF Create, Update, Held, server

(* A backend that is nobody's is the work of a Reconcile that had read its *)
(* object as marked for deletion: nothing else creates one for an object   *)
(* that is not held, however stale the cache and wherever a call fails.    *)
THEOREM OrphansOnlyMarked == Spec => OnlyMarkedAreOrphaned
<1>1. StepInv /\ [Next]_vars
        => [backend = None /\ backend' # None /\ ~Held' => copy.del]_vars
  BY Appears DEF StepInv, PathInv
<1> QED BY <1>1, KeepsToThePath, PTL DEF Spec, OnlyMarkedAreOrphaned
=============================================================================
