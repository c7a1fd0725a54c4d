-------------------------- MODULE BackendController --------------------------
(***************************************************************************)
(* BackendReconciler (src/internal/controller/backend_controller.go) for   *)
(* one Backend, with the Azure backend it manages.  Azure creates, updates *)
(* and deletes backends synchronously.  Each call Reconcile makes to the   *)
(* API server or to Azure is one action.                                   *)
(***************************************************************************)
EXTENDS Apim

CONSTANT Urls \* values of Spec.Url, the only field compared with Azure

Specs == [url : Urls]

(* id: the identifier Azure gave the backend has been recorded.            *)
Statuses == [prov : {"", "Succeeded", "Failed"}, id : BOOLEAN]

Objects == Object(Specs, Statuses)

NoStatus == [prov |-> "", id |-> FALSE]

ASSUME NoneIsNoValue == None \notin Objects \cup Specs

VARIABLES
  backend,  \* the backend in Azure, or None
  etag      \* the ETag the running Reconcile has read is still current

azure == <<backend, etag>>
vars  == <<cluster, azure>>

Steps == {"idle", "addFinalizer", "getBackend", "create", "saveCreated",
          "update", "saveUpdated", "saveFailed", "delete", "removeFinalizer"}

TypeOK ==
  /\ ClusterTypeOK(Objects, Steps)
  /\ backend \in Specs \cup {None}
  /\ etag \in BOOLEAN

Init == ClusterInit /\ backend = None /\ etag = FALSE

-----------------------------------------------------------------------------
(* Users, and somebody who removes or changes the backend in Azure.        *)

User ==
  /\ \/ \E spec \in Specs : UserCreates(spec, NoStatus) \/ UserEdits(spec)
     \/ UserDeletes
  /\ UNCHANGED azure

Drift ==
  /\ Fault
  /\ backend # None
  /\ backend' \in (Specs \cup {None}) \ {backend}
  /\ etag' = FALSE
  /\ UNCHANGED <<server, cached, queue, configured, worker, edits>>

-----------------------------------------------------------------------------
(* Reconcile                                                               *)

Get == Fetch("getBackend") /\ UNCHANGED azure

AddFinalizer == Finalize("getBackend") /\ UNCHANGED azure

(* Mutant: the URL of an existing backend is not compared.                 *)
UpToDateAnyway == backend # None

(* toAzureBackend is compared with what Azure has in its URL only.         *)
UpToDate == backend.url = copy.spec.url

(* A backend that is not found is created before the deletion timestamp is *)
(* looked at.                                                              *)
GetBackend ==
  /\ pc = "getBackend"
  /\ \/ NewAPIMClientFails /\ Retry
     \/ \E err \in Errors :
          /\ Read(backend # None, err)
          /\ \/ IgnoreNotFound(err) # "none" /\ Retry
             \/ IsNotFoundError(err) /\ Goto("create")
             \/ err = "none" /\ copy.del /\ Goto("delete")
             \/ err = "none" /\ ~copy.del /\ ~UpToDate /\ Goto("update")
             \/ err = "none" /\ ~copy.del /\ UpToDate /\ Retry
  /\ etag' = (backend # None)
  /\ UNCHANGED <<server, backend>>

(* CreateUpdateBackend.                                                    *)
Provision(saved) ==
  /\ \E err \in Errors, done \in BOOLEAN :
       /\ Call(TRUE, FALSE, done, err)
       /\ backend' = IF done THEN copy.spec ELSE backend
       /\ Goto(IF err = "none" THEN saved ELSE "saveFailed")
  /\ etag' = FALSE
  /\ UNCHANGED server

Create == pc = "create" /\ Provision("saveCreated")
Update == pc = "update" /\ Provision("saveUpdated")

Succeeded == [prov |-> "Succeeded", id |-> TRUE]

(* Whether the status update succeeds makes no difference; after creating, *)
(* nothing asks for another Reconcile.                                     *)
SaveCreated ==
  /\ pc = "saveCreated"
  /\ \E ok \in BOOLEAN : SubmitStatus(Succeeded, ok)
  /\ Return(FALSE)
  /\ UNCHANGED azure

SaveUpdated ==
  /\ pc = "saveUpdated"
  /\ \E ok \in BOOLEAN : SubmitStatus(Succeeded, ok)
  /\ Return(TRUE)
  /\ UNCHANGED azure

SaveFailed ==
  /\ pc = "saveFailed"
  /\ \E ok \in BOOLEAN :
       SubmitStatus([copy.status EXCEPT !.prov = "Failed"], ok)
  /\ Retry
  /\ UNCHANGED azure

(* DeleteBackend with the ETag that was read: Azure refuses when somebody  *)
(* has changed the backend since.                                          *)
Delete ==
  /\ pc = "delete"
  /\ \E err \in Errors, done \in BOOLEAN :
       /\ Call(backend # None, ~etag /\ backend # None, done, err)
       /\ backend' = IF done THEN None ELSE backend
       /\ IF IgnoreNotFound(err) = "none" THEN Goto("removeFinalizer") ELSE Retry
  /\ etag' = FALSE
  /\ UNCHANGED server

RemoveFinalizer == LetGo /\ UNCHANGED azure

-----------------------------------------------------------------------------
Reconcile ==
  \/ Get \/ AddFinalizer \/ GetBackend
  \/ Create \/ SaveCreated \/ Update \/ SaveUpdated \/ SaveFailed
  \/ Delete \/ RemoveFinalizer

Informer == Deliver /\ UNCHANGED azure
Delayed  == TimerFires /\ UNCHANGED azure
Resynced == Resync /\ UNCHANGED azure
Crash    == Restart /\ etag' = FALSE /\ UNCHANGED backend

Next ==
  \/ User \/ Drift
  \/ Informer \/ Delayed \/ Resynced \/ Crash
  \/ Reconcile

(* The manager's goroutines keep running and pending timers fire.  Users,  *)
(* faults and, here, the resync are promised by nobody.                    *)
Fairness == WF_vars(Reconcile) /\ WF_vars(Informer) /\ WF_vars(Delayed)

Spec == Init /\ [][Next]_vars /\ Fairness

(* With the resync counted on: what holds in the end, ten hours at worst.  *)
SpecWithResync == Spec /\ WF_vars(Resynced)

-----------------------------------------------------------------------------
(* Properties                                                              *)

(* The worker's copy, the step it is at and the versions around it fit     *)
(* together: in particular it writes to Azure only with a finalizer on its *)
(* copy (backend_controller.go:64-70), and removes the finalizer only from *)
(* an object being deleted whose backend is gone (108-121).                *)
PathInv ==
  /\ pc = "addFinalizer" => ~copy.fin
  /\ pc \notin {"idle", "addFinalizer"} => copy.fin
  /\ pc \in {"update", "saveUpdated"} => ~copy.del
  /\ pc \in {"delete", "removeFinalizer"} => copy.del
  /\ pc = "removeFinalizer" => backend = None
  /\ pc \notin {"idle", "addFinalizer"} /\ ~copy.del => Held

StepInv == TypeOK /\ ClusterInv /\ PathInv

(* The finalizer does its job (backend_controller.go:64-70, 108-121): at   *)
(* the moment the object is let go its backend is gone from Azure.         *)
ReleasedOnlyWhenAbsent == [][Held /\ ~Held' => backend = None]_vars

(* "... move the current state of the cluster closer to the desired state" *)
(* (backend_controller.go:47-48): a backend exists in Azure only for an    *)
(* object that is held.                                                    *)
NoOrphan == backend # None => Held

(* ... or it was made by a Reconcile that had read the object as marked    *)
(* for deletion (backend_controller.go:82-107): the finalizer is on before *)
(* anything is created (64-70), however stale the copy.                    *)
OnlyMarkedAreOrphaned ==
  [][backend = None /\ backend' # None /\ ~Held' => copy.del]_vars

(* ... an object marked for deletion goes away, unless the process has no  *)
(* Azure settings;                                                         *)
DeletionCompletes ==
  (obj # None /\ obj.del) ~> (obj = None \/ ~configured)

(* ... and when users and faults stop, Azure has the URL of the spec.      *)
Settled == <>[](Live /\ configured)

Converges ==
  Settled => <>[](Live /\ backend # None /\ backend.url = obj.spec.url)
=============================================================================
