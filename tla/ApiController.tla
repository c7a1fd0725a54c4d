---------------------------- MODULE ApiController ----------------------------
(***************************************************************************)
(* ApiReconciler (src/internal/controller/api_controller.go) for one Api:  *)
(* the version set it keeps in Azure, and the ApiVersion objects it        *)
(* creates and updates from the Api's list of versions.  An ApiVersion     *)
(* lives on as VersionLife says, which ApiVersionController implements.    *)
(*                                                                         *)
(* Versions have a cache of their own, fed by a watch of their own: the    *)
(* two caches may lag behind by different amounts.                         *)
(***************************************************************************)
EXTENDS Apim

CONSTANTS
  Names,    \* names of the ApiVersion objects ("default" if left out)
  Paths,    \* what the Api says of all its versions (path, scheme, type)
  Fields,   \* what its list says of one, but for the policy
  Policies, \* policy contents, with None where a user may leave it out
  Lists,    \* the lists of versions users write
  VersionStatuses \* what a version's status can say of the import

Entries == [name : Names, fields : Fields, policy : Policies]

ASSUME ListsAreLists == Lists \subseteq Seq(Entries)

Uids == 0 .. MaxEdits

(* uid is metadata.uid, which tells an Api from another of the same name.  *)
Specs == [path : Paths, list : Lists, uid : Uids]

ASSUME AtFirstNothing == "" \in VersionStatuses

(* The Api's status says of each version what its own status says.         *)
Reports == [Names -> VersionStatuses \cup {None}]

(* set: the identifier of the version set has been recorded.               *)
Statuses == [set : BOOLEAN, states : Reports]

NoStatus == [set |-> FALSE, states |-> [n \in Names |-> None]]

Objects == Object(Specs, Statuses)

(* set: it refers to the version set of its Api, rather than to something  *)
(* else or to nothing.                                                     *)
VersionSpecs ==
  [path : Paths, set : BOOLEAN, fields : Fields, policy : Policies]

Versions ==
  [owner : Uids, spec : VersionSpecs, status : VersionStatuses,
   fin : BOOLEAN, del : BOOLEAN]

(* A version without the reference to its owner.                           *)
SeenVersions == Object(VersionSpecs, VersionStatuses)

ASSUME NoneIsNoValue ==
  None \notin Objects \cup Versions \cup SeenVersions \cup VersionStatuses

VARIABLES
  versionSet,   \* the version set exists in Azure
  versions,     \* the ApiVersion stored under each name, or None
  versionWatch, \* versions of them not yet delivered, in order
  versionCache, \* the version in the informer's cache
  next,         \* the entry of the list reconcileVersions is at
  report        \* the status the running Reconcile is putting together

owned  == <<versions, versionWatch, versionCache>>
local  == <<next, report>>
vars   == <<cluster, versionSet, owned, local>>

Steps == {"idle", "addFinalizer", "getSet", "createSet", "version",
          "saveStatus", "listOwned", "getSetToDelete", "deleteSet",
          "removeFinalizer"}

OwnedTypeOK ==
  /\ versions \in [Names -> Versions \cup {None}]
  /\ versionCache \in [Names -> Versions \cup {None}]
  /\ versionWatch \in Seq([name : Names, version : Versions \cup {None}])

LocalTypeOK == next \in Nat \ {0} /\ report \in Statuses

TypeOK ==
  /\ ClusterTypeOK(Objects, Steps)
  /\ versionSet \in BOOLEAN
  /\ OwnedTypeOK /\ LocalTypeOK

Init ==
  /\ ClusterInit
  /\ versionSet = FALSE
  /\ versions = [n \in Names |-> None]
  /\ versionCache = versions /\ versionWatch = <<>>
  /\ next = 1 /\ report = NoStatus

-----------------------------------------------------------------------------
(* The ApiVersion objects                                                  *)

PutVersion(n, new) ==
  /\ versions' = [versions EXCEPT ![n] = new]
  /\ versionWatch' =
       IF new = versions[n] THEN versionWatch
       ELSE Append(versionWatch, [name |-> n, version |-> new])
  /\ UNCHANGED versionCache

(* The API server refuses an update of anything but the current version.   *)
Current(n) == \A i \in DOMAIN versionWatch : versionWatch[i].name # n

IsLive(v) == v # None /\ ~v.del

AsSeen(v) ==
  IF v = None THEN None
  ELSE [spec |-> v.spec, status |-> v.status, fin |-> v.fin, del |-> v.del]

Life(n) ==
  INSTANCE VersionLife WITH States <- VersionStatuses, userOps <- edits,
                            version <- AsSeen(versions[n])

(* An event of an ApiVersion adds the key of its Api.                      *)
VersionDeliver ==
  /\ versionWatch # <<>>
  /\ LET event == Head(versionWatch) IN
       versionCache' = [versionCache EXCEPT ![event.name] = event.version]
  /\ versionWatch' = Tail(versionWatch)
  /\ queued' = TRUE
  /\ UNCHANGED <<server, cached, timer, configured, worker, edits, faults,
                 versions, versionSet, local>>

(* The ApiVersion reconciler of the same process, which adds the finalizer *)
(* (it looks for its Azure settings after that) and removes it ...         *)
VersionReconciled(n) ==
  /\ versions[n] # None
  /\ configured \/ ~versions[n].fin
  /\ \E v \in Life(n)!Progressed(versions[n]) : PutVersion(n, v)
  /\ UNCHANGED <<cluster, versionSet, local>>

(* ... and reports the status; its copy comes from the same cache.         *)
VersionReports(n) ==
  /\ configured /\ versions[n] # None /\ Current(n)
  /\ \E v \in Life(n)!Reported(versions[n]) : PutVersion(n, v)
  /\ UNCHANGED <<cluster, versionSet, local>>

(* Kubernetes deletes a version whose owner is gone.                       *)
GarbageCollected(n) ==
  /\ IsLive(versions[n])
  /\ obj # None => obj.spec.uid # versions[n].owner
  /\ PutVersion(n, Life(n)!Deleted(versions[n]))
  /\ UNCHANGED <<cluster, versionSet, local>>

-----------------------------------------------------------------------------
(* Users, of the Api and of its versions, and of Azure.                    *)

User ==
  /\ \/ \E path \in Paths, list \in Lists :
          \/ UserCreates([path |-> path, list |-> list, uid |-> edits], NoStatus)
          \/ obj # None
             /\ UserEdits([obj.spec EXCEPT !.path = path, !.list = list])
     \/ UserDeletes
  /\ UNCHANGED <<versionSet, owned, local>>

UserOfVersion(n) ==
  /\ edits < MaxEdits
  /\ edits' = edits + 1
  /\ IsLive(versions[n])
  /\ \/ PutVersion(n, Life(n)!Deleted(versions[n]))
     \/ \E spec \in VersionSpecs :
          PutVersion(n, [versions[n] EXCEPT !.spec = spec])
  /\ UNCHANGED <<server, cached, queue, configured, worker, faults,
                 versionSet, local>>

Drift ==
  /\ Fault
  /\ versionSet /\ versionSet' = FALSE
  /\ UNCHANGED <<server, cached, queue, configured, worker, edits, owned,
                 local>>

-----------------------------------------------------------------------------
(* Reconcile                                                               *)

Leave(requeue) == Return(requeue) /\ next' = 1 /\ report' = NoStatus

Get ==
  /\ Fetch(IF cached.del THEN "listOwned" ELSE "getSet")
  /\ UNCHANGED <<versionSet, owned, local>>

AddFinalizer == Finalize("getSet") /\ UNCHANGED <<versionSet, owned, local>>

-----------------------------------------------------------------------------
(* A live Api: the version set, then the versions, then the status.        *)

(* Mutant: the identifier of the version set is recorded only once the     *)
(* versions are done.                                                      *)
BeginUnknown == report' = copy.status /\ next' = 1

Begin == report' = [copy.status EXCEPT !.set = TRUE] /\ next' = 1

(* A failed call, or an answer without an identifier, is tried again.      *)
GetSet ==
  /\ pc = "getSet"
  /\ \/ NewAPIMClientFails /\ Retry /\ UNCHANGED local
     \/ \E err \in Errors :
          /\ Read(versionSet, err)
          /\ \/ err = "none" /\ Goto("version") /\ Begin
             \/ IsNotFoundError(err) /\ Goto("createSet") /\ UNCHANGED local
             \/ IgnoreNotFound(err) # "none" /\ Retry /\ UNCHANGED local
  /\ UNCHANGED <<server, versionSet, owned>>

CreateSet ==
  /\ pc = "createSet"
  /\ \E err \in Errors, done \in BOOLEAN :
       /\ Call(TRUE, FALSE, done, err)
       /\ versionSet' = (versionSet \/ done)
       /\ \/ err = "none" /\ Goto("version") /\ Begin
          \/ err # "none" /\ Retry /\ UNCHANGED local
  /\ UNCHANGED <<server, owned>>

More == next <= Len(copy.spec.list)

Entry == copy.spec.list[next]

(* With the reference to its owner that SetControllerReference adds.       *)
createApiVersionResource(api, status, entry) ==
  [owner |-> api.spec.uid,
   spec |-> [path |-> api.spec.path, set |-> status.set,
             fields |-> entry.fields, policy |-> entry.policy],
   status |-> "", fin |-> FALSE, del |-> FALSE]

(* The identifier of the version set comes from the status, where this     *)
(* Reconcile has just put it.                                              *)
Wanted == createApiVersionResource(copy, report, Entry)

(* Mutant: what the Api says of all versions is not compared.              *)
RequireUpdateOfEntry(old, new) ==
  old.fields # new.fields \/ old.policy # new.policy

(* ApiVersion.RequireUpdate, which does not compare the identifier of the  *)
(* version set.                                                            *)
RequireUpdate(old, new) ==
  \/ old.path # new.path \/ old.fields # new.fields
  \/ old.policy # new.policy

(* When nothing else differs and both specs leave the policy out,          *)
(* RequireUpdate dereferences nil; the panic is recovered as an error.     *)
Panics(old, new) == ~RequireUpdate(old, new) /\ new.policy = None

Advance(r) == Goto("version") /\ next' = next + 1 /\ report' = r

(* A write that succeeds; or an error: a refusal, or a call lost on the    *)
(* way to the server or back.                                              *)
WriteVersion(new, accepted, r) ==
  \/ accepted /\ PutVersion(Entry.name, new) /\ Advance(r) /\ UNCHANGED faults
  \/ ~accepted /\ Leave(TRUE) /\ UNCHANGED <<owned, faults>>
  \/ Leave(TRUE) /\ Fault /\ UNCHANGED owned
  \/ accepted /\ PutVersion(Entry.name, new) /\ Leave(TRUE) /\ Fault

(* A version the cache does not have is created; if it exists after all    *)
(* that is an error.                                                       *)
CreateVersion ==
  /\ pc = "version" /\ More
  /\ versionCache[Entry.name] = None
  /\ WriteVersion(Wanted, versions[Entry.name] = None, report)
  /\ UNCHANGED <<server, versionSet>>

(* Mutant: what is sent is the version as it would be created; status and  *)
(* deletion timestamp are not for this update to change.                   *)
UpdatedAnew(v) == [Wanted EXCEPT !.status = v.status, !.del = v.del]

Updated(v) == [v EXCEPT !.spec = Wanted.spec]

(* A version the cache has is brought up to date, whoever owns it, and its *)
(* status taken over.                                                      *)
UpdateVersion ==
  /\ pc = "version" /\ More
  /\ versionCache[Entry.name] # None
  /\ LET v == versionCache[Entry.name]
         taken == [report EXCEPT !.states[Entry.name] = v.status]
     IN \/ /\ RequireUpdate(v.spec, Wanted.spec)
           /\ WriteVersion(Updated(v), Current(Entry.name), taken)
        \/ /\ ~RequireUpdate(v.spec, Wanted.spec)
           /\ IF Panics(v.spec, Wanted.spec) THEN Leave(TRUE)
              ELSE Advance(taken)
           /\ UNCHANGED <<owned, faults>>
  /\ UNCHANGED <<server, versionSet>>

VersionsDone ==
  /\ pc = "version" /\ ~More
  /\ Goto("saveStatus")
  /\ UNCHANGED <<server, faults, versionSet, owned, local>>

(* Mutant: the error of the status update is dropped, and no Reconcile is  *)
(* asked for.                                                              *)
SaveStatusOnce ==
  /\ pc = "saveStatus"
  /\ \E ok \in BOOLEAN : SubmitStatus(report, ok)
  /\ Leave(FALSE)
  /\ UNCHANGED <<versionSet, owned>>

(* Reconcile comes back after a minute.                                    *)
SaveStatus ==
  /\ pc = "saveStatus"
  /\ \E ok \in BOOLEAN : SubmitStatus(report, ok)
  /\ Leave(TRUE)
  /\ UNCHANGED <<versionSet, owned>>

-----------------------------------------------------------------------------
(* An Api marked for deletion: deleteOwnedResources, deleteAzureResources. *)

Owned(cache) ==
  {n \in Names : cache[n] # None /\ cache[n].owner = copy.spec.uid}

(* Only versions that are being deleted already are deleted, which changes *)
(* nothing; Reconcile then comes back, whether after ten seconds or after  *)
(* the error of a version that is gone meanwhile.                          *)
ListOwned ==
  /\ pc = "listOwned"
  /\ \/ NewAPIMClientFails /\ Retry
     \/ Owned(versionCache) # {} /\ Retry /\ UNCHANGED faults
     \/ Owned(versionCache) = {} /\ Goto("getSetToDelete") /\ UNCHANGED faults
  /\ UNCHANGED <<server, versionSet, owned, local>>

GetSetToDelete ==
  /\ pc = "getSetToDelete"
  /\ \E err \in Errors :
       /\ Read(versionSet, err)
       /\ \/ IgnoreNotFound(err) # "none" /\ Retry
          \/ /\ IgnoreNotFound(err) = "none"
             /\ Goto(IF err = "none" THEN "deleteSet" ELSE "removeFinalizer")
  /\ UNCHANGED <<server, versionSet, owned, local>>

(* Here a version set that is not found is an error.                       *)
DeleteSet ==
  /\ pc = "deleteSet"
  /\ \E err \in Errors, done \in BOOLEAN :
       /\ Call(versionSet, FALSE, done, err)
       /\ versionSet' = (versionSet /\ ~done)
       /\ IF err = "none" THEN Goto("removeFinalizer") ELSE Retry
  /\ UNCHANGED <<server, owned, local>>

RemoveFinalizer == LetGo /\ UNCHANGED <<versionSet, owned, local>>

-----------------------------------------------------------------------------
Reconcile ==
  \/ Get \/ AddFinalizer
  \/ GetSet \/ CreateSet
  \/ CreateVersion \/ UpdateVersion \/ VersionsDone \/ SaveStatus
  \/ ListOwned \/ GetSetToDelete \/ DeleteSet \/ RemoveFinalizer

Informer == Deliver /\ UNCHANGED <<versionSet, owned, local>>
Delayed  == TimerFires /\ UNCHANGED <<versionSet, owned, local>>
Resynced == Resync /\ UNCHANGED <<versionSet, owned, local>>

Crash ==
  /\ Restart
  /\ versionCache' = versions /\ versionWatch' = <<>>
  /\ next' = 1 /\ report' = NoStatus
  /\ UNCHANGED <<versions, versionSet>>

Environment ==
  \/ User \/ Drift \/ Informer \/ Delayed \/ Resynced \/ Crash

OfVersions ==
  \/ VersionDeliver
  \/ \E n \in Names :
       \/ VersionReconciled(n) \/ VersionReports(n)
       \/ GarbageCollected(n) \/ UserOfVersion(n)

Next == Environment \/ OfVersions \/ Reconcile

(* The manager's goroutines keep running, among them the ApiVersion        *)
(* reconciler, which brings every version on (ProgressesAsPromised of      *)
(* ApiVersionController); so does the garbage collector.                   *)
Fairness ==
  /\ WF_vars(Reconcile)
  /\ WF_vars(Informer)
  /\ WF_vars(Delayed)
  /\ WF_vars(VersionDeliver)
  /\ \A n \in Names : WF_vars(VersionReconciled(n))
  /\ \A n \in Names : WF_vars(GarbageCollected(n))

Spec == Init /\ [][Next]_vars /\ Fairness

-----------------------------------------------------------------------------
(* Properties                                                              *)

(* What this controller promises of the version set, abstractly: it exists *)
(* only for an Api that is held by its finalizer, which goes last          *)
(* (api_controller.go:69-76, 93-117).                                      *)
Managed == INSTANCE ManagedResource WITH held <- Held, azure <- versionSet

ManagesTheVersionSet == Managed!Spec

(* "Get all owned resources and delete them first" (api_controller.go:95): *)
(* an Api marked for deletion goes away, unless the process has no Azure   *)
(* settings.                                                               *)
DeletionCompletes ==
  (obj # None /\ obj.del) ~> (obj = None \/ ~configured)

(* The part of it that does hold (api_controller.go:101-116): an Api       *)
(* marked for deletion does not stay once its versions are gone.           *)
Childless ==
  /\ obj # None /\ obj.del /\ configured
  /\ \A n \in Names : versions[n] # None => versions[n].owner # obj.spec.uid

DeletionFollows == ~ <>[]Childless

(* Nothing outlasts an Api that is gone for good, whether its versions     *)
(* were listed from a stale cache or not (api_controller.go:93-116, 231).  *)
NothingRemains ==
  <>[](obj = None /\ configured) =>
    <>[](~versionSet /\ \A n \in Names : versions[n] = None)

(* "... move the current state of the cluster closer to the desired state" *)
(* (api_controller.go:51-52): when users and faults stop and the versions' *)
(* own reconcilers have come to rest (they do: ProgressesAsPromised of     *)
(* ApiVersionController), the version set exists, every version of the     *)
(* list is there as the Api says, and the Api's status shows the status of *)
(* each.  Which version set a version refers to is left out: an edit of    *)
(* that is not undone (apiversion_types.go:132-150).                       *)
Settled ==
  /\ <>[](Live /\ configured)
  /\ <>[][~ \E n \in Names : VersionReports(n)]_vars

AsListed(entry) ==
  LET v == versions[entry.name] IN
    /\ IsLive(v) /\ v.owner = obj.spec.uid
    /\ [v.spec EXCEPT !.set = TRUE] =
         createApiVersionResource(obj, obj.status, entry).spec
    /\ obj.status.states[entry.name] = v.status

Applied ==
  /\ obj # None /\ obj.status.set /\ versionSet
  /\ \A i \in DOMAIN obj.spec.list : AsListed(obj.spec.list[i])

Converges == Settled => <>[]Applied

(* The other half of what VersionLife assumes of the users of a version:   *)
(* however stale the cache it works from, Reconcile changes a version only *)
(* as a user may.  It never takes back a status, a finalizer or a deletion *)
(* it has not seen, and never takes a version from its owner               *)
(* (api_controller.go:187-218).                                            *)
Owner(n) == versions[n].owner

AsUsersMay(n) ==
  /\ Life(n)!ByUsers
  /\ versions[n] # None /\ versions'[n] # None => UNCHANGED Owner(n)

UsesVersions ==
  [][Reconcile =>
       \A n \in Names : AsUsersMay(n) \/ UNCHANGED versions[n]]_vars

(* A version comes into being only for the Api that is in the cluster at   *)
(* that moment, held by its finalizer: never for one that is gone already, *)
(* nor for one of the same name that came after it.  It comes in its Api's *)
(* version set, which no later Reconcile would correct                     *)
(* (api_controller.go:69-76, 137-145, 198-209, 268).                       *)
Appears(n) == versions[n] = None /\ versions'[n] # None

BornToHeldApi ==
  [][\A n \in Names :
       Appears(n) =>
         /\ Held /\ versions'[n].owner = obj.spec.uid
         /\ versions'[n].spec.set]_vars

-----------------------------------------------------------------------------
(* Why ManagesTheVersionSet holds: an inductive invariant                  *)

CreateSteps == {"getSet", "createSet", "version", "saveStatus"}
DeleteSteps == {"listOwned", "getSetToDelete", "deleteSet", "removeFinalizer"}

(* Reconcile creates only for a live copy that has the finalizer, and such *)
(* a copy is of a held Api; it deletes only for one that is being deleted. *)
PathInv ==
  /\ pc = "addFinalizer" => ~copy.fin
  /\ pc \in CreateSteps => copy.fin /\ ~copy.del /\ Held
  /\ pc \in DeleteSteps => copy.fin /\ copy.del

NoOrphan == versionSet => Held

CleanInv == pc = "removeFinalizer" => ~versionSet

(* However stale the caches are, the worker's copy, the step it is at and  *)
(* what exists in Azure fit together so that releasing the Api leaves no   *)
(* version set behind (api_controller.go:69-76, 93-117, 118-149).          *)
StepInv == TypeOK /\ ClusterInv /\ PathInv
IndInv == StepInv /\ CleanInv /\ NoOrphan

-----------------------------------------------------------------------------
(* Why UsesVersions and BornToHeldApi hold                                 *)

(* The last event of a version that is still to come is of the version     *)
(* stored, and the cache has that version when none is to come.            *)
LastOf(n, i) ==
  /\ versionWatch[i].name = n
  /\ \A j \in DOMAIN versionWatch : versionWatch[j].name = n => j <= i

OwnedTracks ==
  \A n \in Names :
    /\ Current(n) => versionCache[n] = versions[n]
    /\ \A i \in DOMAIN versionWatch :
         LastOf(n, i) => versionWatch[i].version = versions[n]

(* Whatever version of the Api Reconcile holds or may still read: if it    *)
(* can be created for, it is a version of the Api that is in the cluster.  *)
SameApi ==
  \A v \in Seen \cup {copy} :
    Claims(v) => Held /\ v.spec.uid = obj.spec.uid

(* The version set is recorded in the status before a version is created   *)
(* from it.                                                                *)
SetIsKnown == pc = "version" => report.set

(* The versions' cache and the worker's copy, however old, are of the      *)
(* objects that writes will be accepted for (api_controller.go:187-218).   *)
OwnedInv == OwnedTracks /\ SameApi /\ SetIsKnown
=============================================================================
