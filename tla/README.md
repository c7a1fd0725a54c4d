# Verification of the stilas operator

stilas-az is a Kubernetes operator that keeps APIs, API versions and backends of
Azure API Management in step with custom resources. This directory holds TLA+
models of its reconcilers, the TLC configurations that check them on small
instances, and proofs of what matters most for every instance.

The operator's hard part is not any one call but the order of calls: a
reconciler reads a cache that lags behind, talks to Azure, and writes back under
optimistic concurrency, while users edit, Azure works on its own, calls fail with
or without effect, and the process dies anywhere in between. The models make every
call one atomic step and let everything else happen between any two steps.

## 1. The system

| Component | Source | State it keeps | Operations |
|---|---|---|---|
| ApiVersion reconciler | `internal/controller/apiversion_controller.go` | finalizer and status (`provisioningState`, `resumeToken`, `lastAppliedSpecSha`, `lastAppliedPolicySha`) of an ApiVersion | `Reconcile`, `createUpdateApimApi`, `createUpdatePolicy`, `deleteApiVersion` |
| Backend reconciler | `internal/controller/backend_controller.go` | finalizer and status (`backendID`, `provisioningState`) of a Backend | `Reconcile` |
| Api reconciler | `internal/controller/api_controller.go` | finalizer and status (`apiVersionSetID`, `versionStates`) of an Api; the ApiVersions it owns | `Reconcile`, `reconcileVersions`, `deleteOwnedResources`, `deleteAzureResources` |
| Long-running operations | `internal/azure/azure-lro.go` | none (a resume token stands for the poller) | `StartResumeOperation` |
| APIM client | `internal/azure/apim_client.go` | none | thin wrappers of the SDK, `IsNotFoundError`, `IgnoreNotFound` |
| Digests | `internal/utils/sha.go` | none | `Sha256FromContent` |
| Resource types | `api/v1alpha1/*_types.go` | none | `RequireUpdate`, name and default helpers |
| Conversions | `api/v1alpha1/api_converters.go`, `api_enums.go` | none | enumeration maps, of which `AzureApiType` panics on a missing value; the functions of `api_converters.go` have no caller |
| Manager | `cmd/main.go` | the process: caches, work queues, leader lease | start of the three reconcilers |
| API server, informers, queue, garbage collector | external | the objects, their resource versions, caches | `Get`, `List`, `Create`, `Update`, `Status().Update`, `Delete` |
| Azure API Management | external | APIs, policies, version sets, backends, running imports | PUT, GET, DELETE, poll |

How they interact. Users write custom resources. The informer brings their
versions to the cache one by one and adds the object's key to a work queue, which
one worker per kind serves. The worker reads the *cache*, calls Azure, and writes
the object with the resource version it read; the server refuses a write by
anyone who is behind. An error or a `RequeueAfter` adds the key again later, an
empty result does not. The Api reconciler creates, updates and watches ApiVersion
objects; the ApiVersion reconciler works on each of those; owner references
make the garbage collector delete them after their Api.

What is hard about it (each with its line in `PROJECT.json`, "hazards"):

* the cache is stale when Azure is called, also after the object is gone;
* a long-running import and the object it is for go separate ways: the content
  is edited, the object deleted, or the token lost between PUT and status update;
* a crash, conflict or lost answer between the effect in Azure and its record;
* documents behind links, read by the operator and by Azure at different times;
* deletion in several steps, one of which fails;
* a Reconcile that ends without asking for another, where no event will follow;
* two caches (Api and ApiVersion) that lag by different amounts;
* two reconcilers that meet only through ApiVersion objects, each counting on the other
  to bring them on.

What makes each component correct:

* every reconciler: what it manages exists in Azure only while the object is held
  by its finalizer; a deletion is carried through; once users and faults stop,
  Azure agrees with the spec;
* ApiVersion: a document or policy recorded in the status is the one in Azure, and a
  failed import is reported; the object goes through its life as the Api reconciler
  expects, and comes to rest;
* Backend: it lets go of an object only when the backend is gone;
* Api: versions and version set follow the Api's edits, the status shows the state of
  every version, and nothing outlasts an Api.

## 2. Modules

```
ManagedResource          what every reconciler promises of Azure (abstract)
VersionLife              the life of an ApiVersion as its Api sees it (abstract)
Cluster                  one object: server, informer, queue, worker, crash
  Apim                   EXTENDS Cluster: what a call to Azure can come back with
    BackendController    EXTENDS Apim
    ApiController        EXTENDS Apim, built on VersionLife for the versions it owns
    ApiVersionController EXTENDS Apim, LongRunning; implements VersionLife
LongRunning              StartResumeOperation
MCApiVersion, MCBackend, MCApi                 instances for TLC
ClusterProofs            lemmas for all three
  ApiVersionProofs         theorems: nothing is left in Azure
    ApiVersionPromises     theorems: the object's life, its policy
      ApiVersionImports    theorems: its document
  ApiProofs                theorems: the version set
    ApiPromises            theorems: the versions
  BackendProofs            theorems: the backend
```

**Cluster** is what controller-runtime v0.19 and the API server give a
reconciler, as `src/` uses them (external code), and what the three reconcilers do
alike. `obj` is the stored object,
`watch` the versions on their way to the informer, `cached` what `Get` returns,
`queued` and `timer` the work queue, `pc`/`copy`/`fresh` the running Reconcile:
its next call, the object it holds, and whether that is the current
version. `Submit` is `Update` and `Status().Update` with all their endings: done,
refused as a conflict, failed on the way there, failed on the way back. `Restart`
is a crash and the start of the next process, whose informer lists everything and whose
environment holds the three settings `getConfigFromEnv` needs, or not (`configured`).
`Fetch`, `Finalize` and `LetGo` are the parts of `Reconcile` that are the same in all
three: the read from the cache, the added finalizer, the removed finalizer.
A panic in a handler is recovered by controller-runtime and counts as an error.

**Apim** is `apim_client.go`: errors are none, a 404 or anything else (`IsNotFoundError`,
`IgnoreNotFound`); a `Read` answers truthfully or fails; a `Call` (PUT, DELETE) is done and
answered, refused by Azure, or lost on the way there or back; `NewAPIMClient` may fail.

**ApiVersionController** has one action per call of `Reconcile`:
`Get`, `AddFinalizer`, `GetApi`, `ResumeImport`/`StartImport`, `Poll`,
`SaveInProgress`, `SaveSucceeded`, `GetPolicy`, `PutPolicy`, `SavePolicy`,
`DeleteApi`, `DeletePolicy`, `RemoveFinalizer`; `BeginPanics` is the PUT of a spec
without an API type. Azure keeps `api` (document and
policy), the one `request` it is importing, the `outcome` of finished imports,
and `served`, the documents behind links. Tokens are names of imports; a name is
used again once nothing refers to it any more. `GetApi` includes the digest that
follows it, which only reads. For a link that reading can go wrong in two ways: the server does not
answer, which is an error (`DigestFails`), or it answers with an HTTP error status, which
`Sha256FromUrlContent` does not look at (`sha.go:12-22`), so that the error page (`ErrorPages`) is digested
like a document, here and in `SaveSucceeded`. Two things are assumed of Azure: it works on one import of an API at a time and
refuses another PUT until that has ended (`StartImport`), and, where `RefusesDuringImport` is TRUE, it
refuses to delete an API it is importing; where it is FALSE it may refuse that or not (`DeleteApi`).

**BackendController** likewise: `GetBackend`, `Create`, `Update`, `SaveCreated`,
`SaveUpdated`, `SaveFailed`, `Delete`, `RemoveFinalizer`. `etag` says whether the
ETag that was read still matches.

**ApiController** has `GetSet`, `CreateSet`, then one `CreateVersion` or
`UpdateVersion` per entry of the list (`next` is the loop variable), `SaveStatus`;
and `ListOwned`, `GetSetToDelete`, `DeleteSet`, `RemoveFinalizer` on the way out.
Each stands for the read from the cache and the write that follows; the write is
refused if the cache was behind. What `createApiVersionResource` writes into a version has three
parts: `path` for what the Api says of all its versions, `fields` and `policy` for what
an entry says of one, and `set`, whether the version refers to the version set of its Api (whose identifier
comes from the Api's status, `api_controller.go:268`). `RequireUpdate` compares all but the last (`apiversion_types.go:132-150`).
ApiVersion objects have a cache of their own. `uid` in the Api's spec stands for
`metadata.uid`: an Api deleted and created again is another one, and
`GarbageCollected` deletes the versions of the old one.

**VersionLife** is where the two reconcilers meet. Users create, edit and delete an
ApiVersion; its reconciler puts the finalizer on it or lets a deleted one go (`Progress`), and
may report a provisioning state meanwhile (`Report`), though never again that there is none.
ApiController is built on it: `VersionReconciled` is `Progressed`, which is fair (the finalizer is added
with or without Azure settings, which are read after it);
`VersionReports` is `Reported`, which is not. ApiVersionController is shown to keep it:
`LivesAsPromised` says every step of it is a step of VersionLife or leaves the object alone, and
`ProgressesAsPromised` that what ApiController assumes of progress is true, once the process has its settings:
a version does not stay without a finalizer, nor with one once it is deleted, and the
reports come to an end. That last part is the premise of ApiController's `Converges`. So the
assumptions of one model are theorems or checked properties of the other, and there is no
circle: ApiVersionController assumes nothing of the Api reconciler but that it is one more user, and
`UsesVersions` says that it is: whatever its caches have missed, the Api's `Reconcile` creates a version
or writes its spec as users do (`ByUsers`), and touches neither status, finalizer, deletion timestamp
nor owner. `Life(n)` looks at the version of one name without its owner (`AsSeen`). (What
is checked of the reports' end is checked under the discipline of ApiVersionLive, below.)

**ManagedResource** is the promise all three share, with two variables, `held` and
`azure`. `ManagesTheApi` and `ManagesTheVersionSet` say that the detailed
specifications implement it. The Backend reconciler does not (see below).

## 3. Runs

All passing runs explore their state space completely.

| Run | Question | Bounds |
|---|---|---|
| ApiVersionSafety | May anything go wrong that leaves something in Azure without its object, or takes the object where the Api reconciler does not expect it? `TypeOK`, `NoOrphan`, `IndInv`, `ManagesTheApi`, `LivesAsPromised` | 3 edits, 1 fault, 2 documents, 1 link whose server may be down or answer with an error page, specs without policy or API type, rejected imports, 200 and 202 answers, 3 tokens; `RefusesDuringImport` |
| ApiVersionLive | Are recorded documents and policies the ones in Azure, does Azure converge, do deletions complete, does the object make progress and come to rest? `ImportInv`, `RecordedShaIsImported`, `RecordedPolicyIsApplied`, `Converges`, `DeletionCompletes`, `ProgressesAsPromised` | 3 edits, 1 fault, 2 documents, 1 link that is republished or answers with an error page, 2 policies, 2 tokens; discipline below |
| Backend | Does the worker keep to its path, let go only of what is gone, converge and complete deletions with the resync? Which object can leave a backend behind? `StepInv`, `ReleasedOnlyWhenAbsent`, `OnlyMarkedAreOrphaned`, `DeletionCompletes`, `Converges` | 4 edits, 2 faults, 2 URLs |
| ApiOneVersion | The Api's path is edited, its version edited and deleted by users too: `IndInv`, `OwnedInv`, `ManagesTheVersionSet`, `UsesVersions`, `BornToHeldApi`, `Converges`, `NothingRemains`, `DeletionFollows` | 3 edits, 1 fault, 2 paths, 1 version with 2 reported states |
| ApiTwoVersions | A list of two, any two calls failing half way: `Converges` | 1 edit, 2 faults, 2 versions with 3 reported states, repeated imports |

Each of the remaining runs shows where the code differs from what its documentation
says ("findings"):

| Run | What happens |
|---|---|
| ApiVersionStaleToken | An edit made while an import is tracked is recorded as applied but never imported (`apiversion_controller.go:176`). |
| ApiVersionRevert | An edit taken back while its import starts is imported for good (`apiversion_controller.go:101`). |
| ApiVersionFailed | A rejected import is never reported and its token resumed forever (`apiversion_controller.go:148`). |
| ApiVersionAccepted | An import that answers 202 while it runs is taken for a failure, never tracked, and started over and over (`azure-lro.go:25`). |
| BackendOrphan | A Reconcile with a stale cache creates the backend of a deleted object again (`backend_controller.go:86`). |
| ApiDeleteStuck | An Api with a version, once deleted, stays: versions are deleted only if they already are (`api_controller.go:236`). |
| ApiNoPolicy | A version without a policy makes `RequireUpdate` panic and stops its Api (`apiversion_types.go:148`). |

### Bounds

`MaxEdits` bounds what users do (create, edit, delete, republish a linked document);
three are enough to create, delete and create again, or to edit and take the
edit back, while a Reconcile of an earlier version is still running. `MaxFaults`
bounds failed calls, lost answers, drift in Azure, links that do not answer or answer with an error page, and restarts together. One
object per controller is enough because reconciles of different objects share no
state; the Api's versions are there explicitly. Two documents (URLs, policies,
paths) tell "what was applied" from "what is wanted". `Choices` are the specs users write: in
ApiVersionSafety one that is complete, one without a policy and one without an API type; in
ApiVersionLive an inline document, and the link under either policy. A token is needed for the
stored object, the cached one and a new import; in ApiVersionLive, where no edit overtakes a
recorded token, two suffice. Nothing else is bounded: timers,
reconciles, polls, reports and imports happen any number of times. Symmetry (of tokens)
is used only in ApiVersionSafety, which checks no liveness. Deadlock is not
checked: an operator with no object and nothing queued has nothing to do.

### Discipline of ApiVersionLive

`EditsWhileTracked` and `Reverts` are FALSE there: while an import is tracked users do not edit, and
nobody republishes the linked document; and nobody
goes back to what the status records as applied, by an edit or by republishing.
ApiVersionStaleToken and ApiVersionRevert show that without the first and the second,
respectively, the properties fail; the run shows that nothing else breaks them.
`ImportsMayFail` is FALSE because of ApiVersionFailed, and running imports answer 200 because of
ApiVersionAccepted. `FetchesFail` is FALSE because of `apiversion_controller.go:99` (section 5): a link's server always answers, but
its answer may be an error page (`ErrorPages`), as often as `MaxFaults` lets it.
Every spec has a policy and an API type, without which `Reconcile` panics at lines 105 and 228.
`RefusesDuringImport` is FALSE there, so that Azure may refuse to delete an API it is importing or may
delete it: `DeletionCompletes` covers the refused deletion that is tried again until the import has ended.
The discipline also cuts off a republishing during an import, which goes the way of ApiVersionStaleToken.

### Fairness

Weak fairness of the worker (`Reconcile`), of the informer, of timers, and of
Azure finishing an import it has accepted: the manager's goroutines are not
blocked by anything else and Azure promises an end to an operation. In ApiController also
of the ApiVersions' informer, and for each name of their reconciler's progress and of the garbage
collector: the work queue serves every key, so that one version cannot starve another.
That the progress is made is `ProgressesAsPromised`; that reports end is a premise of
`Converges` and follows from the same property. A report needs the version it is based on to be
the stored one (`Current`), for the ApiVersion reconciler reads the same cache.
Nothing is assumed of users, faults or restarts, nor of
the ten-hour resync, except in the run Backend, whose `SpecWithResync` counts on it:
without it both its liveness properties fail (section 5).

## 4. Proofs

The theorems hold for every set of documents, links, policies, specs, tokens, URLs,
names, paths and lists, and every bound on edits and faults. They rest on the named
assumptions of the modules only: bounds are naturals, `None` is none of the
values, an error page is no document, lists are sequences of entries, a running import answers 200 or 202,
and a version may have no status yet.

*ClusterProofs* has the lemmas the components share: every step of users, informer,
timers and crash, and every `Submit`, keeps `ClusterTypeOK` and `ClusterInv`
(together `Good`). `ClusterInv` says how stale a cache can be: the last version on
its way is the stored one; a copy that is still `fresh` is the stored object; and,
the heart of it, whatever live version with a finalizer the worker can still
read, the stored object is still held (`Claims(v) => Held`). Only the worker
removes the finalizer, and does so only with a fresh copy marked for deletion,
by which time every earlier version has been delivered. So a worker that acts on
a live copy, however old, acts for an object that is held.

*ApiVersionProofs.* `TypeCorrect` (`TypeOK`) and, under `RefusesDuringImport`,
`KeepsToThePath` (`IndInv`), from which follow
`LeavesNoOrphan` (`NoOrphan`) and `Implements` (`ManagesTheApi`). `NoOrphan` is not
inductive. `IndInv` adds `PathInv` (which copy may be at which step: create steps
hold a live copy, hence of a held object; delete steps a deleted one)
and `CleanInv` (past `DeleteApi` nothing exists and nothing is being imported;
nothing can come back because only `StartImport` begins an import, and there is one
worker). The run ApiVersionSafety checks the same `IndInv`. `FailedMeansError` proves
that the branch of `createUpdateApimApi` which handles a failed operation
(lines 154-162) cannot be reached.

*ApiVersionPromises* needs no assumption about Azure: both theorems rest on `StepInv`, the part of
`IndInv` that holds whatever Azure refuses. `Lives` (`LivesAsPromised`): most steps leave the object alone
(`QuietKeeps`), and a write that takes effect replaces the very object that was read (`Submitted`), so
what it changes is what the step means to change: the finalizer, or the status of a live object.
`PolicyIsApplied` (`RecordedPolicyIsApplied`) strengthens it by `PolicyInv`: between the
PUT of a policy and its record, that policy or none is in force.

*ApiVersionImports* proves what the token of an import may be used for. `ShaIsImported`
(`RecordedShaIsImported`): a document whose digest is newly recorded in the status is the one Azure serves. Its
one hypothesis is `~EditsWhileTracked`: between the recording of a token and the report of its end nobody
edits the object or republishes the linked document, which is what the run ApiVersionStaleToken shows to be
needed. Taking an edit back, rejected imports, 202 answers, links that do not answer or answer with an error page, and
an Azure that deletes what it is importing are all allowed. The theorem speaks of the digests of documents: what
the code records may also be the digest of an error page (section 5), of which nothing is claimed but that
it is not the digest of a document. The property speaks of two states and
`StepInv` does not know what an import is of, so it needs an invariant of its own, `ImportInv`
(`ImportsMatch`): while a token is recorded, or the worker's copy is the current one, every version of the object that is around, in the server, on its way,
in the cache or in the worker's hands, has the content stored (`SameContent`), and what that token or any
running import brings is this content (`Brings`); and what the worker is about to record matches what it was
told by Azure. A token's import may end at any moment, also before its token is recorded, which is why `Brings` speaks of
the running import and the ended one together. The lemmas go by who may disturb it: users
(`UserLeaves`, `RepublishLeaves`), Azure (`AzureBrings`), the three calls of an import (`StartBrings`,
`ResumeBrings`, `PollBrings`) and the writes (`SaveBrings`). The run ApiVersionLive checks `ImportInv`.

*ApiProofs.* `KeepsToThePath` (`IndInv`) and `Implements` (`ManagesTheVersionSet`) by the same
argument, without an assumption about Azure: version sets are created at once.

*ApiPromises* is about the second cache. `OwnedInv` (`CachesAreOfTheSame`) has three parts, all inductive
on top of `IndInv`. `OwnedTracks`: the last event of a version under way is of the version stored, and the cache
has that version when none is under way, so that the server accepts an update only from a cache that
is up to date for this name, however late it is for others. `SameApi`: a version of the Api
that can be created for has the `uid` of the Api in the cluster; when an Api is let go nothing
of it is under way any more that is live, and one created later has no finalizer yet. `SetIsKnown`: the
identifier of the version set is in the status before the first version is created from it. From them
`KeepsToUsersPart` (`UsesVersions`) and `VersionsBornToHeldApi` (`BornToHeldApi`): a version is created for the Api
that is in the cluster at that moment, held, and never in the name of one that is gone; and it is created in that
Api's version set, which matters because no later Reconcile would correct it. That Api may
have been marked for deletion since it was read, which is why `NothingRemains` still needs the garbage collector.

*BackendProofs.* `KeepsToThePath` (`StepInv`) and `ReleasesWhenAbsent`
(`ReleasedOnlyWhenAbsent`): there is no `NoOrphan` to prove, since BackendOrphan refutes it.
What holds is that the backend is absent at the moment the object is let go, and
`OrphansOnlyMarked` (`OnlyMarkedAreOrphaned`) says how the orphan comes about: only a Reconcile whose copy is
marked for deletion creates a backend that nothing holds. Looking at the deletion timestamp
before creating anything would close that way.

`RefusesDuringImport` is a hypothesis about Azure: it does not delete an API it is
importing. It is not promised by anything in the repository. Without it an import
that was started before the deletion finishes afterwards and leaves an API
behind an object that is gone; the controller does not wait for a tracked import
before deleting. That Azure refuses a second PUT while an import runs is assumed by the model itself
(`StartImport`), and nothing in the repository promises it either.

Only model-checked: all liveness properties (the prover handles no fairness), among them
`ProgressesAsPromised`, `NothingRemains` and `DeletionFollows`. Every invariant and every action property that a
passing run checks is a theorem.

## 5. Behaviour worth knowing that no run is about

* An API that was removed in Azure is imported again, since `GetApi` answers 404. If that import is
  still running when it is first polled its token is recorded, and once it has ended
  nothing looks at the token any more: the API is found, its digest is the recorded one, and
  the status stays "Provisioning" (`apiversion_controller.go:101`). The next edit then resumes the old
  token, and goes the way of ApiVersionStaleToken.
* A linked document that is republished between the PUT and the digest that is recorded goes the way of
  ApiVersionStaleToken as well (`apiversion_controller.go:176`). Part of ApiVersionSafety (`Republish`).
* When the server of a link does not answer, the error returned is that of `GetApi`,
  nil if the API was found: the requeue ends, and only an event or the ten-hour resync resumes it
  (`apiversion_controller.go:99`). Part of ApiVersionSafety (`DigestFails`).
* When the server of a link answers with an HTTP error status (404, 503) its error page is digested like a document,
  for the status is never looked at (`sha.go:12-22`). Read before the comparison, it makes an unchanged document be imported
  again; read when an import has ended, its digest is recorded as that of the last applied spec, and the next
  Reconcile that reads the document imports it once more. If the same page comes back at both places
  a change of the document goes unnoticed until the link answers again. Part of ApiVersionSafety and ApiVersionLive (`ErrorPages`).
* Which version set an ApiVersion refers to is written when it is created and never compared afterwards: a user's
  edit of `apiVersionSetId` stays until something else of the version differs from what the Api says
  (`api_controller.go:268`, `apiversion_types.go:132-150`). Part of ApiOneVersion, where users edit it (`set`); `Converges`
  claims everything else of a version and leaves this out, and `BornToHeldApi` claims it of the creation.
* A Backend whose backend is missing in Azure, once deleted, has its backend created again and then
  waits for the resync: the creation returns an empty Result and the status update changes nothing
  (`backend_controller.go:102`). The same line leaves a second removal of a backend unnoticed until the
  resync. In the run Backend the resync makes up for both.
* The identifier of a created backend is never recorded if the first status update fails
  (`backend_controller.go:99`).
* Only content and policy of an ApiVersion, and only the URL of a Backend, are compared;
  an edit of another field does not reach Azure until one of these changes. The same goes for the display
  name and scheme of a version set that exists.
* A version taken out of an Api's list is not deleted and keeps its entry in `versionStates`.
* A version created just before its Api is deleted may be missing from the cache's list;
  Api and version set then go first (`api_controller.go:231`), and the garbage collector
  deletes the version.

## 6. Not modelled

Wording of logs and conditions; flags, TLS, metrics and probes of the manager; the deployment
manifests; generated code; the conversions to SDK types other than `AzureApiType` (total maps without
state). Two processes at once: the election flag is off by default (`cmd/main.go:66`), the shipped deployment sets it
(`config/manager/manager.yaml:64`), and election itself is controller-runtime's; the model has one process at a time. Users who remove
the operator's finalizer by hand, and deletion of an Api with foreground propagation. Lists that name a
version twice. Policies behind links (policies are inline). SHA-256 is taken to be injective. The
identifier of a version set is one value: in the Api's status it is recorded (`set`) or not, in a version it
is that value or something else.

## 7. What is left

1. That what is taken over in `report` was once a status of the version, which needs a variable for
   the statuses a version has had.
2. Foreground deletion of an Api, and lists that name a version twice.
3. The Backend reconciler with its branches in the order the deletion needs, as a second
   specification that implements ManagedResource, if the code is changed that way.
