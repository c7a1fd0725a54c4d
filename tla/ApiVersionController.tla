------------------------ MODULE ApiVersionController ------------------------
(***************************************************************************)
(* ApiVersionReconciler (src/internal/controller/apiversion_controller.go) *)
(* for one ApiVersion, with the Azure API it manages.  Each call Reconcile *)
(* makes to the API server or to Azure is one action, so that users, the   *)
(* informer, Azure and crashes may come between any two of them.           *)
(*                                                                         *)
(* Importing a document is a long-running operation: the PUT starts it,    *)
(* its token is kept in the object's status, and later reconciles resume   *)
(* it.  SHA-256 is taken to be injective: the digest of a document, or of  *)
(* an error page, is the document or the page; None stands for the empty   *)
(* string.                                                                 *)
(***************************************************************************)
EXTENDS Apim, LongRunning

CONSTANTS
  Documents,       \* API documents, as inline content or behind a link
  Links,           \* contents that are URLs of a document
  ErrorPages,      \* what a link's server may answer instead (404, 503, ...)
  Policies,        \* policy contents, with None where a user may leave it out
  Choices,         \* the specs users write
  Tokens,          \* names of long-running operations
  InProgressCodes, \* HTTP codes Azure answers while an import is running
  EditsWhileTracked,   \* users edit while a resume token is recorded
  Reverts,             \* users go back to what status says is applied
  FetchesFail,         \* a link's server cannot always be reached
  ImportsMayFail,      \* Azure may reject a document after accepting the PUT
  RefusesDuringImport  \* Azure never deletes an API it is importing

(* apiType: whether the optional field is there.                           *)
Specs ==
  [content : Documents \cup Links, policy : Policies, apiType : BOOLEAN]

ASSUME ChoicesAreSpecs == Choices \subseteq Specs

States == {"", "Provisioning", "Succeeded"}

Statuses ==
  [prov : States, token : Tokens \cup {None},
   sha : Documents \cup ErrorPages \cup {None}, psha : Policies \cup {None}]

Objects == Object(Specs, Statuses)

NoStatus == [prov |-> "", token |-> None, sha |-> None, psha |-> None]

Apis == [doc : Documents, policy : Policies \cup {None}]

Requests == [content : Documents \cup Links, token : Tokens]

ASSUME NoneIsNoValue ==
  None \notin Objects \cup Object(Specs, States) \cup Apis \cup Requests
                \cup Tokens \cup Documents \cup ErrorPages

ASSUME PagesAreNoDocuments == ErrorPages \cap Documents = {}

ASSUME CodesOfRunning == InProgressCodes \subseteq {200, 202}

VARIABLES
  api,      \* the API in Azure: what was imported and its policy, or None
  request,  \* the import Azure is working on, or None
  outcome,  \* how the finished import of a token ended
  served,   \* the document behind each link
  op        \* the poller of the running Reconcile, named by its token

azure == <<api, request, outcome, served>>
vars  == <<cluster, azure, op>>

Steps == {"idle", "addFinalizer", "getApi", "begin", "poll", "saveInProgress",
          "saveSucceeded", "getPolicy", "putPolicy", "savePolicy",
          "deleteApi", "deletePolicy", "removeFinalizer"}

AzureTypeOK ==
  /\ api \in Apis \cup {None}
  /\ request \in Requests \cup {None}
  /\ outcome \in [Tokens -> {"succeeded", "failed"}]
  /\ served \in [Links -> Documents]
  /\ op \in Tokens \cup {None}

TypeOK == ClusterTypeOK(Objects, Steps) /\ AzureTypeOK

Init ==
  /\ ClusterInit
  /\ api = None /\ request = None
  /\ outcome = [t \in Tokens |-> "succeeded"]
  /\ served \in [Links -> Documents]
  /\ op = None

-----------------------------------------------------------------------------
(* Users                                                                   *)

(* Mutant: a link is digested as text.                                     *)
DigestOfText(content) == content

(* utils.Sha256FromContent: a link stands for the document behind it now.  *)
Digest(content) == IF content \in Links THEN served[content] ELSE content

(* Asking in other words, or again, for what the status records as         *)
(* applied.                                                                *)
IsRevert(spec) ==
  \/ spec.content # obj.spec.content /\ Digest(spec.content) = obj.status.sha
  \/ spec.policy # obj.spec.policy /\ spec.policy = obj.status.psha

User ==
  /\ \/ \E spec \in Choices : UserCreates(spec, NoStatus)
     \/ /\ obj # None
        /\ EditsWhileTracked \/ obj.status.token = None
        /\ \E spec \in Choices :
             (Reverts \/ ~IsRevert(spec)) /\ UserEdits(spec)
     \/ UserDeletes
  /\ UNCHANGED <<azure, op>>

(* An import is under way, or is not recorded yet.                         *)
Importing ==
  \/ request # None \/ op # None \/ pc = "saveSucceeded"
  \/ obj # None /\ obj.status.token # None

(* The owner of a linked document publishes another one.                   *)
Republish ==
  /\ edits < MaxEdits
  /\ edits' = edits + 1
  /\ EditsWhileTracked \/ ~Importing
  /\ \E l \in Links, d \in Documents :
       /\ d # served[l]
       /\ obj # None /\ ~Reverts => d # obj.status.sha
       /\ served' = [served EXCEPT ![l] = d]
  /\ UNCHANGED <<server, cached, queue, configured, worker, faults,
                 api, request, outcome, op>>

-----------------------------------------------------------------------------
(* Azure                                                                   *)

Imported(r) ==
  [doc |-> Digest(r.content),
   policy |-> IF api = None THEN None ELSE api.policy]

ImportSucceeds ==
  /\ request # None
  /\ api' = Imported(request)
  /\ outcome' = [outcome EXCEPT ![request.token] = "succeeded"]
  /\ request' = None
  /\ UNCHANGED <<cluster, served, op>>

ImportFails ==
  /\ ImportsMayFail
  /\ request # None
  /\ outcome' = [outcome EXCEPT ![request.token] = "failed"]
  /\ request' = None
  /\ UNCHANGED <<cluster, api, served, op>>

(* Somebody removes the API, or its policy, behind the operator's back.    *)
Drift ==
  /\ Fault
  /\ api # None
  /\ \/ api' = None
     \/ api.policy # None /\ api' = [api EXCEPT !.policy = None]
  /\ UNCHANGED <<server, cached, queue, configured, worker, edits,
                 request, outcome, served, op>>

-----------------------------------------------------------------------------
(* Reconcile, up to the branch on the deletion timestamp.                  *)

Get == Fetch("getApi") /\ UNCHANGED <<azure, op>>

AddFinalizer == Finalize("getApi") /\ UNCHANGED <<azure, op>>

(* The document behind a link is not what comes back from its server.      *)
LinkFails == copy.spec.content \in Links /\ Fault

(* Only a server that does not answer makes Sha256FromContent fail: the    *)
(* HTTP status is not looked at, and an error page is digested like a      *)
(* document.                                                               *)
DigestFails == FetchesFail /\ LinkFails

ImportNeeded(err, sha) == copy.status.sha # sha \/ IsNotFoundError(err)

Compare(err, sha) ==
  Goto(IF ImportNeeded(err, sha) THEN "begin" ELSE "getPolicy")

(* A failed GetApi matters only to a live object.  When the digest fails   *)
(* Reconcile returns the error of GetApi, not that of the digest: with the *)
(* API found that is no error.                                             *)
GetApi ==
  /\ pc = "getApi"
  /\ \/ NewAPIMClientFails /\ Retry
     \/ \E err \in Errors :
          /\ Read(api # None, err)
          /\ \/ copy.del /\ Goto("deleteApi")
             \/ ~copy.del /\ IgnoreNotFound(err) # "none" /\ Retry
             \/ /\ ~copy.del /\ IgnoreNotFound(err) = "none"
                /\ Compare(err, Digest(copy.spec.content))
     \/ ~copy.del /\ DigestFails /\ Return(api = None)
     \/ /\ ~copy.del /\ LinkFails
        /\ \E page \in ErrorPages : Compare(Answer(api # None), page)
  /\ UNCHANGED <<server, azure, op>>

-----------------------------------------------------------------------------
(* createUpdateApimApi                                                     *)

Versions == {obj, cached, copy} \cup {watch[i] : i \in DOMAIN watch}

UnusedTokens == Tokens \ {o.status.token : o \in Versions \ {None}}

(* Without an API type apiVersionToUpdateParameter dereferences nil; the   *)
(* panic is recovered as an error.                                         *)
BeginPanics ==
  /\ pc = "begin" /\ ~copy.spec.apiType
  /\ Retry
  /\ UNCHANGED <<server, azure, op, faults>>

ResumeImport ==
  /\ pc = "begin" /\ copy.spec.apiType
  /\ copy.status.token # None
  /\ op' = copy.status.token
  /\ Goto("poll")
  /\ UNCHANGED <<server, azure, faults>>

(* The PUT.  Assumed of Azure: it works on one import of an API at a time, *)
(* and refuses another until that has ended.                               *)
StartImport ==
  /\ pc = "begin" /\ copy.spec.apiType
  /\ copy.status.token = None
  /\ \E err \in Errors, done \in BOOLEAN, t \in UnusedTokens :
       /\ Call(TRUE, request # None, done, err)
       /\ request' = IF done THEN [content |-> copy.spec.content, token |-> t]
                     ELSE request
       /\ \/ err = "none" /\ op' = t /\ Goto("poll")
          \/ err # "none" /\ UNCHANGED op /\ Retry
  /\ UNCHANGED <<server, api, outcome, served>>

PollAnswers ==
  IF request # None /\ request.token = op
  THEN {StillRunning(c) : c \in InProgressCodes}
  ELSE {Finished(outcome[op] = "failed")}

Poll ==
  /\ pc = "poll"
  /\ \E answer \in PollAnswers \cup {PollFails} :
       LET result == StartResumeOperation(answer) IN
       /\ IF answer.pollErr THEN Fault ELSE UNCHANGED faults
       /\ \/ result.err /\ Retry /\ op' = None
          \/ /\ ~result.err /\ result.status = "InProgress"
             /\ Goto("saveInProgress") /\ UNCHANGED op
          \/ /\ ~result.err /\ result.status = "Succeeded"
             /\ Goto("saveSucceeded") /\ op' = None
  /\ UNCHANGED <<server, azure>>

SaveInProgress ==
  /\ pc = "saveInProgress"
  /\ \E ok \in BOOLEAN :
       SubmitStatus([copy.status EXCEPT !.prov = "Provisioning",
                                        !.token = op], ok)
  /\ Retry
  /\ op' = None
  /\ UNCHANGED azure

AppliedStatus(sha) ==
  [copy.status EXCEPT !.prov = "Succeeded", !.token = None, !.sha = sha]

(* The digest is taken again; an error of it is overwritten by the result  *)
(* of the status update, and the empty string recorded.  Either way        *)
(* Reconcile comes back.  The digest of an error page is recorded as well. *)
SaveSucceeded ==
  /\ pc = "saveSucceeded"
  /\ \/ \E ok \in BOOLEAN :
          SubmitStatus(AppliedStatus(Digest(copy.spec.content)), ok)
     \/ DigestFails /\ SubmitStatus(AppliedStatus(None), FALSE)
     \/ /\ LinkFails
        /\ \E page \in ErrorPages : SubmitStatus(AppliedStatus(page), FALSE)
  /\ Retry
  /\ UNCHANGED <<azure, op>>

-----------------------------------------------------------------------------
(* The policy, once the document is up to date.                            *)

(* Mutant: whether the policy is still there is not looked at.             *)
PolicyChanged(err) ==
  copy.spec.policy # None /\ copy.status.psha # copy.spec.policy

PolicyNeeded(err) ==
  \/ copy.spec.policy # None /\ copy.status.psha # copy.spec.policy
  \/ IsNotFoundError(err)

InForce == IF api = None THEN None ELSE api.policy

WithPolicy(policy) ==
  IF api = None THEN None ELSE [api EXCEPT !.policy = policy]

(* Without a policy in the spec the handler dereferences nil; the panic is *)
(* recovered as an error.                                                  *)
GetPolicy ==
  /\ pc = "getPolicy"
  /\ \E err \in Errors :
       /\ Read(InForce # None, err)
       /\ IF copy.spec.policy # None /\ PolicyNeeded(err)
          THEN Goto("putPolicy")
          ELSE Retry
  /\ UNCHANGED <<server, azure, op>>

(* Mutant: the error of the PUT is dropped.                                *)
PutPolicyUnchecked ==
  /\ pc = "putPolicy"
  /\ \E err \in Errors, done \in BOOLEAN :
       /\ Call(api # None, FALSE, done, err)
       /\ api' = IF done THEN WithPolicy(copy.spec.policy) ELSE api
       /\ Goto("savePolicy")
  /\ UNCHANGED <<server, request, outcome, served, op>>

PutPolicy ==
  /\ pc = "putPolicy"
  /\ \E err \in Errors, done \in BOOLEAN :
       /\ Call(api # None, FALSE, done, err)
       /\ api' = IF done THEN WithPolicy(copy.spec.policy) ELSE api
       /\ IF err = "none" THEN Goto("savePolicy") ELSE Retry
  /\ UNCHANGED <<server, request, outcome, served, op>>

SavePolicy ==
  /\ pc = "savePolicy"
  /\ \E ok \in BOOLEAN :
       SubmitStatus([copy.status EXCEPT !.psha = copy.spec.policy], ok)
  /\ Retry
  /\ UNCHANGED <<azure, op>>

-----------------------------------------------------------------------------
(* deleteApiVersion: 404 counts as deleted.                                *)

(* Azure may refuse to delete an API while it imports a document into it.  *)
DeleteApi ==
  /\ pc = "deleteApi"
  /\ \E err \in Errors, done, refused \in BOOLEAN :
       /\ refused => request # None
       /\ RefusesDuringImport /\ request # None => refused
       /\ Call(api # None, refused, done, err)
       /\ api' = IF done THEN None ELSE api
       /\ IF IgnoreNotFound(err) = "none" THEN Goto("deletePolicy") ELSE Retry
  /\ UNCHANGED <<server, request, outcome, served, op>>

DeletePolicy ==
  /\ pc = "deletePolicy"
  /\ \E err \in Errors, done \in BOOLEAN :
       /\ Call(InForce # None, FALSE, done, err)
       /\ api' = IF done THEN WithPolicy(None) ELSE api
       /\ IF IgnoreNotFound(err) = "none" THEN Goto("removeFinalizer")
          ELSE Retry
  /\ UNCHANGED <<server, request, outcome, served, op>>

RemoveFinalizer == LetGo /\ UNCHANGED <<azure, op>>

-----------------------------------------------------------------------------
Reconcile ==
  \/ Get \/ AddFinalizer \/ GetApi
  \/ BeginPanics \/ ResumeImport \/ StartImport
  \/ Poll \/ SaveInProgress \/ SaveSucceeded
  \/ GetPolicy \/ PutPolicy \/ SavePolicy
  \/ DeleteApi \/ DeletePolicy \/ RemoveFinalizer

Informer == Deliver /\ UNCHANGED <<azure, op>>
Delayed  == TimerFires /\ UNCHANGED <<azure, op>>
Resynced == Resync /\ UNCHANGED <<azure, op>>
Crash    == Restart /\ op' = None /\ UNCHANGED azure

ImportEnds == ImportSucceeds \/ ImportFails

Next ==
  \/ User \/ Republish
  \/ ImportEnds \/ Drift
  \/ Informer \/ Delayed \/ Resynced \/ Crash
  \/ Reconcile

(* The manager's goroutines keep running, pending timers fire, and Azure   *)
(* finishes what it accepted.  Users, faults and the ten-hour resync are   *)
(* promised by nobody.                                                     *)
Fairness ==
  /\ WF_vars(Reconcile)
  /\ WF_vars(Informer)
  /\ WF_vars(Delayed)
  /\ WF_vars(ImportEnds)

Spec == Init /\ [][Next]_vars /\ Fairness

-----------------------------------------------------------------------------
(* Properties                                                              *)

(* The finalizer does its job (apiversion_controller.go:67-73, 244-264):   *)
(* nothing of this ApiVersion exists in Azure, or is being imported there, *)
(* unless the object is still held in the cluster.                         *)
NoOrphan == api # None \/ request # None => Held

(* "LastAppliedSpecSha - The sha256 of the last applied spec."             *)
(* (apiversion_types.go:99): when the digest of a document is recorded in  *)
(* the status, that document is the one the API serves.  (What is recorded *)
(* may also be the digest of an error page, or the empty string.  Neither  *)
(* is the digest of a document: the next Reconcile that reads the document *)
(* imports it again.)                                                      *)
RecordsSha ==
  /\ obj # None /\ obj' # None
  /\ obj'.status.sha \in Documents \ {obj.status.sha}

RecordedShaIsImported ==
  [][RecordsSha /\ api' # None => api'.doc = obj'.status.sha]_vars

(* "LastAppliedPolicySha - The sha256 of the last applied policy."         *)
(* (apiversion_types.go:102): a policy newly recorded in the status is the *)
(* one in force in Azure, unless somebody removed it meanwhile.            *)
RecordsPolicy ==
  /\ obj # None /\ obj' # None
  /\ obj'.status.psha # obj.status.psha

RecordedPolicyIsApplied ==
  [][RecordsPolicy => InForce' \in {None, obj'.status.psha}]_vars

(* A deletion is carried through (apiversion_controller.go:89-91): an      *)
(* object marked for deletion goes away, unless the process has no Azure   *)
(* settings.                                                               *)
DeletionCompletes ==
  (obj # None /\ obj.del) ~> (obj = None \/ ~configured)

(* "... move the current state of the cluster closer to the desired state" *)
(* (apiversion_controller.go:48-49): when users and faults stop, Azure     *)
(* ends up serving what the spec asks for.                                 *)
Settled == <>[](Live /\ configured)

Applied ==
  /\ obj # None /\ api # None
  /\ api.doc = Digest(obj.spec.content)
  /\ obj.status.sha = api.doc
  /\ api.policy = obj.spec.policy

Converges == Settled => <>[]Applied

(* "ProvisioningState ... Possible values are: Creating, Succeeded,        *)
(* Failed, ..." (apiversion_types.go:93): however the import whose token   *)
(* is recorded ended, that is reported and the token given up.             *)
TrackedImportEnded ==
  /\ Live /\ configured /\ obj.status.token # None
  /\ request = None

ImportEndIsReported == TrackedImportEnded ~> ~TrackedImportEnded

(* What this controller promises of the API, abstractly.                   *)
Managed ==
  INSTANCE ManagedResource WITH held <- Held,
                                azure <- (api # None \/ request # None)

ManagesTheApi == Managed!Spec

(* What the Api reconciler counts on when it reads an ApiVersion           *)
(* (api_controller.go:195-223, 231-243): between what users do, the object *)
(* lives as VersionLife says.                                              *)
Life ==
  INSTANCE VersionLife WITH
    version <- IF obj = None THEN None
               ELSE [obj EXCEPT !.status = obj.status.prov],
    userOps <- edits

LivesAsPromised == Life!Spec

(* ... and, once it has its settings, this reconciler brings it on         *)
(* (apiversion_controller.go:67-73, 244-264) and comes to rest: it is not  *)
(* stuck before the finalizer is on or before the object is let go, and    *)
(* does not import again and again.                                        *)
ProgressesAsPromised == <>[]configured => Life!Fairness

-----------------------------------------------------------------------------
(* Why NoOrphan holds: an inductive invariant                              *)

CreateSteps == {"begin", "poll", "saveInProgress", "saveSucceeded",
                "getPolicy", "putPolicy", "savePolicy"}
DeleteSteps == {"deleteApi", "deletePolicy", "removeFinalizer"}

(* Reconcile creates only for a live version that has the finalizer, and   *)
(* such a version is held; it deletes only for one that is being deleted.  *)
PathInv ==
  /\ pc = "addFinalizer" => ~copy.fin
  /\ pc \notin {"idle", "addFinalizer"} => copy.fin
  /\ pc \in CreateSteps => ~copy.del
  /\ pc \in DeleteSteps => copy.del
  /\ pc \in CreateSteps \cup {"getApi"} /\ ~copy.del => Held

(* Once the delete has gone through nothing comes back.                    *)
CleanInv ==
  pc \in {"deletePolicy", "removeFinalizer"} => api = None /\ request = None

StepInv == TypeOK /\ ClusterInv /\ PathInv

(* However stale the cache is, whoever edits and whatever fails: the       *)
(* worker's knowledge of the object, the step it is at and what exists in  *)
(* Azure fit together so that releasing the object leaves nothing behind.  *)
IndInv == StepInv /\ CleanInv /\ NoOrphan

-----------------------------------------------------------------------------
(* Why RecordedShaIsImported holds while nobody edits during an import: an *)
(* invariant that is inductive together with StepInv                       *)

Tracked == obj # None /\ obj.status.token # None

Ended(token) ==
  ~(request # None /\ request.token = token) /\ outcome[token] = "succeeded"

Serves(content) == api = None \/ api.doc = Digest(content)

(* The import behind a token is one of the content, and so is any import   *)
(* that Azure is still to finish.                                          *)
Brings(token, content) ==
  /\ request # None => request.content = content
  /\ Ended(token) => Serves(content)

SameContent ==
  /\ obj # None
  /\ \A v \in Seen \cup {copy} : v # None => v.spec.content = obj.spec.content

(* The token of an import is used only together with the content it was    *)
(* imported for (apiversion_controller.go:126-183), by whichever Reconcile,*)
(* of this process or of one before it, resumes or reports it.             *)
ImportInv ==
  /\ fresh \/ Tracked => SameContent
  /\ Tracked => Brings(obj.status.token, obj.spec.content)
  /\ pc \in {"poll", "saveInProgress"} =>
       op # None /\ (fresh => Brings(op, copy.spec.content))
  /\ fresh /\ pc = "saveSucceeded" =>
       /\ request # None => request.content = copy.spec.content
       /\ Serves(copy.spec.content)
=============================================================================
