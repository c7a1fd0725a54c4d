------------------------------ MODULE Cluster ------------------------------
(***************************************************************************)
(* What controller-runtime and the Kubernetes API server give a reconciler *)
(* of this operator, for ONE custom resource:                              *)
(*                                                                         *)
(*   users --> obj --watch--> cached --Get--> copy (the running Reconcile) *)
(*              ^                                |                         *)
(*              +-------- Update, Status().Update+                         *)
(*                                                                         *)
(* The API server stores one version of the object; the manager's informer *)
(* receives its versions one by one; a work queue with one worker          *)
(* (MaxConcurrentReconciles = 1) starts a Reconcile that reads the cache.  *)
(* Writes are guarded by the resource version of the copy.  None of this   *)
(* is code of the repository: it is modelled from how src/ uses it.        *)
(* A component EXTENDS this module, adds its steps between "idle" and      *)
(* "idle", and its own view of Azure.                                      *)
(***************************************************************************)
EXTENDS Naturals, Sequences

CONSTANTS
  None,       \* the absent object, token, digest or policy
  MaxEdits,   \* bound: how many times users create, edit or delete
  MaxFaults   \* bound: failed calls, lost answers, drift and restarts

ASSUME BudgetsAreNaturals == MaxEdits \in Nat /\ MaxFaults \in Nat

VARIABLES
  obj,        \* the object stored by the API server, or None
  watch,      \* versions of it not yet delivered to the informer, in order
  cached,     \* the version in the informer's cache
  queued,     \* its key is in the work queue
  timer,      \* a delayed add of its key is pending (RequeueAfter, back-off)
  configured, \* this process found its Azure settings in the environment
  pc,         \* the next call of the running Reconcile, "idle" between two
  copy,       \* the object the running Reconcile holds
  fresh,      \* copy carries the server's current resource version
  edits,      \* user operations done so far
  faults      \* faults met so far

server  == <<obj, watch>>
queue   == <<queued, timer>>
worker  == <<pc, copy, fresh>>
cluster == <<obj, watch, cached, queued, timer, configured, pc, copy, fresh,
             edits, faults>>

(* An object: its spec and status, whether it carries the operator's       *)
(* finalizer, and whether its deletion timestamp is set.                   *)
Object(Specs, Statuses) ==
  [spec : Specs, status : Statuses, fin : BOOLEAN, del : BOOLEAN]

ClusterTypeOK(Objects, Steps) ==
  /\ obj \in Objects \cup {None}
  /\ watch \in Seq(Objects \cup {None})
  /\ cached \in Objects \cup {None}
  /\ copy \in Objects \cup {None}
  /\ pc \in Steps
  /\ queued \in BOOLEAN /\ timer \in BOOLEAN
  /\ configured \in BOOLEAN /\ fresh \in BOOLEAN
  /\ edits \in 0 .. MaxEdits
  /\ faults \in 0 .. MaxFaults

Settings == {"STILAS_AZ_SUBSCRIPTION_ID", "STILAS_AZ_RESOURCE_GROUP",
             "STILAS_AZ_APIM_NAME"}

(* getConfigFromEnv finds every setting in the environment of the process. *)
ConfigFromEnv(given) == Settings \subseteq given

Configurations == {ConfigFromEnv(given) : given \in SUBSET Settings}

(* A process that has just started, before any object exists.              *)
ClusterInit ==
  /\ obj = None /\ watch = <<>> /\ cached = None
  /\ queued = FALSE /\ timer = FALSE
  /\ configured \in Configurations
  /\ pc = "idle" /\ copy = None /\ fresh = FALSE
  /\ edits = 0 /\ faults = 0

(* The object is in the cluster and blocked from disappearing.             *)
Held == obj # None /\ obj.fin
Live == obj # None /\ ~obj.del

-----------------------------------------------------------------------------
(* The API server.  A write that changes nothing makes no new version.     *)

Put(new) ==
  /\ obj' = new
  /\ watch' = IF new = obj THEN watch ELSE Append(watch, new)

UserWrites(new) ==
  /\ edits < MaxEdits
  /\ edits' = edits + 1
  /\ new # obj
  /\ Put(new)
  /\ fresh' = FALSE
  /\ UNCHANGED <<cached, queue, configured, pc, copy, faults>>

UserCreates(spec, status) ==
  /\ obj = None
  /\ UserWrites([spec |-> spec, status |-> status, fin |-> FALSE, del |-> FALSE])

UserEdits(spec) ==
  /\ obj # None
  /\ UserWrites([obj EXCEPT !.spec = spec])

UserDeletes ==
  /\ Live
  /\ UserWrites(IF obj.fin THEN [obj EXCEPT !.del = TRUE] ELSE None)

-----------------------------------------------------------------------------
(* The informer and the work queue.  An add of a key that a worker is      *)
(* processing is kept and served when that worker is done.                 *)

Deliver ==
  /\ watch # <<>>
  /\ cached' = Head(watch)
  /\ watch' = Tail(watch)
  /\ queued' = TRUE
  /\ UNCHANGED <<obj, timer, configured, worker, edits, faults>>

TimerFires ==
  /\ timer
  /\ timer' = FALSE
  /\ queued' = TRUE
  /\ UNCHANGED <<server, cached, configured, worker, edits, faults>>

(* The informer's periodic resync (every ten hours) adds every known key.  *)
Resync ==
  /\ cached # None
  /\ ~queued
  /\ queued' = TRUE
  /\ UNCHANGED <<server, cached, timer, configured, worker, edits, faults>>

Fault == faults < MaxFaults /\ faults' = faults + 1

(* The process dies between two calls; its successor lists every object.   *)
Restart ==
  /\ Fault
  /\ cached' = obj
  /\ watch' = <<>>
  /\ queued' = (obj # None)
  /\ timer' = FALSE
  /\ configured' \in Configurations
  /\ pc' = "idle" /\ copy' = None /\ fresh' = FALSE
  /\ UNCHANGED <<obj, edits>>

-----------------------------------------------------------------------------
(* What the steps of a Reconcile are made of.                              *)

Start(step) ==
  /\ queued' = FALSE
  /\ pc' = step /\ copy' = cached /\ fresh' = (watch = <<>>)
  /\ UNCHANGED <<server, cached, timer, configured, edits, faults>>

(* A Reconcile that has nothing to do.                                     *)
Skip ==
  /\ queued' = FALSE
  /\ UNCHANGED <<server, cached, timer, configured, worker, edits, faults>>

(* The end of a Reconcile: an error or a RequeueAfter adds the key again   *)
(* later, an empty Result does not.                                        *)
Return(requeue) ==
  /\ pc' = "idle" /\ copy' = None /\ fresh' = FALSE
  /\ timer' = (timer \/ requeue)
  /\ UNCHANGED <<cached, queued, configured, edits>>

Retry == Return(TRUE)

Goto(step) ==
  /\ pc' = step
  /\ UNCHANGED <<copy, fresh, cached, queue, configured, edits>>

(* Reconcile goes on with the object its write gave back.                  *)
Proceed(step, new) ==
  /\ pc' = step /\ copy' = new
  /\ UNCHANGED <<fresh, cached, queue, configured, edits>>

(* Update and Status().Update answer "ok", refuse a copy that is not the   *)
(* current version (409, or 404 for an object that is gone), or fail on    *)
(* the way to the server or back.                                          *)
Submit(new, ok) ==
  \/ ok /\ fresh /\ Put(new) /\ UNCHANGED faults
  \/ ~ok /\ ~fresh /\ UNCHANGED <<server, faults>>
  \/ ~ok /\ Fault /\ UNCHANGED server
  \/ ~ok /\ Fault /\ fresh /\ Put(new)

SubmitStatus(status, ok) == Submit([copy EXCEPT !.status = status], ok)

(* Mutant: the finalizer is removed from something else than what is       *)
(* written.                                                                *)
StillFinalized(o) == o

(* The last finalizer of an object that is being deleted lets it go.       *)
WithoutFinalizer(o) == IF o.del THEN None ELSE [o EXCEPT !.fin = FALSE]

-----------------------------------------------------------------------------
(* What the three reconcilers do alike.                                    *)

(* Reconcile up to its first call.  Without the settings it returns an     *)
(* empty Result.                                                           *)
Fetch(step) ==
  /\ pc = "idle" /\ queued
  /\ \/ cached = None /\ Skip
     \/ cached # None /\ ~cached.fin /\ Start("addFinalizer")
     \/ cached # None /\ cached.fin /\ ~configured /\ Skip
     \/ cached # None /\ cached.fin /\ configured /\ Start(step)

(* Mutant: the return after a failed Update is missing.                    *)
FinalizeAndGoOn(step) ==
  /\ pc = "addFinalizer"
  /\ LET new == [copy EXCEPT !.fin = TRUE] IN
       /\ \E ok \in BOOLEAN : Submit(new, ok)
       /\ \/ ~configured /\ Return(FALSE)
          \/ configured /\ Proceed(step, new)

Finalize(step) ==
  /\ pc = "addFinalizer"
  /\ LET new == [copy EXCEPT !.fin = TRUE] IN
       \/ Submit(new, FALSE) /\ Retry
       \/ Submit(new, TRUE) /\ ~configured /\ Return(FALSE)
       \/ Submit(new, TRUE) /\ configured /\ Proceed(step, new)

(* Mutant: the error of the last Update is not returned.                   *)
LetGoOnce ==
  /\ pc = "removeFinalizer"
  /\ \E ok \in BOOLEAN : Submit(WithoutFinalizer(copy), ok) /\ Return(FALSE)

LetGo ==
  /\ pc = "removeFinalizer"
  /\ \E ok \in BOOLEAN : Submit(WithoutFinalizer(copy), ok) /\ Return(~ok)

-----------------------------------------------------------------------------
(* How the versions of the object that are around relate to the stored one *)
(* (the part of an inductive invariant that is the same for every          *)
(* component).                                                             *)

(* The informer has seen the current version, or it is the last to come.   *)
Tracks ==
  IF watch = <<>> THEN cached = obj ELSE watch[Len(watch)] = obj

(* Versions the controller has read or can still read from its cache.      *)
Seen == {cached} \cup {watch[i] : i \in DOMAIN watch}

(* An object is being deleted only as long as the finalizer blocks it.     *)
Blocked(v) == v # None /\ v.del => v.fin

(* A version that is live and has the finalizer is not yet let go.         *)
Claims(v) == v # None /\ v.fin /\ ~v.del

ClusterInv ==
  /\ Tracks
  /\ fresh => pc # "idle" /\ copy = obj
  /\ fresh /\ copy.del => watch = <<>>
  /\ pc = "idle" <=> copy = None
  /\ Blocked(obj) /\ Blocked(copy) /\ \A v \in Seen : Blocked(v)
  /\ \A v \in Seen : Claims(v) => Held
=============================================================================
