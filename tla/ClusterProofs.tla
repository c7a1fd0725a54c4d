--------------------------- MODULE ClusterProofs ---------------------------
(***************************************************************************)
(* Lemmas about the actions of Cluster: each keeps the types and the       *)
(* cluster's part of the inductive invariants, for any set of objects and  *)
(* any set of steps of a Reconcile.                                        *)
(***************************************************************************)
EXTENDS Cluster, TLAPS, SequenceTheorems

(* A write is the last version the informer will hear of.                  *)
LEMMA PutSeen ==
  ASSUME NEW S, watch \in Seq(S), NEW new \in S,
         Tracks, Put(new), cached' = cached
  PROVE  /\ watch' \in Seq(S) /\ obj' = new
         /\ Tracks'
         /\ Seen' \subseteq Seen \cup {new}
<1>1. CASE new = obj
  BY <1>1 DEF Put, Tracks, Seen
<1>2. CASE new # obj
  <2>1. obj' = new /\ watch' = Append(watch, new)
    BY <1>2 DEF Put
  <2>2. /\ watch' \in Seq(S) /\ watch' # <<>> /\ Len(watch') = Len(watch) + 1
        /\ \A i \in 1 .. Len(watch) : watch'[i] = watch[i]
        /\ watch'[Len(watch) + 1] = new
    BY <2>1, AppendProperties
  <2>3. /\ DOMAIN watch' = 1 .. Len(watch) + 1
        /\ DOMAIN watch = 1 .. Len(watch) /\ Len(watch) \in Nat
    BY <2>2, LenProperties
  <2>4. Seen' \subseteq Seen \cup {new}
    <3> SUFFICES ASSUME NEW i \in DOMAIN watch'
                 PROVE  watch'[i] \in Seen \cup {new}
      BY DEF Seen
    <3>1. CASE i = Len(watch) + 1
      BY <2>2, <3>1
    <3>2. CASE i \in 1 .. Len(watch)
      BY <2>2, <2>3, <3>2 DEF Seen
    <3> QED BY <2>3, <3>1, <3>2
  <2> QED BY <2>1, <2>2, <2>4 DEF Tracks
<1> QED BY <1>1, <1>2

(* A delivery moves the cache to the next version.                         *)
LEMMA DeliverSeen ==
  ASSUME NEW S, watch \in Seq(S), Tracks, Deliver
  PROVE  /\ watch' \in Seq(S) /\ cached' \in S
         /\ Tracks'
         /\ Seen' \subseteq Seen
<1>1. /\ watch # <<>> /\ cached' = Head(watch) /\ watch' = Tail(watch)
      /\ obj' = obj
  BY DEF Deliver
<1>2. /\ Head(watch) \in S /\ watch' \in Seq(S)
      /\ Len(watch') = Len(watch) - 1
      /\ \A i \in 1 .. Len(watch') : watch'[i] = watch[i + 1]
  BY <1>1, HeadTailProperties
<1>3. /\ Len(watch) \in Nat \ {0} /\ Head(watch) = watch[1]
      /\ DOMAIN watch = 1 .. Len(watch) /\ DOMAIN watch' = 1 .. Len(watch')
  BY <1>1, <1>2, EmptySeq, LenProperties
<1>4. Tracks'
  <2>1. CASE watch' = <<>>
    <3>1. Len(watch) = 1
      BY <1>2, <1>3, <2>1
    <3> QED BY <1>1, <1>3, <2>1, <3>1 DEF Tracks
  <2>2. CASE watch' # <<>>
    <3>1. Len(watch') \in 1 .. Len(watch')
      BY <1>2, <2>2, EmptySeq
    <3>2. watch'[Len(watch')] = watch[Len(watch)]
      BY <1>2, <1>3, <3>1
    <3> QED BY <1>1, <2>2, <3>2 DEF Tracks
  <2> QED BY <2>1, <2>2
<1>5. Seen' \subseteq Seen
  <2>1. cached' \in Seen
    BY <1>1, <1>3 DEF Seen
  <2>2. ASSUME NEW i \in DOMAIN watch'
        PROVE  watch'[i] \in Seen
    BY <1>2, <1>3 DEF Seen
  <2> QED BY <2>1, <2>2 DEF Seen
<1> QED BY <1>1, <1>2, <1>4, <1>5

-----------------------------------------------------------------------------
(* What every lemma below assumes of the state and shows of the next one.  *)
Good(Objects, Steps) == ClusterTypeOK(Objects, Steps) /\ ClusterInv

(* A version that may be written without letting go of the object.         *)
Keeps(new) == Blocked(new) /\ (Held => new # None /\ new.fin)

LEMMA ConfiguredOrNot == Configurations \subseteq BOOLEAN
BY DEF Configurations, ConfigFromEnv

LEMMA InitGoodCluster ==
  ASSUME NEW Objects, NEW Steps, "idle" \in Steps, ClusterInit
  PROVE  Good(Objects, Steps)
<1>1. watch \in Seq(Objects \cup {None})
  BY EmptySeq DEF ClusterInit
<1>2. /\ edits \in 0 .. MaxEdits /\ faults \in 0 .. MaxFaults
      /\ configured \in BOOLEAN
  BY BudgetsAreNaturals, ConfiguredOrNot DEF ClusterInit
<1>3. Seen = {None}
  BY DEF ClusterInit, Seen
<1>4. ClusterTypeOK(Objects, Steps)
  BY <1>1, <1>2 DEF ClusterInit, ClusterTypeOK
<1>5. ClusterInv
  BY <1>3 DEF ClusterInit, ClusterInv, Tracks, Blocked, Claims
<1> QED BY <1>4, <1>5 DEF Good

LEMMA PutKeeps ==
  ASSUME NEW Specs, NEW Statuses, NEW Steps,
         Good(Object(Specs, Statuses), Steps),
         NEW new \in Object(Specs, Statuses) \cup {None}, Keeps(new),
         Put(new), cached' = cached
  PROVE  /\ obj' = new /\ watch' \in Seq(Object(Specs, Statuses) \cup {None})
         /\ Tracks' /\ Blocked(obj)' /\ (Held => Held')
         /\ \A v \in Seen' : Blocked(v) /\ (Claims(v) => Held')
<1>1. /\ watch' \in Seq(Object(Specs, Statuses) \cup {None})
      /\ obj' = new /\ Tracks' /\ Seen' \subseteq Seen \cup {new}
  BY PutSeen DEF Good, ClusterTypeOK, ClusterInv
<1>2. Held => Held'
  BY <1>1 DEF Keeps, Held
<1>3. Claims(new) => Held'
  BY <1>1 DEF Claims, Held
<1>4. \A v \in Seen' : Blocked(v) /\ (Claims(v) => Held')
  <2>1. \A v \in Seen : Blocked(v) /\ (Claims(v) => Held)
    BY DEF Good, ClusterInv
  <2> QED BY <1>1, <1>2, <1>3, <2>1 DEF Keeps
<1> QED BY <1>1, <1>2, <1>4 DEF Keeps, Blocked

LEMMA UserWritesKeeps ==
  ASSUME NEW Specs, NEW Statuses, NEW Steps,
         Good(Object(Specs, Statuses), Steps),
         NEW new \in Object(Specs, Statuses) \cup {None}, Keeps(new),
         UserWrites(new)
  PROVE  Good(Object(Specs, Statuses), Steps)' /\ (Held => Held')
<1>1. Put(new) /\ cached' = cached
  BY DEF UserWrites
<1>2. /\ obj' = new /\ watch' \in Seq(Object(Specs, Statuses) \cup {None})
      /\ Tracks' /\ Blocked(obj)' /\ (Held => Held')
      /\ \A v \in Seen' : Blocked(v) /\ (Claims(v) => Held')
  BY <1>1, PutKeeps
<1>3. /\ fresh' = FALSE /\ pc' = pc /\ copy' = copy /\ queue' = queue
      /\ configured' = configured /\ faults' = faults
      /\ edits' = edits + 1 /\ edits < MaxEdits
  BY DEF UserWrites
<1>4. ClusterTypeOK(Object(Specs, Statuses), Steps)'
  <2>1. edits' \in 0 .. MaxEdits
    BY <1>3, BudgetsAreNaturals DEF Good, ClusterTypeOK
  <2>2. obj' \in Object(Specs, Statuses) \cup {None}
    BY <1>2
  <2> QED BY <1>1, <1>2, <1>3, <2>1, <2>2 DEF Good, ClusterTypeOK, queue
<1>5. ClusterInv'
  BY <1>1, <1>2, <1>3 DEF Good, ClusterInv, Blocked
<1> QED BY <1>2, <1>4, <1>5 DEF Good

LEMMA UserStepsKeep ==
  ASSUME NEW Specs, NEW Statuses, NEW Steps,
         None \notin Object(Specs, Statuses),
         Good(Object(Specs, Statuses), Steps),
         NEW spec \in Specs, NEW status \in Statuses,
         UserCreates(spec, status) \/ UserEdits(spec) \/ UserDeletes
  PROVE  Good(Object(Specs, Statuses), Steps)' /\ (Held => Held')
<1> DEFINE O == Object(Specs, Statuses)
<1>1. obj \in O \cup {None} /\ Blocked(obj)
  BY DEF Good, ClusterTypeOK, ClusterInv
<1>2. CASE UserCreates(spec, status)
  <2> DEFINE new == [spec |-> spec, status |-> status, fin |-> FALSE,
                     del |-> FALSE]
  <2>1. new \in O /\ Keeps(new)
    BY <1>2 DEF Object, UserCreates, Keeps, Blocked, Held
  <2>2. UserWrites(new)
    BY <1>2 DEF UserCreates
  <2> HIDE DEF new
  <2> QED BY <2>1, <2>2, UserWritesKeeps
<1>3. CASE UserEdits(spec)
  <2> DEFINE new == [obj EXCEPT !.spec = spec]
  <2>1. new \in O /\ Keeps(new)
    BY <1>1, <1>3 DEF Object, UserEdits, Keeps, Blocked, Held
  <2>2. UserWrites(new)
    BY <1>3 DEF UserEdits
  <2> HIDE DEF new
  <2> QED BY <2>1, <2>2, UserWritesKeeps
<1>4. CASE UserDeletes
  <2> DEFINE new == IF obj.fin THEN [obj EXCEPT !.del = TRUE] ELSE None
  <2>1. new \in O \cup {None} /\ Keeps(new)
    BY <1>1, <1>4 DEF Object, UserDeletes, Keeps, Blocked, Held, Live
  <2>2. UserWrites(new)
    BY <1>4 DEF UserDeletes
  <2> HIDE DEF new
  <2> QED BY <2>1, <2>2, UserWritesKeeps
<1> QED BY <1>2, <1>3, <1>4

(* The informer, the timers and a restart.                                 *)
LEMMA EnvironmentKeeps ==
  ASSUME NEW Specs, NEW Statuses, NEW Steps, "idle" \in Steps,
         Good(Object(Specs, Statuses), Steps),
         Deliver \/ TimerFires \/ Resync \/ Restart
  PROVE  Good(Object(Specs, Statuses), Steps)' /\ Held' = Held
<1> DEFINE O == Object(Specs, Statuses)
<1>1. Held' = Held
  BY DEF Deliver, TimerFires, Resync, Restart, Held, server
<1>2. CASE Deliver
  <2>1. /\ watch' \in Seq(O \cup {None}) /\ cached' \in O \cup {None}
        /\ Tracks' /\ Seen' \subseteq Seen
    BY <1>2, DeliverSeen DEF Good, ClusterTypeOK, ClusterInv
  <2>2. ClusterTypeOK(O, Steps)'
    BY <1>2, <2>1 DEF Good, ClusterTypeOK, Deliver, worker
  <2>3. ClusterInv'
    BY <1>1, <1>2, <2>1 DEF Good, ClusterInv, Deliver, worker, Blocked
  <2> QED BY <1>1, <2>2, <2>3 DEF Good
<1>3. CASE TimerFires \/ Resync
  <2>1. ClusterTypeOK(O, Steps)'
    BY <1>3 DEF Good, ClusterTypeOK, TimerFires, Resync, server, worker
  <2>2. ClusterInv'
    BY <1>1, <1>3 DEF Good, ClusterInv, TimerFires, Resync, server, worker,
                      Tracks, Seen, Blocked
  <2> QED BY <1>1, <2>1, <2>2 DEF Good
<1>4. CASE Restart
  <2>1. watch' = <<>> /\ watch' \in Seq(O \cup {None})
    BY <1>4, EmptySeq DEF Restart
  <2>2. Seen' = {obj} /\ Tracks'
    BY <1>4 DEF Restart, Seen, Tracks
  <2>3. ClusterTypeOK(O, Steps)'
    <3>1. faults' \in 0 .. MaxFaults
      BY <1>4, BudgetsAreNaturals DEF Good, ClusterTypeOK, Restart, Fault
    <3>2. queued' \in BOOLEAN
      BY <1>4 DEF Restart
    <3>3. configured' \in BOOLEAN
      BY <1>4, ConfiguredOrNot DEF Restart
    <3> QED BY <1>4, <2>1, <3>1, <3>2, <3>3 DEF Good, ClusterTypeOK, Restart
  <2>4. ClusterInv'
    BY <1>1, <1>4, <2>2 DEF Good, ClusterInv, Restart, Blocked, Claims, Held
  <2> QED BY <1>1, <2>3, <2>4 DEF Good
<1> QED BY <1>2, <1>3, <1>4

-----------------------------------------------------------------------------
(* The steps of a Reconcile.                                               *)

LEMMA FaultsBounded ==
  ASSUME faults \in 0 .. MaxFaults, faults' = faults \/ Fault
  PROVE  faults' \in 0 .. MaxFaults
BY BudgetsAreNaturals DEF Fault

LEMMA StartKeeps ==
  ASSUME NEW Specs, NEW Statuses, NEW Steps, NEW step \in Steps \ {"idle"},
         Good(Object(Specs, Statuses), Steps),
         pc = "idle", cached # None, Start(step)
  PROVE  Good(Object(Specs, Statuses), Steps)' /\ Held' = Held
<1>1. Held' = Held /\ Tracks' /\ Seen' = Seen /\ cached \in Seen
  BY DEF Good, ClusterInv, Start, server, Held, Tracks, Seen
<1>2. ClusterTypeOK(Object(Specs, Statuses), Steps)'
  <2>1. fresh' \in BOOLEAN
    BY DEF Start
  <2> QED BY <2>1 DEF Good, ClusterTypeOK, Start, server
<1>3. ClusterInv'
  BY <1>1 DEF Good, ClusterInv, Start, server, Tracks, Blocked
<1> QED BY <1>1, <1>2, <1>3 DEF Good

LEMMA SkipKeeps ==
  ASSUME NEW Specs, NEW Statuses, NEW Steps,
         Good(Object(Specs, Statuses), Steps), Skip
  PROVE  Good(Object(Specs, Statuses), Steps)' /\ Held' = Held
BY DEF Good, ClusterTypeOK, ClusterInv, Skip, server, worker, Held, Tracks,
       Seen, Blocked

(* A step of a Reconcile that leaves the API server alone.                 *)
LEMMA ReadKeeps ==
  ASSUME NEW Specs, NEW Statuses, NEW Steps, "idle" \in Steps,
         Good(Object(Specs, Statuses), Steps), pc # "idle",
         UNCHANGED server, faults' = faults \/ Fault,
         \/ \E step \in Steps \ {"idle"} : Goto(step)
         \/ \E requeue \in BOOLEAN : Return(requeue)
  PROVE  Good(Object(Specs, Statuses), Steps)' /\ Held' = Held
<1>1. faults' \in 0 .. MaxFaults
  BY FaultsBounded DEF Good, ClusterTypeOK
<1>2. /\ cached' = cached /\ obj' = obj /\ watch' = watch /\ queued' = queued
      /\ configured' = configured /\ edits' = edits
  BY DEF Goto, Return, server, queue
<1>3. Held' = Held /\ Tracks' /\ Seen' = Seen
  BY <1>2 DEF Good, ClusterInv, Held, Tracks, Seen
<1>4. CASE \E step \in Steps \ {"idle"} : Goto(step)
  <2>1. pc' \in Steps \ {"idle"} /\ copy' = copy /\ fresh' = fresh /\ timer' = timer
    BY <1>4 DEF Goto, queue
  <2>2. ClusterTypeOK(Object(Specs, Statuses), Steps)'
    BY <1>1, <1>2, <2>1 DEF Good, ClusterTypeOK
  <2>3. ClusterInv'
    BY <1>2, <1>3, <2>1 DEF Good, ClusterInv, Blocked
  <2> QED BY <1>3, <2>2, <2>3 DEF Good
<1>5. CASE \E requeue \in BOOLEAN : Return(requeue)
  <2>1. pc' = "idle" /\ copy' = None /\ fresh' = FALSE /\ timer' \in BOOLEAN
    BY <1>5 DEF Return
  <2>2. ClusterTypeOK(Object(Specs, Statuses), Steps)'
    BY <1>1, <1>2, <2>1 DEF Good, ClusterTypeOK
  <2>3. ClusterInv'
    BY <1>2, <1>3, <2>1 DEF Good, ClusterInv, Blocked
  <2> QED BY <1>3, <2>2, <2>3 DEF Good
<1> QED BY <1>4, <1>5

(* What a write, taken or not, leaves of the server.                       *)
LEMMA SubmitKeeps ==
  ASSUME NEW Specs, NEW Statuses, NEW Steps,
         Good(Object(Specs, Statuses), Steps),
         NEW new \in Object(Specs, Statuses) \cup {None},
         fresh => Keeps(new),
         NEW ok \in BOOLEAN, Submit(new, ok), cached' = cached
  PROVE  /\ obj' \in Object(Specs, Statuses) \cup {None}
         /\ watch' \in Seq(Object(Specs, Statuses) \cup {None})
         /\ faults' \in 0 .. MaxFaults
         /\ Tracks' /\ Blocked(obj)' /\ (Held => Held')
         /\ \A v \in Seen' : Blocked(v) /\ (Claims(v) => Held')
         /\ ok => fresh /\ obj' = new
<1>1. faults' \in 0 .. MaxFaults
  <2>1. faults' = faults \/ Fault
    BY DEF Submit
  <2> QED BY <2>1, FaultsBounded DEF Good, ClusterTypeOK
<1>2. CASE UNCHANGED server /\ ~ok
  BY <1>1, <1>2 DEF Good, ClusterTypeOK, ClusterInv, server, Tracks, Seen,
                    Held, Blocked
<1>3. CASE fresh /\ Put(new)
  <2>1. Keeps(new)
    BY <1>3
  <2> QED BY <1>1, <1>3, <2>1, PutKeeps
<1> QED BY <1>2, <1>3 DEF Submit

LEMMA SubmitReturnKeeps ==
  ASSUME NEW Specs, NEW Statuses, NEW Steps, "idle" \in Steps,
         Good(Object(Specs, Statuses), Steps), pc # "idle",
         NEW new \in Object(Specs, Statuses) \cup {None},
         fresh => Keeps(new),
         NEW ok \in BOOLEAN, Submit(new, ok),
         NEW requeue \in BOOLEAN, Return(requeue)
  PROVE  Good(Object(Specs, Statuses), Steps)' /\ (Held => Held')
<1>1. /\ pc' = "idle" /\ copy' = None /\ fresh' = FALSE /\ timer' \in BOOLEAN
      /\ cached' = cached /\ queued' = queued /\ configured' = configured
      /\ edits' = edits
  BY DEF Return
<1>2. /\ obj' \in Object(Specs, Statuses) \cup {None}
      /\ watch' \in Seq(Object(Specs, Statuses) \cup {None})
      /\ faults' \in 0 .. MaxFaults
      /\ Tracks' /\ Blocked(obj)' /\ (Held => Held')
      /\ \A v \in Seen' : Blocked(v) /\ (Claims(v) => Held')
  BY <1>1, SubmitKeeps
<1>3. ClusterTypeOK(Object(Specs, Statuses), Steps)'
  BY <1>1, <1>2 DEF Good, ClusterTypeOK
<1>4. ClusterInv'
  BY <1>1, <1>2 DEF ClusterInv, Blocked
<1> QED BY <1>2, <1>3, <1>4 DEF Good

LEMMA SubmitProceedKeeps ==
  ASSUME NEW Specs, NEW Statuses, NEW Steps,
         None \notin Object(Specs, Statuses),
         Good(Object(Specs, Statuses), Steps), pc # "idle",
         NEW new \in Object(Specs, Statuses), Keeps(new), ~new.del,
         Submit(new, TRUE),
         NEW step \in Steps \ {"idle"}, Proceed(step, new)
  PROVE  Good(Object(Specs, Statuses), Steps)' /\ (Held => Held') /\ obj' = new
<1>1. /\ pc' = step /\ copy' = new /\ fresh' = fresh /\ timer' = timer
      /\ cached' = cached /\ queued' = queued /\ configured' = configured
      /\ edits' = edits
  BY DEF Proceed, queue
<1>2. /\ watch' \in Seq(Object(Specs, Statuses) \cup {None})
      /\ faults' \in 0 .. MaxFaults
      /\ Tracks' /\ Blocked(obj)' /\ (Held => Held')
      /\ \A v \in Seen' : Blocked(v) /\ (Claims(v) => Held')
      /\ fresh /\ obj' = new
  BY <1>1, SubmitKeeps
<1>3. ClusterTypeOK(Object(Specs, Statuses), Steps)'
  BY <1>1, <1>2 DEF Good, ClusterTypeOK
<1>4. ClusterInv'
  BY <1>1, <1>2 DEF ClusterInv, Blocked, Keeps
<1> QED BY <1>2, <1>3, <1>4 DEF Good

(* Removing the finalizer of an object that is being deleted.              *)
LEMMA ReleaseKeeps ==
  ASSUME NEW Specs, NEW Statuses, NEW Steps, "idle" \in Steps,
         Good(Object(Specs, Statuses), Steps), pc # "idle", copy.del,
         NEW ok \in BOOLEAN, Submit(WithoutFinalizer(copy), ok),
         NEW requeue \in BOOLEAN, Return(requeue)
  PROVE  /\ Good(Object(Specs, Statuses), Steps)'
         /\ Held /\ ~Held' => obj' = None
<1>1. WithoutFinalizer(copy) = None
  BY DEF WithoutFinalizer
<1>2. CASE UNCHANGED server
  <2>1. faults' = faults \/ Fault
    BY DEF Submit
  <2> QED BY <1>2, <2>1, ReadKeeps
<1>3. CASE fresh /\ Put(None) /\ (faults' = faults \/ Fault)
  <2>1. /\ watch = <<>> /\ cached = obj /\ obj = copy /\ copy # None
        /\ Seen = {cached}
    BY <1>3 DEF Good, ClusterInv, Tracks, Seen
  <2>2. /\ pc' = "idle" /\ copy' = None /\ fresh' = FALSE
        /\ timer' \in BOOLEAN /\ cached' = cached /\ queued' = queued
        /\ configured' = configured /\ edits' = edits
    BY DEF Return
  <2>3. /\ watch' \in Seq(Object(Specs, Statuses) \cup {None})
        /\ obj' = None /\ Tracks' /\ Seen' \subseteq {cached, None}
    BY <1>3, <2>1, <2>2, PutSeen DEF Good, ClusterTypeOK, ClusterInv
  <2>4. faults' \in 0 .. MaxFaults
    BY <1>3, FaultsBounded DEF Good, ClusterTypeOK
  <2>5. ClusterTypeOK(Object(Specs, Statuses), Steps)'
    BY <2>2, <2>3, <2>4 DEF Good, ClusterTypeOK
  <2>6. \A v \in Seen' : Blocked(v) /\ ~Claims(v)
    BY <2>1, <2>3 DEF Good, ClusterInv, Blocked, Claims
  <2>7. ClusterInv'
    BY <2>2, <2>3, <2>6 DEF ClusterInv, Blocked
  <2> QED BY <2>3, <2>5, <2>7 DEF Good
<1> QED BY <1>1, <1>2, <1>3 DEF Submit

-----------------------------------------------------------------------------
(* The steps the reconcilers have in common.                               *)

(* Whatever version Reconcile starts with, if it is live and has the       *)
(* finalizer then the object is held.                                      *)
LEMMA FetchKeeps ==
  ASSUME NEW Specs, NEW Statuses, NEW Steps,
         Good(Object(Specs, Statuses), Steps),
         "addFinalizer" \in Steps, NEW step \in Steps \ {"idle"}, Fetch(step)
  PROVE  /\ Good(Object(Specs, Statuses), Steps)' /\ Held' = Held
         /\ \/ pc' = "idle"
            \/ pc' = "addFinalizer" /\ ~copy'.fin
            \/ pc' = step /\ copy'.fin /\ (~copy'.del => Held')
               /\ copy' = cached
<1>1. pc = "idle"
  BY DEF Fetch
<1>2. CASE Skip
  BY <1>1, <1>2, SkipKeeps DEF Skip, worker
<1>3. CASE cached # None /\ ~cached.fin /\ Start("addFinalizer")
  <2>1. Good(Object(Specs, Statuses), Steps)' /\ Held' = Held
    BY <1>1, <1>3, StartKeeps
  <2> QED BY <1>3, <2>1 DEF Start
<1>4. CASE cached # None /\ cached.fin /\ Start(step)
  <2>1. Good(Object(Specs, Statuses), Steps)' /\ Held' = Held
    BY <1>1, <1>4, StartKeeps
  <2>2. ~cached.del => Held
    BY <1>4 DEF Good, ClusterInv, Seen, Claims
  <2> QED BY <1>4, <2>1, <2>2 DEF Start
<1> QED BY <1>2, <1>3, <1>4 DEF Fetch

LEMMA FinalizeKeeps ==
  ASSUME NEW Specs, NEW Statuses, NEW Steps, "idle" \in Steps,
         None \notin Object(Specs, Statuses),
         Good(Object(Specs, Statuses), Steps), ~copy.fin,
         NEW step \in Steps \ {"idle"}, Finalize(step)
  PROVE  /\ Good(Object(Specs, Statuses), Steps)' /\ (Held => Held')
         /\ \/ pc' = "idle"
            \/ pc' = step /\ copy'.fin /\ ~copy'.del /\ Held'
<1> DEFINE new == [copy EXCEPT !.fin = TRUE]
<1>1. /\ pc # "idle" /\ copy \in Object(Specs, Statuses) /\ ~copy.del
  BY DEF Good, ClusterTypeOK, ClusterInv, Blocked, Finalize
<1>2. /\ new \in Object(Specs, Statuses) /\ Keeps(new)
      /\ new.fin /\ ~new.del
  BY <1>1 DEF Object, Keeps, Blocked
<1>3. CASE \E ok, requeue \in BOOLEAN : Submit(new, ok) /\ Return(requeue)
  <2>1. Good(Object(Specs, Statuses), Steps)' /\ (Held => Held')
    <3> HIDE DEF new
    <3> QED BY <1>1, <1>2, <1>3, SubmitReturnKeeps
  <2> QED BY <1>3, <2>1 DEF Return
<1>4. CASE Submit(new, TRUE) /\ Proceed(step, new)
  <2> HIDE DEF new
  <2>1. Good(Object(Specs, Statuses), Steps)' /\ obj' = new
    BY <1>1, <1>2, <1>4, SubmitProceedKeeps
  <2> QED BY <1>2, <1>4, <2>1 DEF Proceed, Held
<1> QED BY <1>3, <1>4 DEF Finalize, Retry

LEMMA LetGoKeeps ==
  ASSUME NEW Specs, NEW Statuses, NEW Steps, "idle" \in Steps,
         Good(Object(Specs, Statuses), Steps), copy.del, LetGo
  PROVE  Good(Object(Specs, Statuses), Steps)' /\ pc' = "idle"
<1>1. pc # "idle"
  BY DEF LetGo
<1>2. PICK ok \in BOOLEAN : Submit(WithoutFinalizer(copy), ok) /\ Return(~ok)
  BY DEF LetGo
<1> QED BY <1>1, <1>2, ReleaseKeeps DEF Return
=============================================================================
