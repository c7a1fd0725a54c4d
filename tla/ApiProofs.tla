------------------------------ MODULE ApiProofs ------------------------------
(***************************************************************************)
(* Theorems about ApiController, for all names, lists and contents of      *)
(* versions and every bound on edits and faults.                           *)
(***************************************************************************)
EXTENDS ApiController, ClusterProofs

LEMMA Types ==
  /\ None \notin Object(Specs, Statuses)
  /\ "idle" \in Steps
  /\ NoStatus \in Statuses
<1>1. NoStatus \in Statuses
  BY DEF NoStatus, Statuses, Reports
<1> QED BY <1>1, NoneIsNoValue DEF Objects, Steps

(* The invariant, in the parts the steps below keep.                       *)
InAzureInv == PathInv /\ CleanInv /\ NoOrphan

Parts ==
  /\ Good(Object(Specs, Statuses), Steps)
  /\ versionSet \in BOOLEAN /\ OwnedTypeOK /\ LocalTypeOK
  /\ InAzureInv

LEMMA IndInvIs == IndInv <=> Parts
BY DEF IndInv, StepInv, TypeOK, Good, Objects, InAzureInv, Parts

LEMMA IndInvIsNext == IndInv' <=> Parts'
BY DEF IndInv, StepInv, TypeOK, Good, Objects, InAzureInv, Parts

(* Azure and the worker are left alone, and so is a held Api.              *)
LEMMA InAzureKept ==
  ASSUME InAzureInv, Held => Held', versionSet' => versionSet,
         \/ pc' = pc /\ copy' = copy
         \/ pc' = "idle"
  PROVE  InAzureInv'
BY DEF InAzureInv, PathInv, CleanInv, NoOrphan, CreateSteps, DeleteSteps

-----------------------------------------------------------------------------
(* The ApiVersion objects                                                  *)

LEMMA PutVersionTypes ==
  ASSUME OwnedTypeOK, NEW n \in Names, NEW new \in Versions \cup {None},
         PutVersion(n, new)
  PROVE  OwnedTypeOK'
<1>1. versions' \in [Names -> Versions \cup {None}]
  BY DEF OwnedTypeOK, PutVersion
<1>2. versionWatch' \in Seq([name : Names, version : Versions \cup {None}])
  <2>1. CASE new = versions[n]
    BY <2>1 DEF OwnedTypeOK, PutVersion
  <2>2. CASE new # versions[n]
    <3>1. [name |-> n, version |-> new]
            \in [name : Names, version : Versions \cup {None}]
      OBVIOUS
    <3> QED BY <2>2, <3>1, AppendProperties DEF OwnedTypeOK, PutVersion
  <2> QED BY <2>1, <2>2
<1> QED BY <1>1, <1>2 DEF OwnedTypeOK, PutVersion

(* Whatever happens to a version, a version remains, or none.              *)
LEMMA LifeTypes ==
  ASSUME NEW n \in Names, NEW v \in Versions
  PROVE  /\ Life(n)!Progressed(v) \subseteq Versions \cup {None}
         /\ Life(n)!Reported(v) \subseteq Versions
         /\ Life(n)!Deleted(v) \in Versions \cup {None}
<1>1. Life(n)!Progressed(v) \subseteq Versions \cup {None}
  BY DEF Life!Progressed, Versions
<1>2. Life(n)!Reported(v) \subseteq Versions
  BY DEF Life!Reported, Versions
<1>3. Life(n)!Deleted(v) \in Versions \cup {None}
  BY DEF Life!Deleted, Versions
<1> QED BY <1>1, <1>2, <1>3

LEMMA OwnedUnchanged ==
  ASSUME OwnedTypeOK, UNCHANGED owned
  PROVE  OwnedTypeOK'
BY DEF OwnedTypeOK, owned

LEMMA LocalUnchanged ==
  ASSUME LocalTypeOK, UNCHANGED local
  PROVE  LocalTypeOK'
BY DEF LocalTypeOK, local

LEMMA ClusterUnchanged ==
  ASSUME Good(Object(Specs, Statuses), Steps), UNCHANGED cluster
  PROVE  Good(Object(Specs, Statuses), Steps)' /\ Held' = Held
BY DEF cluster, Good, ClusterTypeOK, ClusterInv, Held, Tracks, Seen, Blocked

LEMMA VersionStep ==
  ASSUME IndInv, OfVersions
  PROVE  IndInv' /\ Held' = Held /\ versionSet' = versionSet
<1>1. Parts
  BY IndInvIs
<1>2. CASE VersionDeliver
  <2>1. /\ UNCHANGED <<server, cached, timer, configured, worker, edits, faults>>
        /\ UNCHANGED <<versionSet, local>> /\ queued' = TRUE
    BY <1>2 DEF VersionDeliver
  <2>2. Good(Object(Specs, Statuses), Steps)' /\ Held' = Held
    BY <1>1, <2>1 DEF Parts, Good, ClusterTypeOK, ClusterInv, server, worker,
                      Held, Tracks, Seen, Blocked
  <2>3. OwnedTypeOK'
    <3> DEFINE Event == [name : Names, version : Versions \cup {None}]
    <3>1. /\ Head(versionWatch) \in Event
          /\ Tail(versionWatch) \in Seq(Event)
      BY <1>1, <1>2, HeadTailProperties DEF Parts, OwnedTypeOK, VersionDeliver
    <3> QED BY <1>1, <1>2, <3>1 DEF Parts, OwnedTypeOK, VersionDeliver
  <2>4. LocalTypeOK'
    BY <1>1, <2>1, LocalUnchanged DEF Parts
  <2>5. InAzureInv'
    BY <1>1, <2>1, <2>2, InAzureKept DEF Parts, worker
  <2> QED BY <1>1, <2>1, <2>2, <2>3, <2>4, <2>5, IndInvIsNext DEF Parts
<1>3. ASSUME NEW n \in Names,
             VersionReconciled(n) \/ VersionReports(n) \/ GarbageCollected(n)
      PROVE  IndInv' /\ Held' = Held /\ versionSet' = versionSet
  <2>1. UNCHANGED <<cluster, versionSet, local>>
    BY <1>3 DEF VersionReconciled, VersionReports, GarbageCollected
  <2>2. Good(Object(Specs, Statuses), Steps)' /\ Held' = Held
    BY <1>1, <2>1, ClusterUnchanged DEF Parts
  <2>3. versions[n] \in Versions
    BY <1>1, <1>3 DEF Parts, OwnedTypeOK, VersionReconciled, VersionReports,
                      GarbageCollected, IsLive
  <2>4. \E new \in Versions \cup {None} : PutVersion(n, new)
    BY <1>3, <2>3, LifeTypes DEF VersionReconciled, VersionReports,
                                 GarbageCollected
  <2>5. PICK new \in Versions \cup {None} : PutVersion(n, new)
    BY <2>4
  <2>6. OwnedTypeOK' /\ LocalTypeOK'
    BY <1>1, <2>1, <2>5, PutVersionTypes, LocalUnchanged DEF Parts
  <2>7. InAzureInv'
    BY <1>1, <2>1, <2>2, InAzureKept DEF Parts, cluster
  <2> QED BY <1>1, <2>1, <2>2, <2>6, <2>7, IndInvIsNext DEF Parts
<1>4. ASSUME NEW n \in Names, UserOfVersion(n)
      PROVE  IndInv' /\ Held' = Held /\ versionSet' = versionSet
  <2>1. /\ UNCHANGED <<server, cached, queue, configured, worker, faults>>
        /\ UNCHANGED <<versionSet, local>>
        /\ edits < MaxEdits /\ edits' = edits + 1
    BY <1>4 DEF UserOfVersion
  <2>2. edits' \in 0 .. MaxEdits
    BY <1>1, <2>1, BudgetsAreNaturals DEF Parts, Good, ClusterTypeOK
  <2>3. Good(Object(Specs, Statuses), Steps)' /\ Held' = Held
    BY <1>1, <2>1, <2>2 DEF Parts, Good, ClusterTypeOK, ClusterInv, server,
                            queue, worker, Held, Tracks, Seen, Blocked
  <2>4. versions[n] \in Versions
    BY <1>1, <1>4 DEF Parts, OwnedTypeOK, UserOfVersion, IsLive
  <2>5. PICK new \in Versions \cup {None} : PutVersion(n, new)
    BY <1>4, <2>4, LifeTypes DEF UserOfVersion, Versions
  <2>6. OwnedTypeOK' /\ LocalTypeOK'
    BY <1>1, <2>1, <2>5, PutVersionTypes, LocalUnchanged DEF Parts
  <2>7. InAzureInv'
    BY <1>1, <2>1, <2>3, InAzureKept DEF Parts, worker
  <2> QED BY <1>1, <2>1, <2>3, <2>6, <2>7, IndInvIsNext DEF Parts
<1> QED BY <1>2, <1>3, <1>4 DEF OfVersions

-----------------------------------------------------------------------------
LEMMA InitGood == Init => IndInv
<1> SUFFICES ASSUME Init PROVE IndInv
  OBVIOUS
<1>1. Good(Object(Specs, Statuses), Steps)
  BY Types, InitGoodCluster DEF Init
<1>2. OwnedTypeOK
  <2>1. versionWatch \in Seq([name : Names, version : Versions \cup {None}])
    BY EmptySeq DEF Init
  <2> QED BY <2>1 DEF Init, OwnedTypeOK
<1>3. LocalTypeOK
  BY Types DEF Init, LocalTypeOK
<1>4. InAzureInv
  BY DEF Init, ClusterInit, InAzureInv, PathInv, CreateSteps, DeleteSteps,
         CleanInv, NoOrphan
<1> QED BY <1>1, <1>2, <1>3, <1>4, IndInvIs DEF Init, Parts

(* Users, the informer, timers, crashes and drift.                         *)
LEMMA EnvironmentStep ==
  ASSUME IndInv, Environment
  PROVE  IndInv' /\ (Held => Held') /\ (versionSet' => versionSet)
<1>1. Parts
  BY IndInvIs
<1>2. CASE User
  <2>1. UNCHANGED <<versionSet, owned, local>>
    BY <1>2 DEF User
  <2>2. Good(Object(Specs, Statuses), Steps)' /\ (Held => Held')
    <3>1. CASE UserDeletes
      <4>1. obj.spec \in Specs
        BY <1>1, <3>1 DEF UserDeletes, Live, Parts, Good, ClusterTypeOK, Object
      <4> QED BY <1>1, <3>1, <4>1, Types, UserStepsKeep DEF Parts
    <3>2. ASSUME NEW path \in Paths, NEW list \in Lists,
                 UserCreates([path |-> path, list |-> list, uid |-> edits],
                             NoStatus)
          PROVE  Good(Object(Specs, Statuses), Steps)' /\ (Held => Held')
      <4>1. [path |-> path, list |-> list, uid |-> edits] \in Specs
        BY <1>1 DEF Parts, Good, ClusterTypeOK, Specs, Uids
      <4> QED BY <1>1, <3>2, <4>1, Types, UserStepsKeep DEF Parts
    <3>3. ASSUME NEW path \in Paths, NEW list \in Lists, obj # None,
                 UserEdits([obj.spec EXCEPT !.path = path, !.list = list])
          PROVE  Good(Object(Specs, Statuses), Steps)' /\ (Held => Held')
      <4>1. [obj.spec EXCEPT !.path = path, !.list = list] \in Specs
        BY <1>1, <3>3 DEF Parts, Good, ClusterTypeOK, Object, Specs
      <4> QED BY <1>1, <3>3, <4>1, Types, UserStepsKeep DEF Parts
    <3> QED BY <1>2, <3>1, <3>2, <3>3 DEF User
  <2>3. pc' = pc /\ copy' = copy
    BY <1>2 DEF User, UserCreates, UserEdits, UserDeletes, UserWrites
  <2>4. OwnedTypeOK' /\ LocalTypeOK'
    BY <1>1, <2>1, OwnedUnchanged, LocalUnchanged DEF Parts
  <2>5. InAzureInv'
    BY <1>1, <2>1, <2>2, <2>3, InAzureKept DEF Parts
  <2> QED BY <1>1, <2>1, <2>2, <2>4, <2>5, IndInvIsNext DEF Parts
<1>3. CASE Drift
  <2>1. /\ UNCHANGED <<server, cached, queue, configured, worker, edits>>
        /\ UNCHANGED <<owned, local>> /\ versionSet' = FALSE /\ Fault
    BY <1>3 DEF Drift
  <2>2. faults' \in 0 .. MaxFaults
    BY <1>1, <2>1, FaultsBounded DEF Parts, Good, ClusterTypeOK
  <2>3. Good(Object(Specs, Statuses), Steps)' /\ Held' = Held
    BY <1>1, <2>1, <2>2 DEF Parts, Good, ClusterTypeOK, ClusterInv, server,
                            queue, worker, Held, Tracks, Seen, Blocked
  <2>4. OwnedTypeOK' /\ LocalTypeOK'
    BY <1>1, <2>1, OwnedUnchanged, LocalUnchanged DEF Parts
  <2>5. InAzureInv'
    BY <1>1, <2>1, <2>3, InAzureKept DEF Parts, worker
  <2> QED BY <2>1, <2>3, <2>4, <2>5, IndInvIsNext DEF Parts
<1>4. CASE Informer \/ Delayed \/ Resynced \/ Crash
  <2>1. Good(Object(Specs, Statuses), Steps)' /\ Held' = Held
    BY <1>1, <1>4, Types, EnvironmentKeeps
       DEF Parts, Informer, Delayed, Resynced, Crash
  <2>2. versionSet' = versionSet
    BY <1>4 DEF Informer, Delayed, Resynced, Crash
  <2>3. OwnedTypeOK' /\ LocalTypeOK'
    <3>1. CASE Crash
      <4>1. versionWatch' \in Seq([name : Names, version : Versions \cup {None}])
        BY <3>1, EmptySeq DEF Crash
      <4> QED BY <1>1, <3>1, <4>1, Types
              DEF Parts, Crash, OwnedTypeOK, LocalTypeOK
    <3>2. CASE Informer \/ Delayed \/ Resynced
      BY <1>1, <3>2, OwnedUnchanged, LocalUnchanged
         DEF Parts, Informer, Delayed, Resynced
    <3> QED BY <1>4, <3>1, <3>2
  <2>4. \/ pc' = pc /\ copy' = copy
        \/ pc' = "idle"
    BY <1>4 DEF Informer, Delayed, Resynced, Crash, Deliver, TimerFires,
                Resync, Restart, worker
  <2>5. InAzureInv'
    BY <1>1, <2>1, <2>2, <2>4, InAzureKept DEF Parts
  <2> QED BY <1>1, <2>1, <2>2, <2>3, <2>5, IndInvIsNext DEF Parts
<1> QED BY <1>2, <1>3, <1>4 DEF Environment

-----------------------------------------------------------------------------
(* Reconcile                                                               *)

LEMMA GetStep ==
  ASSUME IndInv, Get
  PROVE  IndInv' /\ Held' = Held /\ versionSet' = versionSet
<1>1. Parts
  BY IndInvIs
<1>2. UNCHANGED <<versionSet, owned, local>> /\ pc = "idle"
  BY DEF Get, Fetch
<1> DEFINE branch == IF cached.del THEN "listOwned" ELSE "getSet"
<1>3. /\ Good(Object(Specs, Statuses), Steps)' /\ Held' = Held
      /\ \/ pc' = "idle"
         \/ pc' = "addFinalizer" /\ ~copy'.fin
         \/ pc' = branch /\ copy'.fin /\ (~copy'.del => Held')
            /\ copy' = cached
  <2>1. branch \in Steps \ {"idle"} /\ "addFinalizer" \in Steps
    BY DEF Steps
  <2>2. Fetch(branch)
    BY DEF Get
  <2> HIDE DEF branch
  <2> QED BY <1>1, <2>1, <2>2, FetchKeeps DEF Parts
<1>4. OwnedTypeOK' /\ LocalTypeOK'
  BY <1>1, <1>2, OwnedUnchanged, LocalUnchanged DEF Parts
<1>5. PathInv'
  BY <1>3 DEF PathInv, CreateSteps, DeleteSteps
<1>6. CleanInv' /\ NoOrphan'
  BY <1>1, <1>2, <1>3 DEF Parts, InAzureInv, CleanInv, NoOrphan
<1> QED BY <1>1, <1>2, <1>3, <1>4, <1>5, <1>6, IndInvIsNext
        DEF Parts, InAzureInv

(* The entry reconcileVersions is at.                                      *)
LEMMA EntryType ==
  ASSUME Parts, pc = "version", More
  PROVE  Entry \in Entries
<1>1. copy.spec.list \in Seq(Entries)
  <2>1. copy \in Object(Specs, Statuses)
    BY DEF Parts, Good, ClusterTypeOK, ClusterInv
  <2> QED BY <2>1, ListsAreLists DEF Object, Specs
<1>2. next \in 1 .. Len(copy.spec.list)
  BY <1>1, LenProperties DEF Parts, LocalTypeOK, More
<1> QED BY <1>1, <1>2, ElementOfSeq DEF Entry

LEMMA WantedType ==
  ASSUME Parts, pc = "version", More
  PROVE  Wanted \in Versions
<1>1. copy.spec.uid \in Uids /\ copy.spec.path \in Paths
  BY DEF Parts, Good, ClusterTypeOK, ClusterInv, Object, Specs
<1>2. Entry.fields \in Fields /\ Entry.policy \in Policies
  BY EntryType DEF Entries
<1>3. report.set \in BOOLEAN
  BY DEF Parts, LocalTypeOK, Statuses
<1> QED BY <1>1, <1>2, <1>3, AtFirstNothing
        DEF Wanted, createApiVersionResource, Versions, VersionSpecs

LEMMA LocalSet ==
  ASSUME LocalTypeOK, NEW r \in Statuses, Advance(r) \/ Leave(TRUE)
  PROVE  LocalTypeOK'
<1>1. next' \in Nat \ {0}
  <2>1. next' = next + 1 \/ next' = 1
    BY DEF Advance, Leave
  <2> QED BY <2>1 DEF LocalTypeOK
<1>2. report' \in Statuses
  BY Types DEF Advance, Leave
<1> QED BY <1>1, <1>2 DEF LocalTypeOK

LEMMA VersionWritten ==
  ASSUME Parts, pc = "version", More,
         NEW new \in Versions, NEW accepted \in BOOLEAN, NEW r \in Statuses,
         WriteVersion(new, accepted, r)
  PROVE  /\ OwnedTypeOK' /\ LocalTypeOK'
         /\ faults' = faults \/ Fault
         /\ Goto("version") \/ Return(TRUE)
<1>1. Entry.name \in Names
  BY EntryType DEF Entries
<1>2. OwnedTypeOK'
  BY <1>1, PutVersionTypes, OwnedUnchanged DEF Parts, WriteVersion
<1>3. LocalTypeOK'
  BY LocalSet DEF Parts, WriteVersion
<1> QED BY <1>2, <1>3 DEF WriteVersion, Advance, Leave

LiveReads ==
  GetSet \/ CreateSet \/ CreateVersion \/ UpdateVersion \/ VersionsDone

LEMMA LiveReadTypes ==
  ASSUME Parts, LiveReads
  PROVE  /\ OwnedTypeOK' /\ LocalTypeOK' /\ versionSet' \in BOOLEAN
         /\ UNCHANGED server /\ (faults' = faults \/ Fault)
         /\ \/ \E step \in {"createSet", "version", "saveStatus"} : Goto(step)
            \/ Return(TRUE)
<1>1. CASE GetSet \/ CreateSet
  <2>1. OwnedTypeOK' /\ versionSet' \in BOOLEAN
    BY <1>1, OwnedUnchanged DEF Parts, GetSet, CreateSet
  <2>2. Begin \/ UNCHANGED local
    BY <1>1 DEF GetSet, CreateSet
  <2>3. LocalTypeOK'
    <3>1. CASE Begin
      <4>1. copy.status \in Statuses
        BY <1>1 DEF Parts, Good, ClusterTypeOK, ClusterInv, Object, GetSet,
                    CreateSet
      <4>2. report' \in Statuses
        BY <3>1, <4>1 DEF Begin, Statuses
      <4> QED BY <3>1, <4>2 DEF Begin, LocalTypeOK
    <3>2. CASE UNCHANGED local
      BY <3>2, LocalUnchanged DEF Parts
    <3> QED BY <2>2, <3>1, <3>2
  <2> QED BY <1>1, <2>1, <2>3
          DEF GetSet, CreateSet, Retry, Read, Call, NewAPIMClientFails
<1>2. CASE CreateVersion
  <2>1. Wanted \in Versions /\ report \in Statuses
    BY <1>2, WantedType DEF CreateVersion, Parts, LocalTypeOK
  <2>2. /\ OwnedTypeOK' /\ LocalTypeOK' /\ (faults' = faults \/ Fault)
        /\ Goto("version") \/ Return(TRUE)
    <3>1. (versions[Entry.name] = None) \in BOOLEAN
      OBVIOUS
    <3> QED BY <1>2, <2>1, <3>1, VersionWritten DEF CreateVersion
  <2> QED BY <1>2, <2>2 DEF CreateVersion, Parts
<1>3. CASE UpdateVersion
  <2> DEFINE v == versionCache[Entry.name]
             taken == [report EXCEPT !.states[Entry.name] = v.status]
  <2>1. Entry \in Entries /\ report \in Statuses
    BY <1>3, EntryType DEF UpdateVersion, Parts, LocalTypeOK
  <2>2. v \in Versions
    BY <1>3, <2>1 DEF UpdateVersion, Parts, OwnedTypeOK, Entries
  <2>3. taken \in Statuses
    BY <2>1, <2>2 DEF Statuses, Reports, Versions, Entries
  <2>4. CASE WriteVersion(Updated(v), Current(Entry.name), taken)
    <3>1. Updated(v) \in Versions
      BY <1>3, <2>2, WantedType DEF Versions, Updated, UpdateVersion
    <3>2. Current(Entry.name) \in BOOLEAN
      BY DEF Current
    <3>3. /\ OwnedTypeOK' /\ LocalTypeOK' /\ (faults' = faults \/ Fault)
          /\ Goto("version") \/ Return(TRUE)
      BY <1>3, <2>3, <2>4, <3>1, <3>2, VersionWritten DEF UpdateVersion
    <3> QED BY <1>3, <3>3 DEF UpdateVersion, Parts
  <2>5. CASE /\ Leave(TRUE) \/ Advance(taken)
             /\ UNCHANGED <<owned, faults>>
    <3>1. LocalTypeOK'
      <4> HIDE DEF taken
      <4> QED BY <2>3, <2>5, LocalSet DEF Parts
    <3>2. OwnedTypeOK'
      BY <2>5, OwnedUnchanged DEF Parts
    <3> QED BY <1>3, <2>5, <3>1, <3>2 DEF UpdateVersion, Parts, Advance, Leave
  <2> QED BY <1>3, <2>4, <2>5 DEF UpdateVersion
<1>4. CASE VersionsDone
  BY <1>4, OwnedUnchanged, LocalUnchanged DEF Parts, VersionsDone
<1> QED BY <1>1, <1>2, <1>3, <1>4 DEF LiveReads

LEMMA LiveReadStep ==
  ASSUME IndInv, LiveReads
  PROVE  IndInv' /\ Held' = Held /\ Held
<1>1. Parts
  BY IndInvIs
<1>2. pc \in {"getSet", "createSet", "version"}
  BY DEF LiveReads, GetSet, CreateSet, CreateVersion, UpdateVersion,
         VersionsDone
<1>3. copy.fin /\ ~copy.del /\ Held
  BY <1>1, <1>2 DEF Parts, InAzureInv, PathInv, CreateSteps
<1>4. /\ OwnedTypeOK' /\ LocalTypeOK' /\ versionSet' \in BOOLEAN
      /\ UNCHANGED server /\ (faults' = faults \/ Fault)
      /\ \/ \E step \in {"createSet", "version", "saveStatus"} : Goto(step)
         \/ Return(TRUE)
  BY <1>1, LiveReadTypes
<1>5. Good(Object(Specs, Statuses), Steps)' /\ Held' = Held
  <2>1. {"createSet", "version", "saveStatus"} \subseteq Steps \ {"idle"}
    BY DEF Steps
  <2> QED BY <1>1, <1>2, <1>4, <2>1, Types, ReadKeeps DEF Parts
<1>6. InAzureInv'
  BY <1>3, <1>4, <1>5 DEF InAzureInv, PathInv, CleanInv, NoOrphan, CreateSteps,
                          DeleteSteps, Goto, Return
<1> QED BY <1>3, <1>4, <1>5, <1>6, IndInvIsNext DEF Parts

LEMMA DeleteReadStep ==
  ASSUME IndInv, ListOwned \/ GetSetToDelete \/ DeleteSet
  PROVE  IndInv' /\ Held' = Held /\ (versionSet' => versionSet)
<1>1. Parts
  BY IndInvIs
<1>2. /\ pc \in {"listOwned", "getSetToDelete", "deleteSet"}
      /\ UNCHANGED <<owned, local>> /\ UNCHANGED server
      /\ faults' = faults \/ Fault
  BY DEF ListOwned, GetSetToDelete, DeleteSet, Read, Call, NewAPIMClientFails
<1>3. versionSet' \in BOOLEAN /\ (versionSet' => versionSet)
  <2>1. CASE DeleteSet
    BY <1>1, <2>1 DEF DeleteSet, Parts
  <2>2. CASE versionSet' = versionSet
    BY <1>1, <2>2 DEF Parts
  <2> QED BY <2>1, <2>2 DEF ListOwned, GetSetToDelete
<1>4. \/ \E step \in {"getSetToDelete", "deleteSet"} : Goto(step)
      \/ Goto("removeFinalizer") /\ ~versionSet'
      \/ Return(TRUE)
  <2>1. CASE ListOwned
    BY <2>1 DEF ListOwned, Retry
  <2>2. CASE GetSetToDelete
    <3>1. PICK err \in Errors :
            /\ Read(versionSet, err)
            /\ \/ IgnoreNotFound(err) # "none" /\ Retry
               \/ /\ IgnoreNotFound(err) = "none"
                  /\ Goto(IF err = "none" THEN "deleteSet"
                          ELSE "removeFinalizer")
      BY <2>2 DEF GetSetToDelete
    <3>2. CASE IgnoreNotFound(err) = "none" /\ err # "none"
      <4>1. ~versionSet
        BY <3>1, <3>2 DEF Read, Answer, IgnoreNotFound, IsNotFoundError
      <4> QED BY <2>2, <3>1, <3>2, <4>1 DEF GetSetToDelete, Retry
    <3> QED BY <3>1, <3>2 DEF Retry
  <2>3. CASE DeleteSet
    <3>1. PICK err \in Errors, done \in BOOLEAN :
            /\ Call(versionSet, FALSE, done, err)
            /\ versionSet' = (versionSet /\ ~done)
            /\ IF err = "none" THEN Goto("removeFinalizer") ELSE Retry
      BY <2>3 DEF DeleteSet
    <3>2. err = "none" => done
      BY <3>1 DEF Call
    <3> QED BY <3>1, <3>2 DEF Retry
  <2> QED BY <2>1, <2>2, <2>3
<1>5. Good(Object(Specs, Statuses), Steps)' /\ Held' = Held
  <2>1. {"getSetToDelete", "deleteSet", "removeFinalizer"}
          \subseteq Steps \ {"idle"}
    BY DEF Steps
  <2> QED BY <1>1, <1>2, <1>4, <2>1, Types, ReadKeeps DEF Parts
<1>6. OwnedTypeOK' /\ LocalTypeOK'
  BY <1>1, <1>2, OwnedUnchanged, LocalUnchanged DEF Parts
<1>7. InAzureInv'
  <2>1. NoOrphan'
    BY <1>1, <1>3, <1>5 DEF Parts, InAzureInv, NoOrphan
  <2>2. CleanInv'
    BY <1>4 DEF CleanInv, Goto, Return
  <2>3. copy.fin /\ copy.del
    BY <1>1, <1>2 DEF Parts, InAzureInv, PathInv, DeleteSteps
  <2>4. PathInv'
    BY <1>4, <2>3 DEF PathInv, CreateSteps, DeleteSteps, Goto, Return
  <2> QED BY <2>1, <2>2, <2>4 DEF InAzureInv
<1> QED BY <1>1, <1>3, <1>5, <1>6, <1>7, IndInvIsNext DEF Parts

(* The steps that write to the Api and keep its finalizer.                 *)
LEMMA WriteStep ==
  ASSUME IndInv, AddFinalizer \/ SaveStatus
  PROVE  IndInv' /\ (Held => Held') /\ versionSet' = versionSet
<1>1. Parts
  BY IndInvIs
<1>2. UNCHANGED <<versionSet, owned>> /\ OwnedTypeOK'
  BY <1>1, OwnedUnchanged DEF Parts, AddFinalizer, SaveStatus
<1>4. CASE AddFinalizer
  <2>1. pc = "addFinalizer" /\ UNCHANGED local /\ Finalize("getSet")
    BY <1>4 DEF AddFinalizer, Finalize
  <2>2. LocalTypeOK'
    BY <1>1, <2>1, LocalUnchanged DEF Parts
  <2>3. /\ Good(Object(Specs, Statuses), Steps)' /\ (Held => Held')
        /\ \/ pc' = "idle"
           \/ pc' = "getSet" /\ copy'.fin /\ ~copy'.del /\ Held'
    <3>1. "getSet" \in Steps \ {"idle"}
      BY DEF Steps
    <3>2. ~copy.fin
      BY <1>1, <2>1 DEF Parts, InAzureInv, PathInv
    <3> QED BY <1>1, <2>1, <3>1, <3>2, Types, FinalizeKeeps DEF Parts
  <2>4. InAzureInv'
    BY <1>1, <1>2, <2>3 DEF Parts, InAzureInv, PathInv, CleanInv, NoOrphan,
                            CreateSteps, DeleteSteps
  <2> QED BY <1>1, <1>2, <2>2, <2>3, <2>4, IndInvIsNext DEF Parts
<1>5. CASE SaveStatus
  <2>1. copy.fin /\ report \in Statuses /\ Return(TRUE)
    BY <1>1, <1>5 DEF Parts, InAzureInv, PathInv, CreateSteps, LocalTypeOK,
                      SaveStatus, Leave
  <2>0. pc # "idle" /\ copy \in Object(Specs, Statuses) /\ Blocked(copy)
    BY <1>1, <1>5 DEF Parts, Good, ClusterTypeOK, ClusterInv, SaveStatus
  <2>2. PICK ok \in BOOLEAN : SubmitStatus(report, ok)
    BY <1>5 DEF SaveStatus
  <2> DEFINE new == [copy EXCEPT !.status = report]
  <2>3. new \in Object(Specs, Statuses) /\ Keeps(new) /\ Submit(new, ok)
    BY <2>0, <2>1, <2>2, Types DEF Object, Keeps, Blocked, SubmitStatus
  <2>4. Good(Object(Specs, Statuses), Steps)' /\ (Held => Held')
    <3> HIDE DEF new
    <3> QED BY <1>1, <2>0, <2>1, <2>3, Types, SubmitReturnKeeps DEF Parts
  <2>5. LocalTypeOK'
    BY <1>1, <1>5, <2>1, LocalSet DEF Parts, SaveStatus
  <2>6. InAzureInv'
    BY <1>1, <1>2, <2>1, <2>4, InAzureKept DEF Parts, Return
  <2> QED BY <1>1, <1>2, <2>4, <2>5, <2>6, IndInvIsNext DEF Parts
<1> QED BY <1>4, <1>5

LEMMA ReleaseStep ==
  ASSUME IndInv, RemoveFinalizer
  PROVE  IndInv' /\ ~versionSet /\ versionSet' = versionSet
<1>1. Parts
  BY IndInvIs
<1>2. /\ pc = "removeFinalizer" /\ copy.del /\ ~versionSet
      /\ UNCHANGED <<versionSet, owned, local>>
  BY <1>1 DEF RemoveFinalizer, LetGo, Parts, InAzureInv, PathInv, CleanInv,
              DeleteSteps
<1>3. Good(Object(Specs, Statuses), Steps)' /\ pc' = "idle"
  BY <1>1, <1>2, Types, LetGoKeeps DEF Parts, RemoveFinalizer
<1>4. OwnedTypeOK' /\ LocalTypeOK'
  BY <1>1, <1>2, OwnedUnchanged, LocalUnchanged DEF Parts
<1>5. InAzureInv'
  BY <1>2, <1>3 DEF InAzureInv, PathInv, CleanInv, NoOrphan, CreateSteps,
                    DeleteSteps
<1> QED BY <1>1, <1>2, <1>3, <1>4, <1>5, IndInvIsNext DEF Parts

LEMMA StutterStep ==
  ASSUME IndInv, UNCHANGED vars
  PROVE  IndInv' /\ Held' = Held /\ versionSet' = versionSet
<1>1. Parts
  BY IndInvIs
<1>2. Good(Object(Specs, Statuses), Steps)' /\ Held' = Held
  BY <1>1, ClusterUnchanged DEF Parts, vars
<1>3. OwnedTypeOK' /\ LocalTypeOK'
  BY <1>1, OwnedUnchanged, LocalUnchanged DEF Parts, vars
<1>4. versionSet' = versionSet /\ pc' = pc /\ copy' = copy
  BY DEF vars, cluster
<1>5. InAzureInv'
  BY <1>1, <1>2, <1>4, InAzureKept DEF Parts
<1> QED BY <1>1, <1>2, <1>3, <1>4, <1>5, IndInvIsNext DEF Parts

(* Every step keeps the invariant, lets go of the Api only without a       *)
(* version set, and creates a version set only for a held Api.             *)
LEMMA StepKeeps ==
  ASSUME IndInv, [Next]_vars
  PROVE  /\ IndInv'
         /\ Held /\ ~Held' => ~versionSet /\ ~versionSet'
         /\ versionSet' /\ ~versionSet => Held /\ Held'
         /\ versionSet /\ ~versionSet' => (Held => Held')
<1>1. CASE Environment \/ AddFinalizer \/ SaveStatus
  BY <1>1, EnvironmentStep, WriteStep DEF IndInv, NoOrphan
<1>2. CASE OfVersions \/ Get \/ DeleteSet \/ ListOwned \/ GetSetToDelete
  BY <1>2, VersionStep, GetStep, DeleteReadStep
<1>3. CASE LiveReads
  BY <1>3, LiveReadStep
<1>4. CASE RemoveFinalizer
  BY <1>4, ReleaseStep
<1>5. CASE UNCHANGED vars
  BY <1>5, StutterStep
<1> QED BY <1>1, <1>2, <1>3, <1>4, <1>5 DEF Next, Reconcile, LiveReads

-----------------------------------------------------------------------------
(* However stale the two caches are and whatever fails: the worker deletes *)
(* only for an Api marked for deletion, creates only for one that is held, *)
(* and a version set exists only for one that is held.                     *)
THEOREM KeepsToThePath == Spec => []IndInv
<1>1. IndInv /\ [Next]_vars => IndInv'
  BY StepKeeps
<1> QED BY <1>1, InitGood, PTL DEF Spec

(* The controller implements the abstract promise of ManagedResource for   *)
(* its version set.                                                        *)
THEOREM Implements == Spec => ManagesTheVersionSet
<1>1. Init => Managed!Init
  BY DEF Init, ClusterInit, Managed!Init, Held
<1>2. IndInv /\ [Next]_vars => [Managed!Next]_<<Held, versionSet>>
  <2> SUFFICES ASSUME IndInv, [Next]_vars
               PROVE  [Managed!Next]_<<Held, versionSet>>
    OBVIOUS
  <2>1. /\ IndInv'
        /\ Held /\ ~Held' => ~versionSet /\ ~versionSet'
        /\ versionSet' /\ ~versionSet => Held /\ Held'
        /\ versionSet => Held
    BY StepKeeps DEF IndInv, NoOrphan
  <2>2. /\ versionSet \in BOOLEAN /\ versionSet' \in BOOLEAN
        /\ versionSet /\ ~versionSet' => Held'
    BY <2>1, StepKeeps DEF IndInv, StepInv, TypeOK, NoOrphan
  <2>3. Held \in BOOLEAN /\ Held' \in BOOLEAN
    BY <2>1 DEF IndInv, StepInv, TypeOK, ClusterTypeOK, Objects, Object, Held
  <2> QED BY <2>1, <2>2, <2>3
          DEF Managed!Next, Managed!Hold, Managed!Provision,
              Managed!Cleanup, Managed!Release
<1>3. IndInv /\ [Next]_vars => IndInv'
  BY StepKeeps
<1> QED BY <1>1, <1>2, <1>3, InitGood, PTL
        DEF Spec, ManagesTheVersionSet, Managed!Spec
=============================================================================
