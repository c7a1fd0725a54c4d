----------------------------- MODULE ApiPromises -----------------------------
(***************************************************************************)
(* What ApiController promises of the versions it creates and updates:     *)
(* theorems about the steps between two caches, each behind by an amount   *)
(* of its own, and the objects the writes are accepted for.                *)
(***************************************************************************)
EXTENDS ApiProofs

(* What the steps of the proofs need to know of the types.                 *)
LEMMA Known ==
  ASSUME IndInv
  PROVE  /\ watch \in Seq(Objects \cup {None})
         /\ obj \in Objects \cup {None} /\ copy \in Objects \cup {None}
         /\ versionWatch \in Seq([name : Names, version : Versions \cup {None}])
         /\ versions \in [Names -> Versions \cup {None}]
         /\ versionCache \in [Names -> Versions \cup {None}]
BY DEF IndInv, StepInv, TypeOK, ClusterTypeOK, OwnedTypeOK

-----------------------------------------------------------------------------
(* SameApi: what can be created for is a version of the Api in the cluster *)

(* The stored Api stays, and no version comes up that was not around.      *)
LEMMA ReadSame ==
  ASSUME SameApi, obj' = obj,
         Seen' \cup {copy'} \subseteq Seen \cup {copy, obj, None}
  PROVE  SameApi'
<1> SUFFICES ASSUME NEW v \in Seen' \cup {copy'}, Claims(v)
             PROVE  Held' /\ v.spec.uid = obj'.spec.uid
  BY DEF SameApi, Claims
<1>1. CASE v \in Seen \cup {copy}
  BY <1>1 DEF SameApi, Held
<1>2. CASE v = obj
  BY <1>2 DEF Claims, Held
<1> QED BY <1>1, <1>2 DEF Claims

(* A write that neither lets go of a held Api nor turns it into another.   *)
LEMMA PutSame ==
  ASSUME SameApi, NEW S, watch \in Seq(S), NEW new \in S, Tracks,
         Put(new), cached' = cached, copy' \in {copy, new, None},
         Held => new # None /\ new.fin /\ new.spec.uid = obj.spec.uid
  PROVE  SameApi'
<1>1. obj' = new /\ Seen' \subseteq Seen \cup {new}
  BY PutSeen
<1> SUFFICES ASSUME NEW v \in Seen' \cup {copy'}, Claims(v)
             PROVE  Held' /\ v.spec.uid = obj'.spec.uid
  BY DEF SameApi, Claims
<1>2. CASE v \in Seen \cup {copy}
  BY <1>1, <1>2 DEF SameApi, Held
<1>3. CASE v = new
  BY <1>1, <1>3 DEF Claims, Held
<1> QED BY <1>1, <1>2, <1>3 DEF Claims

(* An Api is let go of when nothing else is left to read.                  *)
LEMMA ReleaseSame ==
  ASSUME IndInv, fresh, copy.del, Put(None), cached' = cached, copy' = None
  PROVE  SameApi'
<1>1. watch = <<>> /\ cached = obj /\ obj = copy
  BY DEF IndInv, StepInv, ClusterInv, Tracks
<1>2. Seen' \subseteq {cached, None}
  <2>1. Seen = {cached}
    BY <1>1 DEF Seen
  <2>2. Tracks
    BY DEF IndInv, StepInv, ClusterInv
  <2> QED BY <2>1, <2>2, Known, PutSeen
<1> QED BY <1>1, <1>2 DEF SameApi, Claims

LEMMA SubmitSame ==
  ASSUME IndInv, SameApi, NEW new \in Objects, NEW ok \in BOOLEAN,
         Submit(new, ok), cached' = cached, copy' \in {copy, None} \/
                                            (ok /\ copy' = new),
         fresh /\ Held => new.fin /\ new.spec.uid = obj.spec.uid
  PROVE  SameApi'
<1>1. CASE UNCHANGED server /\ copy' \in {copy, None}
  <2>1. obj' = obj /\ Seen' = Seen
    BY <1>1 DEF server, Seen
  <2> QED BY <1>1, <2>1, ReadSame
<1>2. CASE fresh /\ Put(new)
  <2>1. Tracks /\ new # None
    BY NoneIsNoValue DEF IndInv, StepInv, ClusterInv
  <2> QED BY <1>2, <2>1, Known, PutSame
<1> QED BY <1>1, <1>2 DEF Submit

LEMMA UserSame ==
  ASSUME IndInv, SameApi, User
  PROVE  SameApi'
<1>1. Tracks
  BY DEF IndInv, StepInv, ClusterInv
<1>2. \A new : UserWrites(new) => Put(new) /\ cached' = cached /\ copy' = copy
  BY DEF UserWrites
<1>3. ASSUME NEW path \in Paths, NEW list \in Lists,
             UserCreates([path |-> path, list |-> list, uid |-> edits],
                         NoStatus)
      PROVE  SameApi'
  <2> DEFINE spec == [path |-> path, list |-> list, uid |-> edits]
             new == [spec |-> spec, status |-> NoStatus, fin |-> FALSE,
                     del |-> FALSE]
  <2>1. new \in Objects
    <3>1. spec \in Specs
      BY DEF IndInv, StepInv, TypeOK, ClusterTypeOK, Specs, Uids
    <3> QED BY <3>1, Types DEF Objects, Object
  <2>2. ~Held /\ UserWrites(new)
    BY <1>3 DEF UserCreates, Held
  <2> HIDE DEF new
  <2> QED BY <1>1, <1>2, <2>1, <2>2, Known, PutSame
<1>4. ASSUME NEW path \in Paths, NEW list \in Lists, obj # None,
             UserEdits([obj.spec EXCEPT !.path = path, !.list = list])
      PROVE  SameApi'
  <2> DEFINE spec == [obj.spec EXCEPT !.path = path, !.list = list]
             new == [obj EXCEPT !.spec = spec]
  <2>1. obj \in Objects
    BY <1>4, Known
  <2>2. spec \in Specs /\ spec.uid = obj.spec.uid
    BY <2>1 DEF Objects, Object, Specs
  <2> HIDE DEF spec
  <2>3. /\ new \in Objects /\ new.fin = obj.fin
        /\ new.spec.uid = obj.spec.uid
    BY <2>1, <2>2 DEF Objects, Object
  <2>4. UserWrites(new) /\ new # None
    BY <1>4, <2>3, NoneIsNoValue DEF UserEdits, spec
  <2> HIDE DEF new
  <2> QED BY <1>1, <1>2, <2>3, <2>4, Known, PutSame DEF Held
<1>5. CASE UserDeletes
  <2> DEFINE new == IF obj.fin THEN [obj EXCEPT !.del = TRUE] ELSE None
  <2>1. obj \in Objects
    BY <1>5, Known DEF UserDeletes, Live
  <2>2. /\ new \in Objects \cup {None}
        /\ obj.fin => new \in Objects /\ new.fin
                      /\ new.spec.uid = obj.spec.uid
    BY <2>1 DEF Objects, Object
  <2>3. UserWrites(new)
    BY <1>5 DEF UserDeletes
  <2>4. Held => new # None /\ new.fin /\ new.spec.uid = obj.spec.uid
    BY <2>2, NoneIsNoValue DEF Held
  <2> HIDE DEF new
  <2> QED BY <1>1, <1>2, <2>2, <2>3, <2>4, Known, PutSame
<1> QED BY <1>3, <1>4, <1>5 DEF User

LEMMA SameStep ==
  ASSUME IndInv, SameApi, [Next]_vars
  PROVE  SameApi'
<1>1. CASE User
  BY <1>1, UserSame
<1>2. CASE Informer
  <2>1. Seen' \subseteq Seen /\ obj' = obj /\ copy' = copy
    BY <1>2, Known, DeliverSeen
       DEF Informer, Deliver, worker, IndInv, StepInv, ClusterInv
  <2> QED BY <2>1, ReadSame
<1>3. CASE Crash
  <2>1. Seen' = {obj} /\ obj' = obj /\ copy' = None
    BY <1>3 DEF Crash, Restart, Seen
  <2> QED BY <2>1, ReadSame
<1>4. CASE AddFinalizer
  <2> DEFINE new == [copy EXCEPT !.fin = TRUE]
  <2>1. copy \in Objects /\ (fresh => obj = copy)
    BY <1>4, Known DEF AddFinalizer, Finalize, IndInv, StepInv, ClusterInv
  <2>2. new \in Objects /\ new.fin /\ new.spec.uid = copy.spec.uid
    BY <2>1 DEF Objects, Object
  <2>3. \/ Submit(new, FALSE) /\ Return(TRUE)
        \/ Submit(new, TRUE) /\ Return(FALSE)
        \/ Submit(new, TRUE) /\ Proceed("getSet", new)
    BY <1>4 DEF AddFinalizer, Finalize, Retry
  <2>4. \E ok \in BOOLEAN :
          /\ Submit(new, ok) /\ cached' = cached
          /\ copy' \in {copy, None} \/ (ok /\ copy' = new)
    BY <2>3 DEF Return, Proceed
  <2> HIDE DEF new
  <2> QED BY <2>1, <2>2, <2>4, SubmitSame
<1>5. CASE SaveStatus
  <2> DEFINE new == [copy EXCEPT !.status = report]
  <2>1. copy \in Objects /\ (fresh => obj = copy)
    BY <1>5, Known DEF SaveStatus, IndInv, StepInv, ClusterInv
  <2>2. new \in Objects /\ new.fin = copy.fin /\ new.spec.uid = copy.spec.uid
    BY <2>1 DEF Objects, Object, IndInv, StepInv, TypeOK, LocalTypeOK
  <2>3. \E ok \in BOOLEAN :
          Submit(new, ok) /\ cached' = cached /\ copy' \in {copy, None}
    BY <1>5 DEF SaveStatus, SubmitStatus, Leave, Return
  <2> HIDE DEF new
  <2> QED BY <2>1, <2>2, <2>3, SubmitSame DEF Held
<1>6. CASE RemoveFinalizer
  <2>1. copy.del /\ pc # "idle"
    BY <1>6 DEF RemoveFinalizer, LetGo, IndInv, StepInv, PathInv, DeleteSteps
  <2>2. /\ UNCHANGED server \/ (fresh /\ Put(None))
        /\ cached' = cached /\ copy' = None
    BY <1>6, <2>1 DEF RemoveFinalizer, LetGo, Submit, WithoutFinalizer, Return
  <2>3. CASE UNCHANGED server
    BY <2>2, <2>3, ReadSame DEF server, Seen
  <2> QED BY <2>1, <2>2, <2>3, ReleaseSame
<1>7. CASE \/ LiveReads \/ ListOwned \/ GetSetToDelete \/ DeleteSet
           \/ Get \/ OfVersions \/ Delayed \/ Resynced \/ Drift
           \/ UNCHANGED vars
  <2>1. CASE LiveReads \/ ListOwned \/ GetSetToDelete \/ DeleteSet
    <3>1. UNCHANGED server
      BY <2>1 DEF LiveReads, GetSet, CreateSet, CreateVersion, UpdateVersion,
                  VersionsDone, ListOwned, GetSetToDelete, DeleteSet
    <3>2. (\E step : Goto(step)) \/ Return(TRUE)
      BY <2>1 DEF LiveReads, GetSet, CreateSet, CreateVersion, UpdateVersion,
                  VersionsDone, ListOwned, GetSetToDelete, DeleteSet, Retry,
                  WriteVersion, Advance, Leave
    <3>3. cached' = cached /\ copy' \in {copy, None}
      BY <3>2 DEF Goto, Return
    <3> QED BY <3>1, <3>3, ReadSame DEF server, Seen
  <2>2. CASE Get
    <3>1. UNCHANGED server /\ cached' = cached /\ copy' \in {copy, cached}
      BY <2>2 DEF Get, Fetch, Skip, Start, worker
    <3> QED BY <3>1, ReadSame DEF server, Seen
  <2>3. CASE OfVersions \/ Delayed \/ Resynced \/ Drift \/ UNCHANGED vars
    <3>1. UNCHANGED <<server, cached, worker>>
      BY <2>3 DEF OfVersions, VersionDeliver, VersionReconciled,
                  VersionReports, GarbageCollected, UserOfVersion, Delayed,
                  TimerFires, Resynced, Resync, Drift, vars, cluster, server,
                  worker
    <3> QED BY <3>1, ReadSame DEF server, worker, Seen
  <2> QED BY <1>7, <2>1, <2>2, <2>3
<1> QED BY <1>1, <1>2, <1>3, <1>4, <1>5, <1>6, <1>7
        DEF Next, Environment, Reconcile, LiveReads
-----------------------------------------------------------------------------
(* OwnedTracks: what the versions' cache has of a version that no event is *)
(* under way of is the version stored                                      *)

Events == [name : Names, version : Versions \cup {None}]

LEMMA TracksUnchanged ==
  ASSUME OwnedTracks, UNCHANGED owned
  PROVE  OwnedTracks'
BY DEF OwnedTracks, owned, Current, LastOf

LEMMA PutTracks ==
  ASSUME OwnedTracks, versionWatch \in Seq(Events),
         versions \in [Names -> Versions \cup {None}],
         NEW n \in Names, NEW new \in Versions \cup {None}, PutVersion(n, new)
  PROVE  OwnedTracks'
<1>1. CASE new = versions[n]
  <2>1. UNCHANGED owned
    BY <1>1 DEF PutVersion, owned
  <2> QED BY <2>1, TracksUnchanged
<1>2. CASE new # versions[n]
  <2> DEFINE event == [name |-> n, version |-> new]
             last == Len(versionWatch) + 1
  <2>1. /\ versionWatch' = Append(versionWatch, event)
        /\ versions' = [versions EXCEPT ![n] = new]
        /\ versionCache' = versionCache
    BY <1>2 DEF PutVersion
  <2>2. event \in Events /\ event.name = n /\ event.version = new
    BY DEF Events
  <2> HIDE DEF event
  <2>3. /\ versionWatch' \in Seq(Events) /\ Len(versionWatch') = last
        /\ \A i \in 1 .. Len(versionWatch) : versionWatch'[i] = versionWatch[i]
        /\ versionWatch'[last] = event
    BY <2>1, <2>2, AppendProperties
  <2>4. /\ DOMAIN versionWatch' = 1 .. last
        /\ DOMAIN versionWatch = 1 .. Len(versionWatch)
        /\ Len(versionWatch) \in Nat
    BY <2>3, LenProperties
  <2>5. ASSUME NEW m \in Names
        PROVE  /\ Current(m)' => versionCache'[m] = versions'[m]
               /\ \A i \in DOMAIN versionWatch' :
                    LastOf(m, i)' => versionWatch'[i].version = versions'[m]
    <3>1. CASE m = n
      <4>1. versions'[m] = new
        BY <2>1, <3>1
      <4>2. ~Current(m)'
        BY <2>2, <2>3, <2>4, <3>1 DEF Current
      <4>3. ASSUME NEW i \in DOMAIN versionWatch', LastOf(m, i)'
            PROVE  i = last
        <5>1. last <= i
          BY <2>2, <2>3, <2>4, <3>1, <4>3 DEF LastOf
        <5> QED BY <2>4, <5>1
      <4> QED BY <2>2, <2>3, <4>1, <4>2, <4>3
    <3>2. CASE m # n
      <4>1. versions'[m] = versions[m]
        BY <2>1, <3>2
      <4>2. Current(m)' => Current(m)
        BY <2>3, <2>4 DEF Current
      <4>3. ASSUME NEW i \in DOMAIN versionWatch', LastOf(m, i)'
            PROVE  i \in DOMAIN versionWatch /\ LastOf(m, i)
        <5>1. i # last
          BY <2>2, <2>3, <3>2, <4>3 DEF LastOf
        <5>2. i \in DOMAIN versionWatch
          BY <2>4, <5>1
        <5> QED BY <2>3, <2>4, <4>3, <5>2 DEF LastOf
      <4> QED BY <2>1, <2>3, <2>4, <4>1, <4>2, <4>3 DEF OwnedTracks
    <3> QED BY <3>1, <3>2
  <2> QED BY <2>5 DEF OwnedTracks
<1> QED BY <1>1, <1>2

LEMMA DeliverTracks ==
  ASSUME OwnedTracks, versionWatch \in Seq(Events),
         versionCache \in [Names -> Versions \cup {None}], VersionDeliver
  PROVE  OwnedTracks'
<1> DEFINE event == Head(versionWatch)
<1>1. /\ versionWatch # <<>> /\ versionWatch' = Tail(versionWatch)
      /\ versionCache' = [versionCache EXCEPT ![event.name] = event.version]
      /\ versions' = versions
  BY DEF VersionDeliver
<1>2. /\ event \in Events /\ event = versionWatch[1]
      /\ versionWatch' \in Seq(Events)
      /\ Len(versionWatch) \in Nat \ {0}
      /\ Len(versionWatch') = Len(versionWatch) - 1
      /\ \A i \in 1 .. Len(versionWatch') : versionWatch'[i] = versionWatch[i + 1]
  BY <1>1, HeadTailProperties, EmptySeq, LenProperties
<1>3. /\ DOMAIN versionWatch = 1 .. Len(versionWatch)
      /\ DOMAIN versionWatch' = 1 .. Len(versionWatch) - 1
  BY <1>2, LenProperties
<1> HIDE DEF event
<1> SUFFICES ASSUME NEW n \in Names
             PROVE  /\ Current(n)' => versionCache'[n] = versions'[n]
                    /\ \A i \in DOMAIN versionWatch' :
                         LastOf(n, i)' => versionWatch'[i].version = versions'[n]
  BY DEF OwnedTracks
<1>4. ASSUME Current(n)' PROVE versionCache'[n] = versions'[n]
  <2>0. \A j \in DOMAIN versionWatch : versionWatch[j].name = n => j = 1
    <3> SUFFICES ASSUME NEW j \in DOMAIN versionWatch, j # 1
                 PROVE  versionWatch[j].name # n
      OBVIOUS
    <3>1. j - 1 \in DOMAIN versionWatch' /\ (j - 1) + 1 = j
      BY <1>2, <1>3
    <3> QED BY <1>2, <1>3, <1>4, <3>1 DEF Current
  <2>1. CASE event.name = n
    <3>1. LastOf(n, 1) /\ 1 \in DOMAIN versionWatch
      BY <1>2, <1>3, <2>0, <2>1 DEF LastOf
    <3>2. event.version = versions[n]
      BY <1>2, <3>1 DEF OwnedTracks
    <3> QED BY <1>1, <2>1, <3>2
  <2>2. CASE event.name # n
    <3>1. Current(n)
      BY <1>2, <2>0, <2>2 DEF Current
    <3> QED BY <1>1, <2>2, <3>1 DEF OwnedTracks
  <2> QED BY <2>1, <2>2
<1>5. ASSUME NEW i \in DOMAIN versionWatch', LastOf(n, i)'
      PROVE  versionWatch'[i].version = versions'[n]
  <2>1. i + 1 \in DOMAIN versionWatch /\ versionWatch'[i] = versionWatch[i + 1]
    BY <1>2, <1>3
  <2>2. ASSUME NEW j \in DOMAIN versionWatch, versionWatch[j].name = n
        PROVE  j <= i + 1
    <3>1. CASE j = 1
      BY <1>3, <3>1
    <3>2. CASE j # 1
      <4>1. j - 1 \in DOMAIN versionWatch' /\ (j - 1) + 1 = j
        BY <1>2, <1>3, <3>2
      <4>2. j - 1 <= i
        BY <1>2, <1>3, <1>5, <2>2, <4>1 DEF LastOf
      <4> QED BY <1>3, <4>2
    <3> QED BY <3>1, <3>2
  <2>3. LastOf(n, i + 1)
    BY <1>5, <2>1, <2>2 DEF LastOf
  <2> QED BY <1>1, <2>1, <2>3 DEF OwnedTracks
<1> QED BY <1>4, <1>5

(* A step leaves the versions alone, or it writes one; or it is a delivery *)
(* or a restart.                                                           *)
WritesVersion ==
  \E n \in Names, new \in Versions \cup {None} : PutVersion(n, new)

LEMMA EntryWrite ==
  ASSUME IndInv, CreateVersion \/ UpdateVersion
  PROVE  \/ UNCHANGED owned
         \/ /\ CreateVersion /\ versions[Entry.name] = None
            /\ Wanted \in Versions /\ PutVersion(Entry.name, Wanted)
         \/ /\ UpdateVersion /\ Current(Entry.name)
            /\ versionCache[Entry.name] \in Versions
            /\ Updated(versionCache[Entry.name]) \in Versions
            /\ PutVersion(Entry.name, Updated(versionCache[Entry.name]))
<1>1. Parts /\ pc = "version" /\ More
  BY IndInvIs DEF CreateVersion, UpdateVersion
<1>2. Entry.name \in Names /\ Wanted \in Versions
  BY <1>1, EntryType, WantedType DEF Entries
<1>3. CASE CreateVersion
  BY <1>2, <1>3 DEF CreateVersion, WriteVersion
<1>4. CASE UpdateVersion
  <2> DEFINE v == versionCache[Entry.name]
  <2>1. v \in Versions
    BY <1>2, <1>4, Known DEF UpdateVersion
  <2>2. Updated(v) \in Versions
    BY <1>2, <2>1 DEF Updated, Versions
  <2>3. UNCHANGED owned \/ (Current(Entry.name) /\ PutVersion(Entry.name, Updated(v)))
    BY <1>4 DEF UpdateVersion, WriteVersion
  <2> QED BY <1>4, <2>1, <2>2, <2>3
<1> QED BY <1>3, <1>4

LEMMA OtherWrite ==
  ASSUME IndInv, NEW n \in Names,
         \/ VersionReconciled(n) \/ VersionReports(n)
         \/ GarbageCollected(n) \/ UserOfVersion(n)
  PROVE  /\ versions[n] \in Versions
         /\ \E new \in Versions \cup {None} : PutVersion(n, new)
<1>1. versions[n] \in Versions
  BY Known DEF VersionReconciled, VersionReports, GarbageCollected,
               UserOfVersion, IsLive
<1>2. \E new \in Versions \cup {None} : PutVersion(n, new)
  <2>1. CASE VersionReconciled(n) \/ VersionReports(n) \/ GarbageCollected(n)
    BY <1>1, <2>1, LifeTypes
       DEF VersionReconciled, VersionReports, GarbageCollected
  <2>2. CASE UserOfVersion(n)
    BY <1>1, <2>2, LifeTypes DEF UserOfVersion, Versions
  <2> QED BY <2>1, <2>2
<1> QED BY <1>1, <1>2

LEMMA ReconcileWrites ==
  ASSUME Reconcile
  PROVE  UNCHANGED owned \/ CreateVersion \/ UpdateVersion
BY DEF Reconcile, Get, AddFinalizer, GetSet, CreateSet, VersionsDone,
       SaveStatus, ListOwned, GetSetToDelete, DeleteSet, RemoveFinalizer

LEMMA OtherSteps ==
  ASSUME [Next]_vars
  PROVE  \/ UNCHANGED owned
         \/ CreateVersion \/ UpdateVersion
         \/ VersionDeliver \/ Crash
         \/ \E n \in Names : \/ VersionReconciled(n) \/ VersionReports(n)
                             \/ GarbageCollected(n) \/ UserOfVersion(n)
<1>1. ASSUME Environment PROVE UNCHANGED owned \/ Crash
  BY <1>1 DEF Environment, User, Drift, Informer, Delayed, Resynced
<1>2. ASSUME UNCHANGED vars PROVE UNCHANGED owned
  BY <1>2 DEF vars
<1> QED BY <1>1, <1>2, ReconcileWrites DEF Next, OfVersions

LEMMA TracksStep ==
  ASSUME IndInv, OwnedTracks, [Next]_vars
  PROVE  OwnedTracks'
<1>1. CASE UNCHANGED owned
  BY <1>1, TracksUnchanged
<1>2. CASE WritesVersion
  BY <1>2, Known, PutTracks DEF WritesVersion, Events
<1>3. CASE VersionDeliver
  BY <1>3, Known, DeliverTracks DEF Events
<1>4. CASE Crash
  BY <1>4 DEF Crash, OwnedTracks, Current, LastOf
<1>5. CASE CreateVersion \/ UpdateVersion
  <2>1. Entry.name \in Names
    BY <1>5, IndInvIs, EntryType DEF CreateVersion, UpdateVersion, Entries
  <2> QED BY <1>1, <1>2, <1>5, <2>1, EntryWrite DEF WritesVersion
<1>6. ASSUME NEW n \in Names,
             \/ VersionReconciled(n) \/ VersionReports(n)
             \/ GarbageCollected(n) \/ UserOfVersion(n)
      PROVE  OwnedTracks'
  BY <1>2, <1>6, OtherWrite DEF WritesVersion
<1> QED BY <1>1, <1>3, <1>4, <1>5, <1>6, OtherSteps
-----------------------------------------------------------------------------
(* SetIsKnown: the version set is found or created before any version      *)

LEMMA SetStep ==
  ASSUME IndInv, SetIsKnown, [Next]_vars
  PROVE  SetIsKnown'
<1>1. CASE GetSet \/ CreateSet
  <2>1. copy.status \in Statuses
    BY <1>1, Known DEF GetSet, CreateSet, IndInv, StepInv, ClusterInv,
                       Objects, Object
  <2>2. pc' = "version" => Begin
    BY <1>1 DEF GetSet, CreateSet, Retry, Return, Goto
  <2> QED BY <2>1, <2>2 DEF SetIsKnown, Begin, Statuses
<1>2. CASE CreateVersion \/ UpdateVersion
  <2>1. report.set /\ report \in Statuses
    BY <1>2 DEF CreateVersion, UpdateVersion, SetIsKnown, IndInv, StepInv,
                TypeOK, LocalTypeOK
  <2>2. \/ pc' = "idle"
        \/ \E n, status :
             report' \in {report, [report EXCEPT !.states[n] = status]}
    BY <1>2 DEF CreateVersion, UpdateVersion, WriteVersion, Advance, Leave,
                Return
  <2> QED BY <2>1, <2>2 DEF SetIsKnown, Statuses
<1>3. CASE Environment \/ OfVersions \/ UNCHANGED vars
  <2>1. \/ UNCHANGED local /\ pc' = pc
        \/ pc' = "idle"
    BY <1>3 DEF Environment, User, UserCreates, UserEdits, UserDeletes,
                UserWrites, Drift, Informer, Deliver, Delayed, TimerFires,
                Resynced, Resync, Crash, Restart, OfVersions, VersionDeliver,
                VersionReconciled, VersionReports, GarbageCollected,
                UserOfVersion, vars, cluster, worker
  <2> QED BY <2>1 DEF SetIsKnown, local
<1>4. CASE \/ Get \/ AddFinalizer \/ VersionsDone \/ SaveStatus
           \/ ListOwned \/ GetSetToDelete \/ DeleteSet \/ RemoveFinalizer
  <2>1. pc' # "version"
    BY <1>4 DEF Get, Fetch, Skip, Start, AddFinalizer, Finalize, Proceed,
                VersionsDone, SaveStatus, Leave, ListOwned, GetSetToDelete,
                DeleteSet, RemoveFinalizer, LetGo, Retry, Return, Goto, worker
  <2> QED BY <2>1 DEF SetIsKnown
<1> QED BY <1>1, <1>2, <1>3, <1>4 DEF Next, Reconcile

-----------------------------------------------------------------------------
LEMMA OwnedInit == Init => OwnedInv
<1> SUFFICES ASSUME Init PROVE OwnedInv
  OBVIOUS
<1>1. OwnedTracks
  BY DEF Init, OwnedTracks
<1>2. SameApi
  BY DEF Init, ClusterInit, SameApi, Seen, Claims
<1>3. SetIsKnown
  BY DEF Init, ClusterInit, SetIsKnown
<1> QED BY <1>1, <1>2, <1>3 DEF OwnedInv

LEMMA OwnedStep ==
  ASSUME IndInv, OwnedInv, [Next]_vars
  PROVE  OwnedInv'
BY SameStep, TracksStep, SetStep DEF OwnedInv

(* However far the two caches lag behind: what the versions' cache has of  *)
(* a version that can be written is the version stored, and the Api the    *)
(* running Reconcile creates for is the one in the cluster.                *)
THEOREM CachesAreOfTheSame == Spec => []OwnedInv
<1>1. IndInv /\ OwnedInv /\ [Next]_vars => OwnedInv'
  BY OwnedStep
<1> QED BY <1>1, OwnedInit, KeepsToThePath, PTL DEF Spec

-----------------------------------------------------------------------------
(* What becomes of the version at the entry reconcileVersions is at        *)

LEMMA Overwritten ==
  ASSUME IndInv, NEW n \in Names, NEW new, PutVersion(n, new)
  PROVE  /\ versions'[n] = new
         /\ \A m \in Names : m # n => versions'[m] = versions[m]
BY Known DEF PutVersion

LEMMA UseStep ==
  ASSUME IndInv, OwnedInv, Reconcile, NEW n \in Names
  PROVE  AsUsersMay(n) \/ UNCHANGED versions[n]
<1>1. CASE UNCHANGED owned
  BY <1>1 DEF owned
<1>2. CASE CreateVersion \/ UpdateVersion
  <2>0. Entry.name \in Names
    BY <1>2, IndInvIs, EntryType DEF CreateVersion, UpdateVersion, Entries
  <2>1. CASE UNCHANGED owned
    BY <2>1 DEF owned
  <2>2. CASE /\ versions[Entry.name] = None
             /\ Wanted \in Versions /\ PutVersion(Entry.name, Wanted)
    <3>1. CASE n = Entry.name
      <4>1. versions[n] = None /\ versions'[n] = Wanted /\ Wanted # None
        BY <2>0, <2>2, <3>1, Overwritten, NoneIsNoValue
      <4>2. AsSeen(versions[n]) = None
        BY <4>1 DEF AsSeen
      <4>3. /\ AsSeen(versions[n])' =
                 [spec |-> AsSeen(versions[n])'.spec, status |-> "",
                  fin |-> FALSE, del |-> FALSE]
        <5>1. /\ Wanted.status = "" /\ Wanted.fin = FALSE
              /\ Wanted.del = FALSE
          BY DEF Wanted, createApiVersionResource
        <5>2. AsSeen(versions[n])' =
                [spec |-> Wanted.spec, status |-> Wanted.status,
                 fin |-> Wanted.fin, del |-> Wanted.del]
          BY <4>1 DEF AsSeen
        <5>3. AsSeen(versions[n])'.spec = Wanted.spec
          BY <5>2
        <5> QED BY <5>1, <5>2, <5>3
      <4>4. AsSeen(versions[n])' # None
        <5>1. AsSeen(versions[n])' \in SeenVersions
          BY <2>2, <4>1 DEF AsSeen, SeenVersions, Object, Versions
        <5> QED BY <5>1, NoneIsNoValue
      <4>5. Life(n)!ByUsers
        BY <4>2, <4>3, <4>4 DEF Life!ByUsers, Life!Create
      <4> QED BY <4>1, <4>5 DEF AsUsersMay
    <3> QED BY <2>0, <2>2, <3>1, Overwritten
  <2>3. CASE /\ Current(Entry.name)
             /\ versionCache[Entry.name] \in Versions
             /\ Updated(versionCache[Entry.name]) \in Versions
             /\ PutVersion(Entry.name, Updated(versionCache[Entry.name]))
    <3>1. CASE n = Entry.name
      <4> DEFINE v == versions[n]
      <4>1. v \in Versions /\ versions'[n] = Updated(v)
        BY <2>0, <2>3, <3>1, Overwritten DEF OwnedInv, OwnedTracks
      <4>2. /\ v # None /\ Updated(v) # None
            /\ AsSeen(v) \in SeenVersions /\ AsSeen(Updated(v)) \in SeenVersions
        <5>1. Updated(v) \in Versions
          BY <2>0, <2>3, <3>1 DEF OwnedInv, OwnedTracks
        <5> QED BY <4>1, <5>1, NoneIsNoValue
                DEF AsSeen, SeenVersions, Object, Versions
      <4>3. /\ Updated(v).owner = v.owner
            /\ AsSeen(Updated(v)) =
                 [AsSeen(v) EXCEPT !.spec = AsSeen(Updated(v)).spec]
        BY <4>1, <4>2 DEF AsSeen, Updated, Versions
      <4>4. AsSeen(versions[n])' = AsSeen(Updated(v))
        BY <4>1 DEF AsSeen
      <4>5. Life(n)!ByUsers
        BY <4>2, <4>3, <4>4, NoneIsNoValue DEF Life!ByUsers, Life!Edit
      <4> QED BY <4>1, <4>3, <4>5 DEF AsUsersMay, Owner
    <3> QED BY <2>0, <2>3, <3>1, Overwritten
  <2> QED BY <1>2, <2>1, <2>2, <2>3, EntryWrite
<1> QED BY <1>1, <1>2, ReconcileWrites

LEMMA BornStep ==
  ASSUME IndInv, OwnedInv, [Next]_vars, NEW n \in Names, Appears(n)
  PROVE  /\ Held /\ versions'[n].owner = obj.spec.uid
         /\ versions'[n].spec.set
<1>1. ~UNCHANGED owned /\ ~VersionDeliver /\ ~Crash
  BY DEF Appears, owned, VersionDeliver, Crash
<1>2. ASSUME NEW m \in Names,
             \/ VersionReconciled(m) \/ VersionReports(m)
             \/ GarbageCollected(m) \/ UserOfVersion(m)
      PROVE  FALSE
  <2>1. versions[m] # None
    BY <1>2, OtherWrite, NoneIsNoValue
  <2>2. \E new : PutVersion(m, new)
    BY <1>2, OtherWrite
  <2> QED BY <2>1, <2>2, Overwritten DEF Appears
<1>3. CASE CreateVersion \/ UpdateVersion
  <2>1. Entry.name \in Names /\ pc = "version"
    BY <1>3, IndInvIs, EntryType DEF CreateVersion, UpdateVersion, Entries
  <2>2. CASE PutVersion(Entry.name, Wanted)
    <3>1. n = Entry.name /\ versions'[n] = Wanted
      BY <2>1, <2>2, Overwritten DEF Appears
    <3>2. Claims(copy)
      BY <2>1 DEF IndInv, StepInv, PathInv, CreateSteps, ClusterInv, Claims
    <3>3. Wanted.owner = copy.spec.uid /\ Wanted.spec.set = report.set
      BY DEF Wanted, createApiVersionResource
    <3>4. report.set
      BY <2>1 DEF OwnedInv, SetIsKnown
    <3> QED BY <3>1, <3>2, <3>3, <3>4 DEF OwnedInv, SameApi
  <2>3. CASE /\ Current(Entry.name)
             /\ versionCache[Entry.name] \in Versions
             /\ PutVersion(Entry.name, Updated(versionCache[Entry.name]))
    <3>1. versions[Entry.name] # None
      BY <2>1, <2>3, NoneIsNoValue DEF OwnedInv, OwnedTracks
    <3> QED BY <2>1, <2>3, <3>1, Overwritten DEF Appears
  <2> QED BY <1>1, <1>3, <2>2, <2>3, EntryWrite
<1> QED BY <1>1, <1>2, <1>3, OtherSteps

(* The Api's Reconcile keeps to what VersionLife lets a user do to a       *)
(* version, whatever it has not yet heard of.                              *)
THEOREM KeepsToUsersPart == Spec => UsesVersions
<1>1. IndInv /\ OwnedInv /\ [Next]_vars =>
        [Reconcile =>
           \A n \in Names : AsUsersMay(n) \/ UNCHANGED versions[n]]_vars
  BY UseStep
<1> QED BY <1>1, KeepsToThePath, CachesAreOfTheSame, PTL
        DEF Spec, UsesVersions

(* A version comes into being only for the held Api of the cluster, and in *)
(* its version set.                                                        *)
THEOREM VersionsBornToHeldApi == Spec => BornToHeldApi
<1>1. IndInv /\ OwnedInv /\ [Next]_vars =>
        [\A n \in Names :
           Appears(n) =>
             /\ Held /\ versions'[n].owner = obj.spec.uid
             /\ versions'[n].spec.set]_vars
  BY BornStep
<1> QED BY <1>1, KeepsToThePath, CachesAreOfTheSame, PTL
        DEF Spec, BornToHeldApi
=============================================================================
