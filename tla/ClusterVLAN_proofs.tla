------------------------- MODULE ClusterVLAN_proofs -------------------------
(***************************************************************************)
(* Theorems about the VLAN in the status of a LatitudeCluster, for every   *)
(* set of clusters, machines and VLAN IDs and every set of Events that     *)
(* does not let a VLANConfig be edited after the creation.                 *)
(***************************************************************************)
EXTENDS LatitudeCluster_proofs

Used(v) == vlans[v].st # "unused"
Deleted(v) == vlans[v].st = "deleted"

\* v is one of those CreateVLAN finds for c.
MadeFor(v, c) ==
    /\ v \notin Foreign
    /\ vlans[v].creator # None
    /\ DescriptionOf[vlans[v].creator] = DescriptionOf[c]

\* Latitude.sh's VLANs: a deleted one was made by the controller, for a cluster
\* that is being deleted.
VLANsOwned ==
    \A v \in VLANs :
        /\ v \in Foreign => Used(v) /\ vlans[v].creator = None
        /\ v \notin Foreign /\ Used(v) => vlans[v].creator # None
        /\ Deleted(v) /\ "externalDelete" \notin Events =>
             \E c \in Clusters : MadeFor(v, c) /\ stored[c].deleting

\* What a copy o of the object of c says of its VLAN, at whatever time it was
\* read: a ready cluster has recorded VLAN and tag, which go together, and the
\* VLAN is the one that was asked for or one made for c.
Held(o, c) ==
    LET v == o.status.vlanID
        vid == o.status.vlanVID
        existing == o.config.existing
    IN  /\ o.config = stored[c].config
        /\ o.deleting => stored[c].deleting
        /\ o.status.ready /\ o.config.configured => v # None /\ vid # None
        /\ v # None => Used(v)
        /\ existing # None => v \in {None, existing}
        /\ existing = None /\ v # None => MadeFor(v, c)
        /\ "noVID" \notin Events =>
             IF existing = None THEN vid = v ELSE vid \in {None, existing}

\* What o has recorded, p has too, if another VLAN perhaps.
Grows(o, p) ==
    /\ o.status.vlanID # None => p.status.vlanID # None
    /\ o.status.vlanVID # None => p.status.vlanVID # None

Copies ==
    \A c \in Clusters :
        Held(stored[c], c) /\ Held(cached[c], c) /\ Grows(cached[c], stored[c])

\* What holds where the worker is.
Placed ==
    /\ pc = "createVLAN" => obj.config.configured /\ obj.config.existing = None
    /\ pc = "reconciled" /\ obj.config.configured =>
         obj.status.vlanID # None /\ obj.status.vlanVID # None
    /\ pc = "reconcileDelete" => obj.deleting

AtWork(c) ==
    /\ Held(before, c) /\ Held(obj, c)
    /\ Grows(before, obj) /\ Grows(before, stored[c])
    /\ Placed

Records == VLANsOwned /\ Copies /\ (key # None => AtWork(key))

-----------------------------------------------------------------------------
(***************************************************************************)
(* Steps of Latitude.sh and of the API server that leave the records true. *)
(***************************************************************************)

\* A VLAN that is in use keeps its creator.
VLANsKept ==
    \A v \in VLANs :
        Used(v) => Used(v)' /\ UNCHANGED vlans[v].creator

\* No VLANConfig is edited and no deletion withdrawn.
Steady ==
    \A c \in Clusters :
        /\ UNCHANGED stored[c].config
        /\ stored[c].deleting => stored'[c].deleting

LEMMA HeldKept ==
    ASSUME NEW c \in Clusters, NEW o \in Object, Held(o, c), Steady, VLANsKept
    PROVE  Held(o, c)'
<1>1. /\ stored'[c].config = stored[c].config
      /\ stored[c].deleting => stored'[c].deleting
  BY DEF Steady
<1>2. o.status.vlanID \in VLANs \union {None}
  BY DEF Object, Status
<1>3. o.status.vlanID # None /\ Used(o.status.vlanID) =>
        /\ Used(o.status.vlanID)'
        /\ UNCHANGED vlans[o.status.vlanID].creator
  BY <1>2 DEF VLANsKept
<1> QED BY <1>1, <1>3 DEF Held, MadeFor

LEMMA SameVLANsKept ==
    ASSUME UNCHANGED vlans
    PROVE  VLANsKept
BY DEF VLANsKept, Used

LEMMA SameVLANsOwned ==
    ASSUME VLANsOwned, Steady, UNCHANGED vlans
    PROVE  VLANsOwned'
BY DEF VLANsOwned, Steady, Used, Deleted, MadeFor

LEMMA SameStoredSteady ==
    ASSUME UNCHANGED stored
    PROVE  Steady
BY DEF Steady

LEMMA CopiesKept ==
    ASSUME TypeOK, Copies, UNCHANGED api, VLANsKept
    PROVE  Copies'
<1> SUFFICES ASSUME NEW c \in Clusters
             PROVE  (Held(stored[c], c) /\ Held(cached[c], c) /\ Grows(cached[c], stored[c]))'
  BY DEF Copies
<1>1. /\ stored[c] \in Object /\ cached[c] \in Object
      /\ UNCHANGED <<stored, cached>> /\ Steady
  BY SameStoredSteady DEF TypeOK, api
<1>2. PICK o, p : o = stored[c] /\ p = cached[c]
  OBVIOUS
<1>3. Held(o, c) /\ Held(p, c) /\ Grows(p, o)
  BY <1>2 DEF Copies
<1>4. Held(o, c)' /\ Held(p, c)'
  BY <1>1, <1>2, <1>3, HeldKept
<1>5. stored'[c] = o /\ cached'[c] = p
  BY <1>1, <1>2
<1> QED BY <1>3, <1>4, <1>5 DEF Held, Grows

\* A handler leaves the API server and the cache alone: what it has to answer
\* for is the worker's object.
LEMMA HandlerRecords ==
    ASSUME TypeOK, Records, NEW c \in Clusters, c = key,
           UNCHANGED <<api, key, before>>, VLANsKept, VLANsOwned',
           NEW o, obj' = o, Held(o, c)', Grows(before, o), Placed'
    PROVE  Records'
<1>1. Copies'
  BY CopiesKept DEF Records
<1>2. /\ key # None /\ before \in Object
      /\ Steady /\ UNCHANGED stored
  BY SameStoredSteady, ClusterAssumption DEF TypeOK, api
<1>3. PICK b : b = before
  OBVIOUS
<1>4. Held(b, c) /\ Grows(b, stored[c])
  BY <1>2, <1>3 DEF Records, AtWork
<1>5. Held(b, c)'
  BY <1>2, <1>3, <1>4, HeldKept
<1>6. AtWork(c)'
  BY <1>2, <1>3, <1>4, <1>5 DEF AtWork, Held, Grows
<1> QED BY <1>1, <1>6 DEF Records

(***************************************************************************)
(* The handlers.                                                           *)
(***************************************************************************)

\* o and p differ in nothing that Held speaks of.
SameRecord(o, p) ==
    /\ o.config = p.config
    /\ o.deleting = p.deleting
    /\ o.status.ready = p.status.ready
    /\ o.status.vlanID = p.status.vlanID
    /\ o.status.vlanVID = p.status.vlanVID

LEMMA SameRecordHeld ==
    ASSUME NEW c, NEW o, NEW p, SameRecord(o, p), Held(p, c)
    PROVE  Held(o, c)
BY DEF SameRecord, Held

LEMMA ConditionRecord ==
    ASSUME NEW o \in Object, NEW r
    PROVE  SameRecord(SetCondition(o, r), o)
<1> DEFINE s == [o.status EXCEPT !.condition = r]
<1>1. /\ s.ready = o.status.ready
      /\ s.vlanID = o.status.vlanID /\ s.vlanVID = o.status.vlanVID
  BY DEF Object, Status
<1>2. SetCondition(o, r) = [o EXCEPT !.status = s]
  BY DEF SetCondition
<1> HIDE DEF s
<1> QED BY <1>1, <1>2 DEF SameRecord, Object

LEMMA FinalizerRecord ==
    ASSUME NEW o \in Object, NEW f
    PROVE  SameRecord([o EXCEPT !.finalizer = f], o)
BY DEF SameRecord, Object

\* The worker and its key, as names that stay when the step is taken.
LEMMA WorkerHolds ==
    ASSUME TypeOK, Records, pc # "idle"
    PROVE  \E c \in Clusters :
             /\ c = key /\ AtWork(c)
             /\ Held(obj, c) /\ Grows(before, obj)
BY AtWorkType DEF Records, AtWork

LEMMA ReconcileNormalRecords ==
    ASSUME TypeOK, Records, ReconcileNormal
    PROVE  Records'
<1>1. /\ pc # "idle"
      /\ UNCHANGED <<api, key, before, vlans>>
      /\ pc' \in {"patchObject", "reconcileVLAN"}
  BY DEF ReconcileNormal, AddFinalizer, RejectSpec, LocationFound,
         LocationNotFound, MarkReady, KeepEndpoint, SetEndpoint, WaitForHost,
         Discovering, InfrastructureFails, Return, GoOn
<1>2. PICK c \in Clusters :
        /\ c = key /\ AtWork(c)
        /\ Held(obj, c) /\ Grows(before, obj)
  BY <1>1, WorkerHolds
<1>3. obj \in Object /\ obj.status \in Status
  BY <1>1, AtWorkType
<1>4. PICK o \in Object : o = obj'
  BY ReconcileNormalType DEF TypeOK
<1>5. Held(o, c) /\ Grows(before, o)
  <2>1. CASE SameRecord(o, obj)
    BY <1>2, <2>1, SameRecordHeld DEF SameRecord, Grows
  <2>2. CASE AddFinalizer
    BY <1>3, <1>4, <2>1, <2>2, FinalizerRecord DEF AddFinalizer, Return
  <2>3. CASE RejectSpec \/ LocationNotFound
    BY <1>3, <1>4, <2>1, <2>3, ConditionRecord
       DEF RejectSpec, LocationNotFound, InfrastructureFails, Return
  <2>4. CASE LocationFound \/ KeepEndpoint \/ WaitForHost
    BY <1>4, <2>1, <2>4
       DEF LocationFound, KeepEndpoint, WaitForHost, Return, GoOn, SameRecord
  <2>5. CASE MarkReady
    <3> DEFINE p == [obj EXCEPT !.status.ready = TRUE]
    <3>1. /\ p \in Object
          /\ p.config = obj.config /\ p.deleting = obj.deleting
          /\ p.status.vlanID = obj.status.vlanID
          /\ p.status.vlanVID = obj.status.vlanVID
      BY <1>3 DEF Object, Status
    <3>2. o = SetCondition(p, "ClusterReady")
      BY <1>4, <2>5 DEF MarkReady, Return
    <3>3. obj.config.configured =>
            obj.status.vlanID # None /\ obj.status.vlanVID # None
      BY <1>2, <2>5 DEF MarkReady, AtWork, Placed
    <3> HIDE DEF p
    <3>4. SameRecord(o, p)
      BY <3>1, <3>2, ConditionRecord
    <3>5. Held(p, c) /\ Grows(before, p)
      BY <1>2, <3>1, <3>3 DEF Held, Grows
    <3> QED BY <3>4, <3>5, SameRecordHeld DEF SameRecord, Grows
  <2>6. ASSUME NEW h \in Hosts, SetEndpoint(h)
        PROVE  Held(o, c) /\ Grows(before, o)
    <3> DEFINE p == [obj EXCEPT !.status.endpoint = h]
    <3>1. p \in Object /\ SameRecord(p, obj)
      BY <1>3 DEF Object, Status, SameRecord
    <3>2. o = SetCondition(p, "ControlPlaneEndpointSet")
      BY <1>4, <2>6 DEF SetEndpoint, Return
    <3> HIDE DEF p
    <3>3. SameRecord(o, p)
      BY <3>1, <3>2, ConditionRecord
    <3> QED BY <2>1, <3>1, <3>3 DEF SameRecord
  <2> QED BY <2>2, <2>3, <2>4, <2>5, <2>6 DEF ReconcileNormal
<1>6. Held(o, c)' /\ VLANsKept /\ VLANsOwned'
  BY <1>1, <1>5, HeldKept, SameStoredSteady, SameVLANsKept, SameVLANsOwned
     DEF Records, api
<1>7. Placed'
  BY <1>1 DEF Placed
<1> QED BY <1>1, <1>2, <1>4, <1>5, <1>6, <1>7, HandlerRecords

LEMMA VLANDeleted ==
    ASSUME TypeOK, VLANsOwned, UNCHANGED stored, NEW v \in VLANs, Used(v),
           vlans' = [vlans EXCEPT ![v].st = "deleted"],
           \/ "externalDelete" \in Events
           \/ \E c \in Clusters : MadeFor(v, c) /\ stored[c].deleting
    PROVE  VLANsKept /\ VLANsOwned'
<1>1. /\ vlans \in [VLANs -> VLAN]
      /\ \A w \in VLANs : w # v => vlans'[w] = vlans[w]
      /\ vlans'[v].st = "deleted" /\ vlans'[v].creator = vlans[v].creator
  BY DEF TypeOK, VLAN
<1>2. VLANsKept
  BY <1>1 DEF VLANsKept, Used
<1>3. ASSUME NEW w \in VLANs
      PROVE  /\ w \in Foreign => vlans'[w].st # "unused" /\ vlans'[w].creator = None
             /\ w \notin Foreign /\ vlans'[w].st # "unused" =>
                  vlans'[w].creator # None
             /\ vlans'[w].st = "deleted" /\ "externalDelete" \notin Events =>
                  \E c \in Clusters :
                    /\ w \notin Foreign /\ vlans'[w].creator # None
                    /\ DescriptionOf[vlans'[w].creator] = DescriptionOf[c]
                    /\ stored[c].deleting
  <2>1. CASE w # v
    BY <1>1, <2>1 DEF VLANsOwned, Used, Deleted, MadeFor
  <2>2. CASE w = v
    BY <1>1, <2>2 DEF VLANsOwned, Used, MadeFor
  <2> QED BY <2>1, <2>2
<1> QED BY <1>2, <1>3 DEF VLANsOwned, Used, Deleted, MadeFor

LEMMA ReconcileDeleteRecords ==
    ASSUME TypeOK, Records, ReconcileDelete
    PROVE  Records'
<1>1. /\ pc = "reconcileDelete" /\ pc' = "patchObject"
      /\ obj' = [obj EXCEPT !.finalizer = FALSE]
      /\ UNCHANGED <<api, key, before>>
  BY DEF ReconcileDelete, SkipCleanup, CleanupVLAN, DeletionDone, Return
<1>2. PICK c \in Clusters :
        /\ c = key /\ AtWork(c)
        /\ Held(obj, c) /\ Grows(before, obj)
  BY <1>1, WorkerHolds
<1>3. obj \in Object /\ obj.status \in Status
  BY <1>1, AtWorkType
<1>4. PICK o \in Object : o = obj'
  BY ReconcileDeleteType DEF TypeOK
<1>5. Held(o, c) /\ Grows(before, o)
  BY <1>1, <1>2, <1>3, <1>4, FinalizerRecord, SameRecordHeld DEF SameRecord, Grows
<1>6. VLANsKept /\ VLANsOwned'
  <2>1. CASE UNCHANGED vlans
    BY <1>1, <2>1, SameStoredSteady, SameVLANsKept, SameVLANsOwned
       DEF Records, api
  <2>2. CASE OwnsVLAN /\ vlans' = [vlans EXCEPT ![obj.status.vlanID].st = "deleted"]
    <3>1. obj.status.vlanID \in VLANs /\ Used(obj.status.vlanID)
      BY <1>2, <1>3, <2>2 DEF OwnsVLAN, Status, Held
    <3>2. MadeFor(obj.status.vlanID, c) /\ stored[c].deleting
      BY <1>1, <1>2, <2>2 DEF OwnsVLAN, Held, AtWork, Placed
    <3> QED BY <1>1, <2>2, <3>1, <3>2, VLANDeleted DEF Records, api
  <2> QED BY <2>1, <2>2 DEF ReconcileDelete, SkipCleanup, CleanupVLAN
<1>7. Held(o, c)'
  BY <1>1, <1>5, <1>6, HeldKept, SameStoredSteady DEF api
<1>8. Placed'
  BY <1>1 DEF Placed
<1> QED BY <1>1, <1>2, <1>4, <1>5, <1>6, <1>7, <1>8, HandlerRecords

LEMMA RecordVLANFields ==
    ASSUME NEW o \in Object, NEW v \in VLANs, NEW vid
    PROVE  /\ RecordVLAN(o, v, vid).config = o.config
           /\ RecordVLAN(o, v, vid).deleting = o.deleting
           /\ RecordVLAN(o, v, vid).status.ready = o.status.ready
           /\ RecordVLAN(o, v, vid).status.vlanID = v
           /\ RecordVLAN(o, v, vid).status.vlanVID = vid
BY DEF RecordVLAN, Object, Status

\* A reply about a VLAN that may be recorded.
LEMMA RecordVLANHeld ==
    ASSUME NEW c, NEW o \in Object, Held(o, c), NEW v \in VLANs,
           NEW vid \in VIDs(v), Used(v),
           IF o.config.existing = None THEN MadeFor(v, c) ELSE v = o.config.existing
    PROVE  /\ Held(RecordVLAN(o, v, vid), c)
           /\ v # None /\ vid # None
<1>1. v # None /\ vid # None /\ ("noVID" \notin Events => vid = v)
  BY ClusterAssumption DEF VIDs
<1> DEFINE p == RecordVLAN(o, v, vid)
<1>2. /\ p.config = o.config /\ p.deleting = o.deleting
      /\ p.status.ready = o.status.ready
      /\ p.status.vlanID = v /\ p.status.vlanVID = vid
  BY RecordVLANFields
<1> HIDE DEF p
<1>3. Held(p, c)
  BY <1>1, <1>2 DEF Held
<1> QED BY <1>1, <1>3 DEF p

\* What the steps of reconcileVLAN have to show, for c = key and o the object
\* they leave: what is recorded is true, and what is not is not relied upon.
Recorded(o, c) ==
    /\ Held(o, c) /\ Grows(obj, o)
    /\ \/ pc' = "patchObject"
       \/ /\ pc' = "createVLAN"
          /\ o.config.configured /\ o.config.existing = None
       \/ /\ pc' = "reconciled"
          /\ o.config.configured =>
               o.status.vlanID # None /\ o.status.vlanVID # None

LEMMA UseExistingVLANRecords ==
    ASSUME TypeOK, VLANsOwned, NEW c \in Clusters, Held(obj, c),
           UseExistingVLAN, NEW o \in Object, o = obj'
    PROVE  Recorded(o, c)
<1>1. obj \in Object /\ obj.status \in Status
  BY AtWorkType DEF UseExistingVLAN, AtVLAN
<1>2. PICK v \in VLANs : v = obj.config.existing /\ v \in Foreign /\ v # None
  BY <1>1, ClusterAssumption DEF UseExistingVLAN, Object, Config
<1>3. Used(v)
  BY <1>2 DEF VLANsOwned
<1> DEFINE p == [obj EXCEPT !.status.vlanID = v]
<1>4. /\ p \in Object
      /\ p.config = obj.config /\ p.deleting = obj.deleting
      /\ p.status.ready = obj.status.ready
      /\ p.status.vlanID = v /\ p.status.vlanVID = obj.status.vlanVID
  BY <1>1 DEF Object, Status
<1>5. \/ obj.status.vlanVID # None /\ GoOn(p, "reconciled")
      \/ \E vid \in VIDs(v) : GoOn(RecordVLAN(obj, v, vid), "reconciled")
      \/ InfrastructureFails(p)
  BY <1>2 DEF UseExistingVLAN
<1> HIDE DEF p
<1>6. Held(p, c) /\ Grows(obj, p)
  BY <1>2, <1>3, <1>4 DEF Held, Grows
<1>7. CASE obj.status.vlanVID # None /\ GoOn(p, "reconciled")
  BY <1>2, <1>4, <1>6, <1>7 DEF GoOn, Recorded
<1>8. ASSUME NEW vid \in VIDs(v), GoOn(RecordVLAN(obj, v, vid), "reconciled")
      PROVE  Recorded(o, c)
  <2>1. o = RecordVLAN(obj, v, vid) /\ pc' = "reconciled"
    BY <1>8 DEF GoOn
  <2>2. Held(o, c) /\ v # None /\ vid # None
    BY <1>1, <1>2, <1>3, <2>1, RecordVLANHeld
  <2>3. o.status.vlanID = v /\ o.status.vlanVID = vid
    BY <1>1, <2>1, RecordVLANFields
  <2> QED BY <2>1, <2>2, <2>3 DEF Recorded, Grows
<1>9. CASE InfrastructureFails(p)
  <2>1. SameRecord(o, p) /\ pc' = "patchObject"
    BY <1>4, <1>9, ConditionRecord DEF InfrastructureFails, Return
  <2>2. Held(o, c)
    BY <1>6, <2>1, SameRecordHeld
  <2> QED BY <1>6, <2>1, <2>2 DEF Recorded, Grows, SameRecord
<1> QED BY <1>5, <1>7, <1>8, <1>9

LEMMA VLANFoundRecords ==
    ASSUME TypeOK, NEW c \in Clusters, Held(obj, c),
           VLANFound, NEW o \in Object, o = obj'
    PROVE  Recorded(o, c)
<1>1. /\ obj \in Object /\ obj.status \in Status
      /\ obj.status.vlanID # None /\ obj.config.existing = None
  BY AtWorkType DEF VLANFound, OwnVLAN, AtVLAN, RecordedVLANLives
<1>2. PICK vid \in VIDs(obj.status.vlanID) :
        GoOn([obj EXCEPT !.status.vlanVID = IF @ = None THEN vid ELSE @],
             "reconciled")
  BY DEF VLANFound
<1> DEFINE w == IF obj.status.vlanVID = None THEN vid ELSE obj.status.vlanVID
<1>3. vid # None
  BY <1>1, <1>2, ClusterAssumption DEF VIDs, Status
<1>4. "noVID" \notin Events => w = obj.status.vlanID
  BY <1>1 DEF Held
<1>5. w # None
  BY <1>3
<1>6. o = [obj EXCEPT !.status.vlanVID = w] /\ pc' = "reconciled"
  BY <1>2 DEF GoOn
<1> HIDE DEF w
<1>7. /\ o.config = obj.config /\ o.deleting = obj.deleting
      /\ o.status.ready = obj.status.ready
      /\ o.status.vlanID = obj.status.vlanID /\ o.status.vlanVID = w
  BY <1>1, <1>6 DEF Object, Status
<1>8. Held(o, c)
  BY <1>1, <1>4, <1>5, <1>7 DEF Held
<1> QED BY <1>1, <1>5, <1>6, <1>7, <1>8 DEF Recorded, Grows

LEMMA AdoptVLANRecords ==
    ASSUME TypeOK, VLANsOwned, NEW c \in Clusters, c = key, Held(obj, c), Placed,
           NEW v \in VLANs, AdoptVLAN(v), NEW o \in Object, o = obj'
    PROVE  Recorded(o, c)
<1>1. /\ obj \in Object /\ obj.config.existing = None
      /\ Used(v) /\ MadeFor(v, c)
  BY AtWorkType DEF AdoptVLAN, Placed, VLANsFor, VLANsOwned, Used, MadeFor
<1>2. PICK vid \in VIDs(v) : GoOn(RecordVLAN(obj, v, vid), "reconciled")
  BY DEF AdoptVLAN
<1>3. o = RecordVLAN(obj, v, vid) /\ pc' = "reconciled"
  BY <1>2 DEF GoOn
<1>4. Held(o, c) /\ v # None /\ vid # None
  BY <1>1, <1>3, RecordVLANHeld
<1>5. o.status.vlanID = v /\ o.status.vlanVID = vid
  BY <1>1, <1>3, RecordVLANFields
<1> QED BY <1>3, <1>4, <1>5 DEF Recorded, Grows

LEMMA StoreVLANKeeps ==
    ASSUME TypeOK, VLANsOwned, UNCHANGED stored, NEW v \in VLANs, StoreVLAN(v)
    PROVE  /\ VLANsKept /\ VLANsOwned'
           /\ v \notin Foreign
           /\ vlans'[v].st = "live" /\ vlans'[v].creator = key
<1>1. /\ key \in Clusters /\ key # None
      /\ vlans \in [VLANs -> VLAN]
      /\ vlans' = [vlans EXCEPT ![v] = [st |-> "live", creator |-> key]]
      /\ ~Used(v)
  BY AtWorkType DEF StoreVLAN, TypeOK, Used
<1>2. /\ \A w \in VLANs : w # v => vlans'[w] = vlans[w]
      /\ vlans'[v].st = "live" /\ vlans'[v].creator = key
  BY <1>1
<1>3. VLANsKept
  BY <1>1, <1>2 DEF VLANsKept, Used
<1>4. v \notin Foreign
  BY <1>1 DEF VLANsOwned
<1>5. VLANsOwned'
  BY <1>1, <1>2, <1>4 DEF VLANsOwned, Used, Deleted, MadeFor
<1> QED BY <1>2, <1>3, <1>4, <1>5

LEMMA CreateVLANRecords ==
    ASSUME TypeOK, Records, NEW v \in VLANs, CreateVLAN(v) \/ CreateVLANReplyLost(v)
    PROVE  Records'
<1>1. StoreVLAN(v) /\ pc = "createVLAN" /\ UNCHANGED <<api, key, before>>
  BY DEF CreateVLAN, CreateVLANReplyLost, StoreVLAN, InfrastructureFails, Return,
         GoOn
<1>2. PICK c \in Clusters :
        /\ c = key /\ AtWork(c)
        /\ Held(obj, c) /\ Grows(before, obj)
  BY <1>1, WorkerHolds
<1>3. /\ VLANsKept /\ VLANsOwned' /\ Steady
      /\ v \notin Foreign
      /\ vlans'[v].st = "live" /\ vlans'[v].creator = c /\ c # None
  BY <1>1, <1>2, StoreVLANKeeps, SameStoredSteady, AtWorkType DEF Records, api
<1>4. PICK p \in Object : p = obj
  BY <1>1, AtWorkType
<1>5. Held(p, c) /\ Held(p, c)' /\ p.config.existing = None
  BY <1>1, <1>2, <1>3, <1>4, HeldKept DEF AtWork, Placed
<1>6. PICK o \in Object : o = obj'
  BY ReconcileVLANType DEF TypeOK, ReconcileVLAN
<1>7. CASE CreateVLAN(v)
  <2>1. PICK vid \in VIDs(v) : GoOn(RecordVLAN(p, v, vid), "reconciled")
    BY <1>4, <1>7 DEF CreateVLAN
  <2>2. o = RecordVLAN(p, v, vid) /\ pc' = "reconciled"
    BY <1>6, <2>1 DEF GoOn
  <2>3. /\ o.config = p.config /\ o.deleting = p.deleting
        /\ o.status.ready = p.status.ready
        /\ o.status.vlanID = v /\ o.status.vlanVID = vid
    BY <2>2, RecordVLANFields
  <2>4. v # None /\ vid # None /\ ("noVID" \notin Events => vid = v)
    BY ClusterAssumption DEF VIDs
  <2>5. Held(o, c)'
    BY <1>3, <1>5, <2>3, <2>4 DEF Held, Used, MadeFor
  <2>6. Grows(before, o) /\ Placed'
    BY <1>6, <2>2, <2>3, <2>4 DEF Grows, Placed
  <2> QED BY <1>1, <1>2, <1>3, <1>6, <2>5, <2>6, HandlerRecords
<1>8. CASE CreateVLANReplyLost(v)
  <2>1. SameRecord(o, p) /\ pc' = "patchObject"
    BY <1>4, <1>6, <1>8, ConditionRecord
       DEF CreateVLANReplyLost, InfrastructureFails, Return
  <2>2. Held(o, c)'
    BY <1>5, <2>1 DEF SameRecord, Held
  <2>3. Grows(before, o) /\ Placed'
    BY <1>2, <1>4, <2>1 DEF SameRecord, Grows, Placed
  <2> QED BY <1>1, <1>2, <1>3, <1>6, <2>2, <2>3, HandlerRecords
<1> QED BY <1>7, <1>8

LEMMA ReconcileVLANRecords ==
    ASSUME TypeOK, Records, ReconcileVLAN
    PROVE  Records'
<1>1. CASE \E v \in VLANs : CreateVLAN(v) \/ CreateVLANReplyLost(v)
  BY <1>1, CreateVLANRecords
<1>2. CASE \/ NoVLAN \/ UseExistingVLAN \/ VLANFound \/ VLANWanted
           \/ \E v \in VLANs : AdoptVLAN(v)
           \/ CreateVLANFails
  <2>1. /\ pc # "idle"
        /\ UNCHANGED <<api, key, before, vlans>>
    BY <1>2 DEF NoVLAN, UseExistingVLAN, VLANFound, VLANWanted, AdoptVLAN,
                CreateVLANFails, OwnVLAN, AtVLAN, InfrastructureFails, Return, GoOn
  <2>2. PICK c \in Clusters :
          /\ c = key /\ AtWork(c)
          /\ Held(obj, c) /\ Grows(before, obj)
    BY <2>1, WorkerHolds
  <2>3. obj \in Object
    BY <2>1, AtWorkType
  <2>4. PICK o \in Object : o = obj'
    BY ReconcileVLANType DEF TypeOK
  <2>5. Recorded(o, c)
    <3>1. CASE NoVLAN \/ VLANWanted
      BY <2>2, <2>4, <3>1
         DEF NoVLAN, VLANWanted, OwnVLAN, GoOn, Recorded, Grows
    <3>2. CASE CreateVLANFails
      <4>1. SameRecord(o, obj) /\ pc' = "patchObject"
        BY <2>3, <2>4, <3>2, ConditionRecord
           DEF CreateVLANFails, InfrastructureFails, Return
      <4> QED BY <2>2, <4>1, SameRecordHeld DEF Recorded, Grows, SameRecord
    <3> QED BY <1>2, <2>2, <2>4, <3>1, <3>2, UseExistingVLANRecords,
               VLANFoundRecords, AdoptVLANRecords DEF Records, AtWork
  <2>6. Held(o, c)' /\ VLANsKept /\ VLANsOwned'
    BY <2>1, <2>5, HeldKept, SameStoredSteady, SameVLANsKept, SameVLANsOwned
       DEF Records, Recorded, api
  <2>7. Grows(before, o) /\ Placed'
    BY <2>2, <2>4, <2>5 DEF Recorded, Grows, Placed
  <2> QED BY <2>1, <2>2, <2>4, <2>6, <2>7, HandlerRecords
<1> QED BY <1>1, <1>2 DEF ReconcileVLAN

(***************************************************************************)
(* The patch, the watch and everybody else.                                *)
(***************************************************************************)

\* A step that writes at the API server, to no VLAN.
LEMMA WriteCopies ==
    ASSUME TypeOK, Copies, UNCHANGED <<cached, vlans>>, Steady,
           \A c \in Clusters : Held(stored[c], c)' /\ Grows(stored[c], stored'[c])
    PROVE  Copies'
<1> SUFFICES ASSUME NEW c \in Clusters
             PROVE  (/\ Held(stored[c], c) /\ Held(cached[c], c)
                     /\ Grows(cached[c], stored[c]))'
  BY DEF Copies
<1>1. PICK p \in Object : p = cached[c]
  BY DEF TypeOK
<1>2. Held(p, c)' /\ p = cached'[c]
  BY <1>1, HeldKept, SameVLANsKept DEF Copies
<1>3. Grows(cached[c], stored[c]) /\ Grows(stored[c], stored'[c])
  BY DEF Copies
<1>4. Grows(cached[c], stored'[c])
  BY <1>3 DEF Grows
<1> QED BY <1>2, <1>4 DEF Held, Grows

\* What the worker holds stays true while others write what Held does not speak
\* of.
LEMMA WriteRecords ==
    ASSUME TypeOK, Records, UNCHANGED <<cached, vlans>>, Steady,
           \A c \in Clusters :
             /\ stored'[c].status.ready = stored[c].status.ready
             /\ stored'[c].status.vlanID = stored[c].status.vlanID
             /\ stored'[c].status.vlanVID = stored[c].status.vlanVID,
           UNCHANGED <<key, before, obj>>, key # None => Placed'
    PROVE  Records'
<1>1. \A c \in Clusters : Held(stored[c], c)' /\ Grows(stored[c], stored'[c])
  <2> SUFFICES ASSUME NEW c \in Clusters
               PROVE  Held(stored[c], c)' /\ Grows(stored[c], stored'[c])
    OBVIOUS
  <2>1. PICK o \in Object : o = stored[c]
    BY DEF TypeOK
  <2>2. Held(o, c)'
    BY <2>1, HeldKept, SameVLANsKept DEF Records, Copies
  <2>3. stored'[c].config = o.config
    BY <2>1 DEF Steady
  <2> QED BY <2>1, <2>2, <2>3 DEF Held, Grows
<1>2. Copies' /\ VLANsOwned'
  BY <1>1, WriteCopies, SameVLANsOwned DEF Records
<1>3. ASSUME key # None
      PROVE  AtWork(key)'
  <2>1. PICK c \in Clusters, b \in Object, o \in Object :
          c = key /\ b = before /\ o = obj
    BY <1>3 DEF TypeOK
  <2>2. /\ Held(b, c) /\ Held(o, c)
        /\ Grows(b, o) /\ Grows(b, stored[c])
    BY <1>3, <2>1 DEF Records, AtWork
  <2>3. Held(b, c)' /\ Held(o, c)'
    BY <2>2, HeldKept, SameVLANsKept
  <2>4. Grows(b, stored'[c])
    BY <2>2 DEF Grows
  <2>5. AtWork(c)'
    BY <1>3, <2>1, <2>2, <2>3, <2>4 DEF AtWork, Held, Grows
  <2> QED BY <2>1, <2>5
<1> QED BY <1>2, <1>3 DEF Records

LEMMA RestRecords ==
    ASSUME VLANsOwned', Copies', key' = None
    PROVE  Records'
BY DEF Records

\* A patch of the status leaves a true record, from whatever copy it was made.
LEMMA MergeStatusHeld ==
    ASSUME TypeOK, NEW c \in Clusters,
           NEW b \in Object, NEW a \in Object, NEW p \in Object, NEW s,
           p = stored[c], s = MergeStatus(b.status, a.status, p.status),
           Held(b, c), Held(a, c), Held(p, c), Grows(b, a), Grows(b, p)
    PROVE  /\ Held([p EXCEPT !.status = s], c)
           /\ Grows(p, [p EXCEPT !.status = s])
<1> DEFINE q == [p EXCEPT !.status = s]
<1>1. /\ q.config = p.config /\ q.deleting = p.deleting
      /\ q.status = s
  BY DEF Object
<1>2. /\ s.ready = Merged(b.status.ready, a.status.ready, p.status.ready)
      /\ s.vlanID = Merged(b.status.vlanID, a.status.vlanID, p.status.vlanID)
      /\ s.vlanVID = Merged(b.status.vlanVID, a.status.vlanVID, p.status.vlanVID)
  BY DEF MergeStatus
<1>3. a.config = p.config /\ b.config = p.config
  BY DEF Held
<1> HIDE DEF q
<1>4. Grows(p, q)
  BY <1>1, <1>2 DEF Grows, Merged
<1>5. Grows(a, q)
  BY <1>1, <1>2 DEF Grows, Merged
<1>6. q.status.ready /\ q.config.configured =>
        q.status.vlanID # None /\ q.status.vlanVID # None
  BY <1>1, <1>2, <1>3, <1>4, <1>5 DEF Held, Grows, Merged
<1>7. \/ q.status.vlanID = a.status.vlanID /\ a.status.vlanID # b.status.vlanID
      \/ q.status.vlanID = p.status.vlanID /\ a.status.vlanID = b.status.vlanID
  BY <1>1, <1>2 DEF Merged
<1>8. \/ q.status.vlanVID = a.status.vlanVID /\ a.status.vlanVID # b.status.vlanVID
      \/ q.status.vlanVID = p.status.vlanVID /\ a.status.vlanVID = b.status.vlanVID
  BY <1>1, <1>2 DEF Merged
<1>9. "noVID" \notin Events =>
        IF p.config.existing = None
        THEN q.status.vlanVID = q.status.vlanID
        ELSE q.status.vlanVID \in {None, p.config.existing}
  BY <1>3, <1>7, <1>8 DEF Held
<1>10. Held(q, c)
  <2>1. /\ q.config = stored[c].config
        /\ q.deleting => stored[c].deleting
    BY <1>1
  <2>2. /\ q.status.vlanID # None => Used(q.status.vlanID)
        /\ q.config.existing # None =>
             q.status.vlanID \in {None, q.config.existing}
        /\ q.config.existing = None /\ q.status.vlanID # None =>
             MadeFor(q.status.vlanID, c)
    BY <1>1, <1>3, <1>7 DEF Held
  <2> QED BY <1>1, <1>6, <1>9, <2>1, <2>2 DEF Held
<1> QED BY <1>4, <1>10 DEF q

LEMMA PatchRecords ==
    ASSUME TypeOK, Records, Patch
    PROVE  Records'
<1>1. pc # "idle" /\ UNCHANGED <<cached, vlans>>
  BY DEF Patch, PatchObject, SkipPatchObject, PatchObjectFails, PatchStatus,
         SkipPatchStatus, PatchStatusFails, api
<1>2. PICK c \in Clusters : c = key /\ c # None /\ AtWork(c)
  BY <1>1, AtWorkType DEF Records
<1>3. /\ stored \in [Clusters -> Object] /\ stored[c] \in Object
      /\ before \in Object /\ obj \in Object
  BY <1>1, <1>2, AtWorkType
<1>4. CASE PatchObject
  <2> DEFINE o == MergeSpec(before, obj, stored[c])
  <2>1. /\ stored' = [stored EXCEPT ![c] = o]
        /\ pc' = "patchStatus" /\ UNCHANGED <<key, before, obj>>
    BY <1>2, <1>4 DEF PatchObject, GoOn
  <2>2. /\ o.status = stored[c].status /\ o.config = stored[c].config
        /\ o.deleting = stored[c].deleting
    BY <1>3 DEF MergeSpec, Object
  <2> HIDE DEF o
  <2>3. \A d \in Clusters : /\ stored'[d].status = stored[d].status
                            /\ stored'[d].config = stored[d].config
                            /\ stored'[d].deleting = stored[d].deleting
    BY <1>3, <2>1, <2>2
  <2>4. Steady /\ Placed'
    BY <2>1, <2>3 DEF Steady, Placed
  <2> QED BY <1>1, <2>1, <2>3, <2>4, WriteRecords
<1>5. CASE SkipPatchObject \/ PatchObjectFails
  <2>1. pc' = "patchStatus" /\ UNCHANGED <<stored, key, before, obj>>
    BY <1>5 DEF SkipPatchObject, PatchObjectFails, GoOn, api
  <2>2. Steady /\ Placed'
    BY <2>1, SameStoredSteady DEF Placed
  <2> QED BY <1>1, <2>1, <2>2, WriteRecords
<1>6. CASE PatchStatus
  <2>1. PICK b, a, p, s :
          /\ b \in Object /\ a \in Object /\ p \in Object
          /\ b = before /\ a = obj /\ p = stored[c]
          /\ s = MergeStatus(b.status, a.status, p.status)
    BY <1>3
  <2>2. PICK q : q = [p EXCEPT !.status = s]
    OBVIOUS
  <2>3. /\ stored' = [stored EXCEPT ![c] = q] /\ key' = None
    BY <1>2, <1>6, <2>1, <2>2 DEF PatchStatus, Finish, Rest
  <2>4. /\ Held(b, c) /\ Held(a, c) /\ Held(p, c)
        /\ Grows(b, a) /\ Grows(b, p)
    BY <1>2, <2>1 DEF Records, Copies, AtWork
  <2>5. Held(q, c) /\ Grows(p, q)
    BY <2>1, <2>2, <2>4, MergeStatusHeld
  <2>6. q.config = p.config /\ q.deleting = p.deleting /\ q \in Object
    <3>1. s \in Status
      BY <2>1, MergeStatusType DEF Object
    <3> QED BY <2>1, <2>2, <3>1 DEF Object
  <2>7. /\ stored'[c] = q
        /\ \A d \in Clusters : d # c => stored'[d] = stored[d]
    BY <1>3, <2>3
  <2>8. Steady
    BY <2>1, <2>6, <2>7 DEF Steady
  <2>9. \A d \in Clusters : Held(stored[d], d)' /\ Grows(stored[d], stored'[d])
    <3> SUFFICES ASSUME NEW d \in Clusters
                 PROVE  Held(stored[d], d)' /\ Grows(stored[d], stored'[d])
      OBVIOUS
    <3>1. PICK r \in Object : r = stored'[d]
      BY <1>3, <2>6, <2>7
    <3>2. Held(r, d) /\ Grows(stored[d], r)
      BY <2>1, <2>5, <2>7, <3>1 DEF Records, Copies, Grows
    <3>3. Held(r, d)'
      BY <1>1, <2>8, <3>2, HeldKept, SameVLANsKept
    <3> QED BY <3>1, <3>2, <3>3 DEF Held
  <2> QED BY <1>1, <2>3, <2>8, <2>9, WriteCopies, SameVLANsOwned, RestRecords
          DEF Records
<1>7. CASE SkipPatchStatus \/ PatchStatusFails
  <2>1. key' = None /\ UNCHANGED <<api, vlans>>
    BY <1>7 DEF SkipPatchStatus, PatchStatusFails, Finish, Rest
  <2> QED BY <2>1, CopiesKept, SameVLANsKept, SameStoredSteady, SameVLANsOwned,
             RestRecords DEF Records, api
<1> QED BY <1>4, <1>5, <1>6, <1>7 DEF Patch

\* The watch and a restart show the cache what is stored.
LEMMA RefreshedCopies ==
    ASSUME TypeOK, Copies, UNCHANGED <<stored, vlans>>,
           \A c \in Clusters : cached'[c] = cached[c] \/ cached'[c] = stored[c]
    PROVE  Copies'
<1> SUFFICES ASSUME NEW c \in Clusters
             PROVE  (/\ Held(stored[c], c) /\ Held(cached[c], c)
                     /\ Grows(cached[c], stored[c]))'
  BY DEF Copies
<1>1. PICK o \in Object, p \in Object : o = stored[c] /\ p = cached[c]
  BY DEF TypeOK
<1>2. Held(o, c)' /\ Held(p, c)' /\ Grows(p, o)
  BY <1>1, HeldKept, SameStoredSteady, SameVLANsKept DEF Copies
<1>3. stored'[c] = o /\ (cached'[c] = p \/ cached'[c] = o)
  BY <1>1
<1> QED BY <1>2, <1>3 DEF Held, Grows

LEMMA OtherRecords ==
    ASSUME TypeOK, Records, UNCHANGED <<api, worker, vlans>>
    PROVE  Records'
<1>1. UNCHANGED <<cached, stored, pc, key, before, obj, vlans>>
  BY DEF api, worker
<1>2. key # None => Placed'
  BY <1>1 DEF Records, AtWork, Placed
<1> QED BY <1>1, <1>2, SameStoredSteady, WriteRecords

LEMMA ReconcileRecords ==
    ASSUME TypeOK, Records, NEW c \in Clusters, Reconcile(c)
    PROVE  Records'
<1>1. /\ key' = c /\ before' = cached[c] /\ obj' = cached[c]
      /\ pc' = IF cached[c].deleting THEN "reconcileDelete" ELSE "reconcileNormal"
      /\ UNCHANGED <<api, vlans>>
  BY DEF Reconcile
<1>2. Copies' /\ VLANsOwned'
  BY <1>1, CopiesKept, SameVLANsKept, SameStoredSteady, SameVLANsOwned
     DEF Records, api
<1>3. PICK o \in Object : o = cached[c]
  BY DEF TypeOK
<1>4. Held(o, c)' /\ Grows(o, stored'[c])
  BY <1>1, <1>2, <1>3 DEF Copies, Held, Grows, api
<1>5. Placed'
  BY <1>1, <1>3 DEF Placed
<1>6. AtWork(c)'
  BY <1>1, <1>3, <1>4, <1>5 DEF AtWork, Held, Grows
<1> QED BY <1>1, <1>2, <1>6 DEF Records

LEMMA CacheSyncRecords ==
    ASSUME TypeOK, Records, NEW c \in Clusters, CacheSync(c)
    PROVE  Records'
<1>1. /\ cached' = [cached EXCEPT ![c] = stored[c]]
      /\ cached \in [Clusters -> Object]
      /\ UNCHANGED <<stored, worker, vlans>>
  BY DEF CacheSync, TypeOK
<1>2. \A d \in Clusters : cached'[d] = cached[d] \/ cached'[d] = stored[d]
  BY <1>1
<1>3. Copies'
  BY <1>1, <1>2, RefreshedCopies DEF Records
<1>4. VLANsOwned'
  BY <1>1, SameVLANsOwned, SameStoredSteady DEF Records
<1>5. key # None => AtWork(key)'
  BY <1>1 DEF Records, AtWork, Placed, Held, Grows, Used, MadeFor, worker
<1> QED BY <1>1, <1>3, <1>4, <1>5 DEF Records, worker

LEMMA EditRecords ==
    ASSUME "edit" \notin Events, TypeOK, Records, NEW c \in Clusters,
           DeleteCluster(c) \/ SetOwner(c) \/ CompleteSpec(c) \/ EditVLANConfig(c)
    PROVE  Records'
<1>1. stored \in [Clusters -> Object] /\ stored[c] \in Object
  BY DEF TypeOK
<1>2. PICK o : /\ EditCluster(c, o)
               /\ \/ o = [stored[c] EXCEPT !.deleting = TRUE,
                                           !.exists = stored[c].finalizer]
                  \/ o = [stored[c] EXCEPT !.owned = TRUE]
                  \/ o = [stored[c] EXCEPT !.valid = TRUE]
  BY DEF DeleteCluster, SetOwner, CompleteSpec, EditVLANConfig
<1>3. /\ o.status = stored[c].status /\ o.config = stored[c].config
      /\ stored[c].deleting => o.deleting
  BY <1>1, <1>2 DEF Object
<1>4. /\ stored' = [stored EXCEPT ![c] = o]
      /\ UNCHANGED <<cached, worker, vlans>>
  BY <1>2 DEF EditCluster
<1>5. \A d \in Clusters : /\ stored'[d].status = stored[d].status
                          /\ stored'[d].config = stored[d].config
                          /\ stored[d].deleting => stored'[d].deleting
  BY <1>1, <1>3, <1>4
<1>6. key # None => Placed'
  BY <1>4 DEF Records, AtWork, Placed, worker
<1> QED BY <1>4, <1>5, <1>6, WriteRecords DEF Steady, worker

LEMMA RemoveExternallyRecords ==
    ASSUME TypeOK, Records, NEW v \in VLANs, RemoveExternally(v)
    PROVE  Records'
<1>1. /\ "externalDelete" \in Events /\ Used(v)
      /\ vlans' = [vlans EXCEPT ![v].st = "deleted"]
      /\ UNCHANGED <<api, worker>>
  BY DEF RemoveExternally, Used
<1>2. VLANsKept /\ VLANsOwned'
  BY <1>1, VLANDeleted DEF Records, api
<1>3. CASE key = None
  BY <1>1, <1>2, <1>3, CopiesKept, RestRecords DEF Records, worker
<1>4. CASE key # None
  <2>1. PICK c \in Clusters, o \in Object : c = key /\ o = obj
    BY <1>4 DEF TypeOK
  <2>2. Held(o, c) /\ Grows(before, o) /\ Placed
    BY <1>4, <2>1 DEF Records, AtWork
  <2>3. Held(o, c)' /\ Placed'
    BY <1>1, <1>2, <2>2, HeldKept, SameStoredSteady DEF Placed, api, worker
  <2>4. obj' = o /\ UNCHANGED <<api, key, before>>
    BY <1>1, <2>1 DEF worker
  <2> QED BY <1>2, <2>1, <2>2, <2>3, <2>4, HandlerRecords
<1> QED BY <1>3, <1>4

LEMMA NextRecords ==
    "edit" \notin Events /\ TypeOK /\ Records /\ [Next]_vars => Records'
<1> SUFFICES ASSUME "edit" \notin Events, TypeOK, Records, [Next]_vars
             PROVE  Records'
  OBVIOUS
<1>1. CASE UNCHANGED vars
  BY <1>1, OtherRecords DEF vars
<1>2. ASSUME NEW c \in Clusters, ReconcileGone(c) \/ Reconcile(c) \/ CacheSync(c)
      PROVE  Records'
  BY <1>2, ReconcileRecords, CacheSyncRecords, OtherRecords DEF ReconcileGone
<1>3. CASE Continue
  BY <1>3, ReconcileNormalRecords, ReconcileVLANRecords, ReconcileDeleteRecords,
     PatchRecords DEF Continue
<1>4. CASE Environment
  <2>1. CASE CrashRestart
    <3>1. cached' = stored /\ key' = None /\ UNCHANGED <<stored, vlans>>
      BY <2>1 DEF CrashRestart, Rest
    <3>2. Copies'
      BY <3>1, RefreshedCopies DEF Records
    <3> QED BY <3>1, <3>2, SameVLANsOwned, SameStoredSteady, RestRecords
            DEF Records
  <2>2. ASSUME NEW h \in Hosts, HostAppears(h) \/ HostUp(h) \/ HostGoes(h)
        PROVE  Records'
    BY <2>2, OtherRecords DEF HostAppears, HostUp, HostGoes
  <2> QED BY <1>4, <2>1, <2>2, EditRecords, RemoveExternallyRecords
          DEF Environment
<1> QED BY <1>1, <1>2, <1>3, <1>4 DEF Next

LEMMA StartRecords == ControllerInit => Records
<1> SUFFICES ASSUME ControllerInit
             PROVE  Records
  OBVIOUS
<1>1. VLANsOwned
  BY DEF ControllerInit, VLANsOwned, Used, Deleted
<1>2. ASSUME NEW c \in Clusters
      PROVE  /\ Held(stored[c], c)
             /\ stored[c].status.vlanID = None /\ stored[c].status.vlanVID = None
  <2>1. stored[c] \in {NewCluster(config) : config \in Config}
    BY DEF ControllerInit
  <2>2. /\ ~stored[c].status.ready
        /\ stored[c].status.vlanID = None /\ stored[c].status.vlanVID = None
    BY <2>1 DEF NewCluster
  <2> QED BY <2>2 DEF Held
<1>3. cached = stored /\ key = None
  BY DEF ControllerInit
<1> QED BY <1>1, <1>2, <1>3 DEF Records, Copies, Grows

LEMMA InitRecords == Init => Records
BY StartRecords DEF Init

\* When no VLANConfig is edited, a cluster that was declared ready has recorded
\* its VLAN and the VLAN's tag, and keeps both, from however stale a copy its
\* status is patched and whatever reply or restart comes between.
THEOREM ReadyClusterHasVLAN ==
    ASSUME "edit" \notin Events
    PROVE  Spec => []ReadyHasVLAN
<1>1. Records => ReadyHasVLAN
  BY DEF Records, Copies, Held, ReadyHasVLAN
<1>2. TypeOK /\ Records /\ [Next]_vars => Records'
  BY NextRecords
<1> QED BY <1>1, <1>2, InitRecords, ClusterTypeCorrect, PTL DEF Spec

\* When every reply has the tag of its VLAN, the tag that is recorded is that of
\* the VLAN that is recorded: the two fields, which are set together, are patched
\* together.
THEOREM TagOfItsVLAN ==
    ASSUME "edit" \notin Events, "noVID" \notin Events
    PROVE  Spec => []VIDOfVLAN
<1>1. Records => VIDOfVLAN
  BY DEF Records, Copies, Held, VIDOfVLAN
<1>2. TypeOK /\ Records /\ [Next]_vars => Records'
  BY NextRecords
<1> QED BY <1>1, <1>2, InitRecords, ClusterTypeCorrect, PTL DEF Spec

\* The controller deletes no VLAN that it was given: neither a stale copy nor a
\* status that survives a crash makes a VLAN of somebody else look like its own.
THEOREM ForeignVLANIsKept ==
    ASSUME "edit" \notin Events, "externalDelete" \notin Events
    PROVE  Spec => []ForeignVLANKept
<1>1. TypeOK /\ Records => ForeignVLANKept
  <2> SUFFICES ASSUME Records, TypeOK, NEW v \in Foreign
               PROVE  vlans[v].st = "live"
    BY DEF ForeignVLANKept
  <2>1. /\ v \in VLANs
        /\ Used(v) /\ ~Deleted(v)
    BY ClusterAssumption DEF Records, VLANsOwned, MadeFor
  <2> QED BY <2>1 DEF Used, Deleted, TypeOK, VLAN
<1>2. TypeOK /\ Records /\ [Next]_vars => Records'
  BY NextRecords
<1> QED BY <1>1, <1>2, InitRecords, ClusterTypeCorrect, PTL DEF Spec

LEMMA VLANLives ==
    ASSUME "externalDelete" \notin Events,
           \A c, d \in Clusters : DescriptionOf[c] = DescriptionOf[d] => c = d,
           TypeOK, Records, NEW c \in Clusters,
           ~stored[c].deleting, stored[c].status.vlanID # None
    PROVE  vlans[stored[c].status.vlanID].st = "live"
<1>1. stored[c] \in Object /\ stored[c].status \in Status
  BY DEF TypeOK, Object
<1>2. PICK v \in VLANs : v = stored[c].status.vlanID
  BY <1>1 DEF Status
<1>3. Held(stored[c], c)
  BY DEF Records, Copies
<1>4. ~Deleted(v)
  <2>1. CASE stored[c].config.existing # None
    <3>1. v \in Foreign
      BY <1>1, <1>2, <1>3, <2>1 DEF Held, Object, Config
    <3> QED BY <3>1 DEF Records, VLANsOwned, MadeFor
  <2>2. CASE stored[c].config.existing = None
    <3>1. MadeFor(v, c)
      BY <1>2, <1>3, <2>2 DEF Held
    <3> QED BY <3>1 DEF Records, VLANsOwned, MadeFor
  <2> QED BY <2>1, <2>2
<1>5. Used(v)
  BY <1>2, <1>3 DEF Held
<1> QED BY <1>2, <1>4, <1>5 DEF Used, Deleted, TypeOK, VLAN

\* When no two clusters have one description, the VLAN in the status of a cluster
\* that is not being deleted is there: it is deleted on behalf of its own cluster
\* only, once that is being deleted.  (Clusters of one name and subnet, in two
\* namespaces, have one description, and share a VLAN.)
THEOREM VLANInUseIsKept ==
    ASSUME "edit" \notin Events, "externalDelete" \notin Events,
           \A c, d \in Clusters : DescriptionOf[c] = DescriptionOf[d] => c = d
    PROVE  Spec => []VLANInUseKept
<1>1. TypeOK /\ Records => VLANInUseKept
  BY VLANLives DEF VLANInUseKept
<1>2. TypeOK /\ Records /\ [Next]_vars => Records'
  BY NextRecords
<1> QED BY <1>1, <1>2, InitRecords, ClusterTypeCorrect, PTL DEF Spec

-----------------------------------------------------------------------------
(***************************************************************************)
(* A VLAN goes with its cluster, when nothing is read stale, no reply and  *)
(* no patch is lost, Latitude.sh does not fail and the manager does not    *)
(* stop.                                                                   *)
(***************************************************************************)

MadeBy(v, c) == vlans[v].st = "live" /\ vlans[v].creator = c

NoneMadeBy(c) == \A v \in VLANs : ~MadeBy(v, c)

\* A live VLAN is recorded with the cluster it was made for, or about to be, and
\* the cluster's finalizer is there to have it deleted.
Owned ==
    \A v \in VLANs, c \in Clusters :
        MadeBy(v, c) =>
          /\ stored[c].finalizer
          /\ stored[c].config.existing = None
          /\ v = IF key = c THEN obj.status.vlanID ELSE stored[c].status.vlanID

\* The worker has read what is stored, looks for a VLAN under its finalizer,
\* creates one when there is none, and lets its finalizer go when there is none.
Owning(c) ==
    /\ stored[c].status.vlanID = before.status.vlanID
    /\ pc # "patchStatus" => stored[c].finalizer = before.finalizer
    /\ pc \in {"reconcileVLAN", "createVLAN", "reconciled"} => before.finalizer
    /\ pc = "createVLAN" => NoneMadeBy(c)
    /\ ~obj.finalizer /\ before.finalizer => NoneMadeBy(c)

Owners == Owned /\ (key # None => Owning(key))

\* What the proofs below take from the theorems above.
Known == TypeOK /\ Awake /\ Records

LEMMA WorkerOwns ==
    ASSUME Known, Owners, pc # "idle"
    PROVE  \E c \in Clusters :
             /\ c = key /\ Owning(c) /\ Worked /\ Held(obj, c) /\ Placed
             /\ obj \in Object /\ obj.status \in Status
             /\ stored[c] \in Object
BY AtWorkType DEF Known, Awake, Owners, Records, AtWork

\* No VLAN becomes live, and the worker's object keeps the one it has recorded if
\* that is live.
LEMMA OwnedKept ==
    ASSUME Owned, UNCHANGED <<api, key>>,
           \A v \in VLANs : vlans'[v] # vlans[v] => vlans'[v].st # "live",
           \/ obj'.status.vlanID = obj.status.vlanID
           \/ \A v \in VLANs : ~MadeBy(v, key)
    PROVE  Owned'
<1> SUFFICES ASSUME NEW v \in VLANs, NEW c \in Clusters, MadeBy(v, c)'
             PROVE  /\ stored[c].finalizer
                    /\ stored[c].config.existing = None
                    /\ v = IF key = c THEN obj'.status.vlanID
                                      ELSE stored[c].status.vlanID
  BY DEF Owned, api
<1>1. MadeBy(v, c)
  BY DEF MadeBy
<1> QED BY <1>1 DEF Owned

\* Without a VLAN that becomes live there is none more to a cluster.
LEMMA NoneMadeKept ==
    ASSUME NEW c, NoneMadeBy(c),
           \A v \in VLANs : vlans'[v] # vlans[v] => vlans'[v].st # "live"
    PROVE  NoneMadeBy(c)'
BY DEF NoneMadeBy, MadeBy

LEMMA ReconcileNormalOwns ==
    ASSUME Known, Owners, ReconcileNormal
    PROVE  Owners'
<1>1. /\ pc # "idle" /\ pc \in Provisioning
      /\ UNCHANGED <<api, key, before, vlans>>
      /\ \/ pc' = "patchObject"
         \/ pc' = "reconcileVLAN" /\ obj.finalizer
  BY DEF ReconcileNormal, AddFinalizer, RejectSpec, LocationFound,
         LocationNotFound, MarkReady, KeepEndpoint, SetEndpoint, WaitForHost,
         Discovering, InfrastructureFails, Return, GoOn, Provisioning
<1>2. PICK c \in Clusters :
        /\ c = key /\ Owning(c) /\ Worked
        /\ obj \in Object /\ obj.status \in Status
  BY <1>1, WorkerOwns
<1>3. /\ obj'.status.vlanID = obj.status.vlanID
      /\ obj'.finalizer = TRUE \/ obj'.finalizer = obj.finalizer
  <2>1. \A r : /\ SetCondition(obj, r).status.vlanID = obj.status.vlanID
               /\ SetCondition(obj, r).finalizer = obj.finalizer
    BY <1>2 DEF SetCondition, Object, Status
  <2>2. CASE AddFinalizer
    BY <1>2, <2>2 DEF AddFinalizer, Return, Object
  <2>3. CASE RejectSpec \/ LocationNotFound
    BY <2>1, <2>3 DEF RejectSpec, LocationNotFound, InfrastructureFails, Return
  <2>4. CASE LocationFound \/ KeepEndpoint \/ WaitForHost
    BY <2>4 DEF LocationFound, KeepEndpoint, WaitForHost, Return, GoOn
  <2>5. CASE MarkReady
    BY <1>2, <2>5 DEF MarkReady, Return, SetCondition, Object, Status
  <2>6. ASSUME NEW h \in Hosts, SetEndpoint(h)
        PROVE  obj'.status.vlanID = obj.status.vlanID /\ obj'.finalizer = obj.finalizer
    BY <1>2, <2>6 DEF SetEndpoint, Return, SetCondition, Object, Status
  <2> QED BY <2>2, <2>3, <2>4, <2>5, <2>6 DEF ReconcileNormal
<1>4. Owned'
  BY <1>1, <1>3, OwnedKept DEF Owners
<1>5. ~obj'.finalizer /\ before.finalizer => NoneMadeBy(c)'
  BY <1>1, <1>2, <1>3, NoneMadeKept DEF Owning
<1>6. Owning(c)'
  BY <1>1, <1>2, <1>5 DEF Owning, Worked, Alike, Provisioning, api
<1> QED BY <1>1, <1>2, <1>4, <1>6 DEF Owners

\* A VLAN is created for a cluster that has none, by a worker that records it.
LEMMA CreateVLANOwned ==
    ASSUME Known, Owners, NEW v \in VLANs, CreateVLAN(v)
    PROVE  Owned'
<1>1. StoreVLAN(v) /\ pc = "createVLAN" /\ UNCHANGED api
  BY DEF CreateVLAN, StoreVLAN
<1>2. PICK c \in Clusters :
        /\ c = key /\ Owning(c) /\ Placed /\ Held(obj, c)
        /\ obj \in Object /\ stored[c] \in Object
  BY <1>1, WorkerOwns
<1>3. /\ NoneMadeBy(c)
      /\ stored[c].finalizer /\ stored[c].config.existing = None
  BY <1>1, <1>2 DEF Owning, Placed, Held
<1>4. PICK vid \in VIDs(v) : GoOn(RecordVLAN(obj, v, vid), "reconciled")
  BY DEF CreateVLAN
<1>5. obj'.status.vlanID = v /\ key' = c
  BY <1>2, <1>4, RecordVLANFields DEF GoOn
<1>6. /\ vlans'[v].creator = c
      /\ \A w \in VLANs : w # v => vlans'[w] = vlans[w]
  BY <1>1, <1>2 DEF StoreVLAN, Known, TypeOK
<1> SUFFICES ASSUME NEW w \in VLANs, NEW d \in Clusters, MadeBy(w, d)'
             PROVE  /\ stored[d].finalizer
                    /\ stored[d].config.existing = None
                    /\ w = IF key' = d THEN obj'.status.vlanID
                                       ELSE stored[d].status.vlanID
  BY <1>1 DEF Owned, api
<1>7. CASE w = v
  BY <1>3, <1>5, <1>6, <1>7 DEF MadeBy
<1>8. CASE w # v
  <2>1. MadeBy(w, d)
    BY <1>6, <1>8 DEF MadeBy
  <2>2. d # c
    BY <1>3, <2>1 DEF NoneMadeBy
  <2> QED BY <1>2, <1>5, <2>1, <2>2 DEF Owners, Owned
<1> QED BY <1>7, <1>8

LEMMA ReconcileVLANOwns ==
    ASSUME "lostReply" \notin Events, "apiError" \notin Events,
           Known, Owners, ReconcileVLAN
    PROVE  Owners'
<1>1. /\ pc \in {"reconcileVLAN", "createVLAN"} /\ pc # "idle"
      /\ UNCHANGED api
  BY ReconcileVLANStep DEF Known
<1>2. PICK c \in Clusters :
        /\ c = key /\ Owning(c) /\ Worked /\ Held(obj, c)
        /\ obj \in Object /\ obj.status \in Status
  BY <1>1, WorkerOwns
<1>3. PICK o \in Object :
        /\ Alike(o, obj)
        /\ \/ GoOn(o, "createVLAN")
           \/ GoOn(o, "reconciled")
           \/ InfrastructureFails(o)
  BY ReconcileVLANStep DEF Known
<1>4. /\ obj'.finalizer = before.finalizer /\ before.finalizer
      /\ stored[c].finalizer = before.finalizer
      /\ UNCHANGED <<key, before>>
      /\ pc' \in {"createVLAN", "reconciled", "patchObject"}
  <2>1. obj'.finalizer = o.finalizer
    BY <1>3 DEF GoOn, InfrastructureFails, Return, SetCondition, Object
  <2> QED BY <1>1, <1>2, <1>3, <2>1
          DEF GoOn, InfrastructureFails, Return, Owning, Worked, Alike,
              Provisioning
<1>5. ~RecordedVLANLives => NoneMadeBy(c)
  BY <1>2, ClusterAssumption
     DEF Owners, Owned, NoneMadeBy, MadeBy, RecordedVLANLives
<1>6. pc' = "createVLAN" => NoneMadeBy(c)'
  <2>1. ASSUME pc' = "createVLAN"
        PROVE  VLANWanted
    BY <2>1 DEF ReconcileVLAN, NoVLAN, UseExistingVLAN, VLANFound, AdoptVLAN,
                CreateVLAN, CreateVLANReplyLost, CreateVLANFails,
                InfrastructureFails, Return, GoOn
  <2> QED BY <1>5, <2>1, NoneMadeKept DEF VLANWanted
<1>7. Owning(c)'
  BY <1>1, <1>2, <1>4, <1>6 DEF Owning, api
<1>8. Owned'
  <2>1. CASE NoVLAN \/ VLANWanted \/ CreateVLANFails
    <3>1. obj'.status.vlanID = obj.status.vlanID
      BY <1>2, <2>1, ConditionRecord
         DEF NoVLAN, VLANWanted, CreateVLANFails, InfrastructureFails, Return,
             GoOn, SameRecord
    <3>2. UNCHANGED vlans
      BY <2>1 DEF NoVLAN, VLANWanted, CreateVLANFails
    <3> QED BY <1>1, <1>4, <3>1, <3>2, OwnedKept DEF Owners
  <2>2. CASE VLANFound
    <3>1. obj'.status.vlanID = obj.status.vlanID
      BY <1>2, <2>2 DEF VLANFound, GoOn, Object, Status
    <3> QED BY <1>1, <1>4, <2>2, <3>1, OwnedKept DEF Owners, VLANFound
  <2>3. CASE UseExistingVLAN
    <3>1. obj.config.existing # None /\ UNCHANGED vlans
      BY <2>3 DEF UseExistingVLAN
    <3>2. \A v \in VLANs : ~MadeBy(v, key)
      BY <1>2, <3>1 DEF Owners, Owned, Held
    <3> QED BY <1>1, <1>4, <3>1, <3>2, OwnedKept DEF Owners
  <2>4. ASSUME NEW v \in VLANs, AdoptVLAN(v)
        PROVE  Owned'
    <3>1. UNCHANGED vlans /\ \A w \in VLANs : ~MadeBy(w, key)
      BY <1>2, <2>4 DEF AdoptVLAN, Owning, NoneMadeBy
    <3> QED BY <1>1, <1>4, <3>1, OwnedKept DEF Owners
  <2> QED BY <2>1, <2>2, <2>3, <2>4, CreateVLANOwned
          DEF ReconcileVLAN, CreateVLANReplyLost
<1> QED BY <1>2, <1>4, <1>7, <1>8 DEF Owners

LEMMA ReconcileDeleteOwns ==
    ASSUME "apiError" \notin Events, Known, Owners, ReconcileDelete
    PROVE  Owners'
<1>1. /\ pc = "reconcileDelete" /\ pc' = "patchObject"
      /\ obj' = [obj EXCEPT !.finalizer = FALSE]
      /\ UNCHANGED <<api, key, before>>
      /\ \/ ~OwnsVLAN /\ UNCHANGED vlans
         \/ /\ OwnsVLAN
            /\ vlans' = [vlans EXCEPT ![obj.status.vlanID].st = "deleted"]
  BY DEF ReconcileDelete, SkipCleanup, CleanupVLAN, DeletionDone, Return
<1>2. PICK c \in Clusters :
        /\ c = key /\ Owning(c) /\ Held(obj, c)
        /\ obj \in Object /\ obj.status \in Status
  BY <1>1, WorkerOwns
<1>3. /\ vlans \in [VLANs -> VLAN]
      /\ \A v \in VLANs : vlans'[v] # vlans[v] => vlans'[v].st # "live"
  BY <1>1 DEF Known, TypeOK, VLAN
<1>4. obj'.status.vlanID = obj.status.vlanID
  BY <1>1, <1>2 DEF Object
<1>5. Owned'
  BY <1>1, <1>3, <1>4, OwnedKept DEF Owners
<1>6. NoneMadeBy(c)'
  <2> SUFFICES ASSUME NEW v \in VLANs, vlans'[v].st = "live", vlans'[v].creator = c
               PROVE  FALSE
    BY DEF NoneMadeBy, MadeBy
  <2>1. vlans'[v] = vlans[v]
    BY <1>3
  <2>2. v = obj.status.vlanID /\ obj.config.existing = None
    BY <1>2, <2>1 DEF Owners, Owned, MadeBy, Held
  <2>3. OwnsVLAN
    BY <2>2, ClusterAssumption DEF OwnsVLAN
  <2> QED BY <1>1, <1>3, <2>2, <2>3 DEF VLAN
<1>7. Owning(c)'
  BY <1>1, <1>2, <1>6 DEF Owning, api
<1> QED BY <1>1, <1>2, <1>5, <1>7 DEF Owners

\* The reconciliation ends, and the record is what the worker's object had.
LEMMA EndOwns ==
    ASSUME Owned, NEW c \in Clusters, c = key, key' = None, UNCHANGED vlans,
           \A d \in Clusters : d # c => stored'[d] = stored[d],
           \/ /\ stored'[c].finalizer = stored[c].finalizer
              /\ stored'[c].config = stored[c].config
              /\ stored'[c].status.vlanID = obj.status.vlanID
           \/ NoneMadeBy(c)
    PROVE  Owners'
<1>1. None \notin Clusters
  BY ClusterAssumption
<1> SUFFICES ASSUME NEW v \in VLANs, NEW d \in Clusters, MadeBy(v, d)'
             PROVE  /\ stored'[d].finalizer
                    /\ stored'[d].config.existing = None
                    /\ v = stored'[d].status.vlanID
  BY <1>1 DEF Owners, Owned
<1>2. MadeBy(v, d)
  BY DEF MadeBy
<1> QED BY <1>2 DEF Owned, NoneMadeBy

LEMMA PatchOwns ==
    ASSUME "patchError" \notin Events, Known, Owners, Patch
    PROVE  Owners'
<1>1. pc \in {"patchObject", "patchStatus"} /\ pc # "idle" /\ UNCHANGED vlans
  BY DEF Patch, PatchObject, SkipPatchObject, PatchObjectFails, PatchStatus,
         SkipPatchStatus, PatchStatusFails
<1>2. PICK c \in Clusters :
        /\ c = key /\ Owning(c)
        /\ obj \in Object /\ stored[c] \in Object
  BY <1>1, WorkerOwns
<1>3. stored \in [Clusters -> Object] /\ before \in Object
  BY DEF Known, TypeOK
<1>4. CASE PatchObject
  <2> DEFINE o == MergeSpec(before, obj, stored[c])
  <2>1. /\ stored' = [stored EXCEPT ![c] = o]
        /\ pc' = "patchStatus" /\ UNCHANGED <<key, before, obj>>
        /\ obj.finalizer # before.finalizer
    BY <1>2, <1>4 DEF PatchObject, GoOn, SpecChanged
  <2>2. /\ o.status = stored[c].status /\ o.config = stored[c].config
        /\ o.finalizer = obj.finalizer
    BY <1>2, <2>1 DEF MergeSpec, Merged, Object
  <2> HIDE DEF o
  <2>3. /\ stored'[c] = o
        /\ \A d \in Clusters : d # c => stored'[d] = stored[d]
    BY <1>3, <2>1
  <2>4. obj.finalizer \/ NoneMadeBy(c)
    BY <1>2, <1>3, <2>1 DEF Owning, Object
  <2>5. Owned'
    <3> SUFFICES ASSUME NEW v \in VLANs, NEW d \in Clusters, MadeBy(v, d)'
                 PROVE  /\ stored'[d].finalizer
                        /\ stored'[d].config.existing = None
                        /\ v = IF key = d THEN obj.status.vlanID
                                          ELSE stored'[d].status.vlanID
      BY <2>1 DEF Owned
    <3>1. MadeBy(v, d)
      BY <1>1 DEF MadeBy
    <3> QED BY <1>2, <2>2, <2>3, <2>4, <3>1 DEF Owners, Owned, NoneMadeBy
  <2>6. Owning(c)'
    BY <1>1, <1>2, <2>1, <2>2, <2>3 DEF Owning, NoneMadeBy, MadeBy
  <2> QED BY <1>2, <2>1, <2>5, <2>6 DEF Owners
<1>5. CASE SkipPatchObject \/ PatchObjectFails
  <2>1. pc' = "patchStatus" /\ UNCHANGED <<stored, key, before, obj>>
    BY <1>5 DEF SkipPatchObject, PatchObjectFails, GoOn, api
  <2>2. Owned'
    BY <1>1, <2>1 DEF Owners, Owned, MadeBy
  <2>3. Owning(c)'
    BY <1>1, <1>2, <2>1 DEF Owning, NoneMadeBy, MadeBy
  <2> QED BY <1>2, <2>1, <2>2, <2>3 DEF Owners
<1>6. CASE PatchStatus
  <2> DEFINE s == MergeStatus(before.status, obj.status, stored[c].status)
  <2>1. stored' = [stored EXCEPT ![c].status = s] /\ key' = None
    BY <1>2, <1>6 DEF PatchStatus, Finish, Rest
  <2>2. s.vlanID = obj.status.vlanID
    BY <1>2 DEF Owning, MergeStatus, Merged
  <2> HIDE DEF s
  <2>3. /\ \A d \in Clusters : d # c => stored'[d] = stored[d]
        /\ stored'[c].status = s
        /\ stored'[c].finalizer = stored[c].finalizer
        /\ stored'[c].config = stored[c].config
    BY <1>2, <1>3, <2>1 DEF Object
  <2> QED BY <1>1, <1>2, <2>1, <2>2, <2>3, EndOwns DEF Owners
<1>7. CASE SkipPatchStatus
  <2>1. key' = None /\ UNCHANGED stored /\ obj.status = before.status
    BY <1>7 DEF SkipPatchStatus, Finish, Rest, StatusChanged, api
  <2> QED BY <1>1, <1>2, <2>1, EndOwns DEF Owners, Owning
<1>8. CASE PatchStatusFails
  <2>1. key' = None /\ UNCHANGED stored /\ ~stored[c].exists
    BY <1>2, <1>8 DEF PatchStatusFails, Finish, Rest, api
  <2>2. ~stored[c].finalizer
    BY <2>1 DEF Known, Awake, AllFinalized, Finalized
  <2>3. NoneMadeBy(c)
    BY <2>2 DEF Owners, Owned, NoneMadeBy
  <2> QED BY <1>1, <1>2, <2>1, <2>3, EndOwns DEF Owners
<1> QED BY <1>4, <1>5, <1>6, <1>7, <1>8 DEF Patch

LEMMA OtherOwns ==
    ASSUME Owners, UNCHANGED <<stored, worker, vlans>>
    PROVE  Owners'
BY DEF Owners, Owned, Owning, NoneMadeBy, MadeBy, worker

LEMMA ReconcileOwns ==
    ASSUME "staleCache" \notin Events, Known, Owners, NEW c \in Clusters, Reconcile(c)
    PROVE  Owners'
<1>1. /\ key = None /\ key' = c /\ stored[c] = cached[c]
      /\ before' = cached[c] /\ obj' = cached[c]
      /\ pc' \in {"reconcileDelete", "reconcileNormal"}
      /\ UNCHANGED <<stored, vlans>>
  BY DEF Reconcile, Known, TypeOK, api
<1>2. None \notin Clusters
  BY ClusterAssumption
<1>3. Owned'
  BY <1>1, <1>2 DEF Owners, Owned, MadeBy
<1>4. Owning(c)'
  BY <1>1 DEF Owning
<1> QED BY <1>1, <1>3, <1>4 DEF Owners

LEMMA EditOwns ==
    ASSUME "edit" \notin Events, Known, Owners, NEW c \in Clusters,
           DeleteCluster(c) \/ SetOwner(c) \/ CompleteSpec(c) \/ EditVLANConfig(c)
    PROVE  Owners'
<1>1. stored \in [Clusters -> Object] /\ stored[c] \in Object
  BY DEF Known, TypeOK
<1>2. PICK o : /\ EditCluster(c, o)
               /\ \/ o = [stored[c] EXCEPT !.deleting = TRUE,
                                           !.exists = stored[c].finalizer]
                  \/ o = [stored[c] EXCEPT !.owned = TRUE]
                  \/ o = [stored[c] EXCEPT !.valid = TRUE]
  BY DEF DeleteCluster, SetOwner, CompleteSpec, EditVLANConfig
<1>3. /\ o.status = stored[c].status /\ o.config = stored[c].config
      /\ o.finalizer = stored[c].finalizer
  BY <1>1, <1>2 DEF Object
<1>4. /\ stored' = [stored EXCEPT ![c] = o]
      /\ UNCHANGED <<worker, vlans>>
  BY <1>2 DEF EditCluster
<1>5. \A d \in Clusters : /\ stored'[d].status = stored[d].status
                          /\ stored'[d].config = stored[d].config
                          /\ stored'[d].finalizer = stored[d].finalizer
  BY <1>1, <1>3, <1>4
<1>6. Owned'
  BY <1>4, <1>5 DEF Owners, Owned, MadeBy, worker
<1>7. ASSUME key # None
      PROVE  Owning(key)'
  <2>1. PICK d \in Clusters : d = key /\ Owning(d)
    BY <1>7 DEF Known, TypeOK, Owners
  <2>2. /\ stored'[d].status = stored[d].status
        /\ stored'[d].finalizer = stored[d].finalizer
        /\ UNCHANGED <<pc, before, obj, vlans>>
        /\ NoneMadeBy(d) => NoneMadeBy(d)'
    BY <1>4, <1>5, NoneMadeKept DEF worker
  <2>3. Owning(d)'
    BY <2>1, <2>2 DEF Owning
  <2> QED BY <1>4, <2>1, <2>3 DEF worker
<1> QED BY <1>4, <1>6, <1>7 DEF Owners, worker

LEMMA RemoveExternallyOwns ==
    ASSUME Known, Owners, NEW v \in VLANs, RemoveExternally(v)
    PROVE  Owners'
<1>1. /\ vlans' = [vlans EXCEPT ![v].st = "deleted"]
      /\ vlans \in [VLANs -> VLAN]
      /\ UNCHANGED <<api, pc, key, before, obj>>
  BY DEF RemoveExternally, Known, TypeOK, worker
<1>2. \A w \in VLANs : vlans'[w] # vlans[w] => vlans'[w].st # "live"
  BY <1>1 DEF VLAN
<1>3. Owned'
  BY <1>1, <1>2, OwnedKept DEF Owners
<1>4. ASSUME key # None
      PROVE  Owning(key)'
  <2>1. PICK d \in Clusters : d = key /\ Owning(d)
    BY <1>4 DEF Known, TypeOK, Owners
  <2>2. NoneMadeBy(d) => NoneMadeBy(d)'
    BY <1>2, NoneMadeKept
  <2>3. Owning(d)'
    BY <1>1, <2>1, <2>2 DEF Owning, api
  <2> QED BY <1>1, <2>1, <2>3
<1> QED BY <1>1, <1>3, <1>4 DEF Owners

\* What must not happen: each of them loses a VLAN that has no owner then.
NothingLost ==
    Events \intersect {"staleCache", "crash", "patchError", "apiError",
                       "lostReply", "edit"} = {}

LEMMA NextOwns == NothingLost /\ Known /\ Owners /\ [Next]_vars => Owners'
<1> SUFFICES ASSUME NothingLost, Known, Owners, [Next]_vars
             PROVE  Owners'
  OBVIOUS
<1>1. /\ "staleCache" \notin Events /\ "crash" \notin Events
      /\ "patchError" \notin Events /\ "apiError" \notin Events
      /\ "lostReply" \notin Events /\ "edit" \notin Events
  BY DEF NothingLost
<1>2. CASE UNCHANGED vars
  BY <1>2, OtherOwns DEF vars, api
<1>3. ASSUME NEW c \in Clusters, ReconcileGone(c) \/ Reconcile(c) \/ CacheSync(c)
      PROVE  Owners'
  BY <1>1, <1>3, ReconcileOwns, OtherOwns DEF ReconcileGone, CacheSync, api
<1>4. CASE Continue
  BY <1>1, <1>4, ReconcileNormalOwns, ReconcileVLANOwns, ReconcileDeleteOwns,
     PatchOwns DEF Continue
<1>5. CASE Environment
  <2>1. ASSUME NEW h \in Hosts, HostAppears(h) \/ HostUp(h) \/ HostGoes(h)
        PROVE  Owners'
    BY <2>1, OtherOwns DEF HostAppears, HostUp, HostGoes, api
  <2>2. ~CrashRestart
    BY <1>1 DEF CrashRestart
  <2> QED BY <1>1, <1>5, <2>1, <2>2, EditOwns, RemoveExternallyOwns
          DEF Environment
<1> QED BY <1>2, <1>3, <1>4, <1>5 DEF Next

\* Nothing is left at Latitude.sh of a cluster that is gone, if nothing is read
\* stale, no request, reply or patch fails, the manager does not stop and no
\* VLANConfig is edited: the finalizer is put on before a VLAN is created, and
\* taken off after the VLAN was deleted.  Failures to list VLANs, replies without
\* a VID and the VLANs that others remove do no harm.
THEOREM VLANIsReleased ==
    ASSUME NothingLost
    PROVE  Spec => []ReleasedVLAN
<1>1. TypeOK /\ Awake /\ Owners => ReleasedVLAN
  <2> SUFFICES ASSUME TypeOK, Awake, Owners, NEW v \in VLANs,
                      vlans[v].st = "live", vlans[v].creator # None
               PROVE  stored[vlans[v].creator].exists
    BY DEF ReleasedVLAN
  <2>1. PICK c \in Clusters : c = vlans[v].creator
    BY DEF TypeOK, VLAN
  <2>2. stored[c].finalizer
    BY <2>1 DEF Owners, Owned, MadeBy
  <2>3. stored[c].exists
    BY <2>2 DEF Awake, AllFinalized, Finalized
  <2> QED BY <2>1, <2>3
<1>2. Init => Owners
  <2>1. Init => \A v \in VLANs, c \in Clusters : vlans[v].creator # c
    BY ClusterAssumption DEF Init, ControllerInit
  <2> QED BY <2>1 DEF Init, ControllerInit, Owners, Owned, MadeBy
<1>3. "edit" \notin Events
  BY DEF NothingLost
<1>4. TypeOK /\ Records /\ [Next]_vars => Records'
  BY <1>3, NextRecords
<1>5. TypeOK /\ Awake /\ Records /\ Owners /\ [Next]_vars => Owners'
  BY NextOwns DEF Known
<1> QED BY <1>1, <1>2, <1>4, <1>5, InitRecords, InitWakes, NextWakes,
           ClusterTypeCorrect, PTL DEF Spec

-----------------------------------------------------------------------------
(***************************************************************************)
(* What the other controller relies on: a cluster that was declared ready  *)
(* stays so, with the VLANConfig it had, and only a request deletes it.    *)
(***************************************************************************)

\* The worker does not take back that the cluster is ready.
Declared == key # None => (before.status.ready => obj.status.ready)

LEMMA HandlerDeclares ==
    ASSUME TypeOK, ReconcileNormal \/ ReconcileVLAN \/ ReconcileDelete
    PROVE  /\ key # None
           /\ UNCHANGED <<stored, key, before>>
           /\ obj.status.ready => obj'.status.ready
<1>1. key # None /\ UNCHANGED <<stored, key, before>>
  BY DEF TypeOK, ReconcileNormal, AddFinalizer, RejectSpec, LocationFound,
         LocationNotFound, MarkReady, KeepEndpoint, SetEndpoint, Discovering,
         WaitForHost, ReconcileVLAN, NoVLAN, AtVLAN, UseExistingVLAN, OwnVLAN,
         VLANFound, VLANWanted, AdoptVLAN, CreateVLAN, CreateVLANReplyLost,
         StoreVLAN, CreateVLANFails, ReconcileDelete, SkipCleanup, CleanupVLAN,
         DeletionDone, InfrastructureFails, Return, GoOn, api
<1>2. obj \in Object /\ obj.status \in Status
  BY DEF TypeOK, Object
<1>3. CASE ReconcileVLAN
  <2>1. PICK o \in Object :
          /\ Alike(o, obj)
          /\ \/ GoOn(o, "createVLAN")
             \/ GoOn(o, "reconciled")
             \/ InfrastructureFails(o)
    BY <1>3, ReconcileVLANStep
  <2>2. obj'.status.ready = o.status.ready
    BY <2>1, ConditionKeeps DEF GoOn, InfrastructureFails, Return
  <2> QED BY <1>1, <2>1, <2>2 DEF Alike
<1>4. CASE ReconcileDelete
  <2>1. obj' = [obj EXCEPT !.finalizer = FALSE]
    BY <1>4 DEF ReconcileDelete, SkipCleanup, CleanupVLAN, DeletionDone, Return
  <2>2. obj'.status = obj.status
    BY <1>2, <2>1 DEF Object
  <2> QED BY <1>1, <2>2
<1>5. CASE AddFinalizer
  <2>1. obj'.status = obj.status
    BY <1>2, <1>5 DEF AddFinalizer, Return, Object
  <2> QED BY <1>1, <2>1
<1>6. CASE RejectSpec \/ LocationNotFound
  <2>1. obj'.status.ready = obj.status.ready
    BY <1>2, <1>6, ConditionKeeps
       DEF RejectSpec, LocationNotFound, InfrastructureFails, Return
  <2> QED BY <1>1, <2>1
<1>7. CASE LocationFound \/ KeepEndpoint \/ WaitForHost
  <2>1. obj' = obj
    BY <1>7 DEF LocationFound, KeepEndpoint, WaitForHost, Return, GoOn
  <2> QED BY <1>1, <2>1
<1>8. CASE MarkReady
  <2> DEFINE o == [obj EXCEPT !.status.ready = TRUE]
  <2>1. o \in Object /\ o.status.ready = TRUE
    BY <1>2 DEF Object, Status
  <2>2. obj' = SetCondition(o, "ClusterReady")
    BY <1>8 DEF MarkReady, Return
  <2> HIDE DEF o
  <2>3. obj'.status.ready = o.status.ready
    BY <2>1, <2>2, ConditionKeeps
  <2> QED BY <1>1, <2>1, <2>3
<1>9. ASSUME NEW h \in Hosts, SetEndpoint(h)
      PROVE  obj.status.ready => obj'.status.ready
  <2> DEFINE o == [obj EXCEPT !.status.endpoint = h]
  <2>1. o \in Object /\ o.status.ready = obj.status.ready
    BY <1>2 DEF Object, Status
  <2>2. obj' = SetCondition(o, "ControlPlaneEndpointSet")
    BY <1>9 DEF SetEndpoint, Return
  <2> HIDE DEF o
  <2>3. obj'.status.ready = o.status.ready
    BY <2>1, <2>2, ConditionKeeps
  <2> QED BY <2>1, <2>3
<1> QED BY <1>1, <1>3, <1>4, <1>5, <1>6, <1>7, <1>8, <1>9 DEF ReconcileNormal

\* What a step may do to the stored object of c when it edits no VLANConfig.
Goes(c) ==
    /\ stored'[c].config = stored[c].config
    /\ stored[c].deleting => stored'[c].deleting
    /\ stored[c].status.ready => stored'[c].status.ready
    /\ stored'[c].exists => stored[c].exists

\* The deletion of c is requested.
Marks(c) == stored'[c].deleting /\ ~stored[c].deleting

LEMMA SameGoes == ASSUME NEW c \in Clusters, stored'[c] = stored[c]
                  PROVE  Goes(c) /\ ~Marks(c)
BY DEF Goes, Marks

LEMMA PatchDeclares ==
    ASSUME TypeOK, Declared, Patch
    PROVE  Declared' /\ \A c \in Clusters : Goes(c) /\ ~Marks(c)
<1>1. /\ key \in Clusters /\ key # None
      /\ stored \in [Clusters -> Object] /\ stored[key] \in Object
      /\ before \in Object /\ obj \in Object
      /\ before.status \in Status /\ obj.status \in Status
      /\ stored[key].status \in Status
  BY DEF TypeOK, Object, Patch, PatchObject, SkipPatchObject, PatchObjectFails,
         PatchStatus, SkipPatchStatus, PatchStatusFails
<1>2. Declared'
  <2>1. UNCHANGED <<key, before, obj>> \/ key' = None
    BY DEF Patch, PatchObject, SkipPatchObject, PatchObjectFails, PatchStatus,
           SkipPatchStatus, PatchStatusFails, GoOn, Finish, Rest
  <2> QED BY <2>1 DEF Declared
<1>3. CASE PatchObject
  <2>1. PICK o : o = MergeSpec(before, obj, stored[key])
    OBVIOUS
  <2>2. stored' = [stored EXCEPT ![key] = o]
    BY <1>3, <2>1 DEF PatchObject
  <2>3. /\ o.config = stored[key].config /\ o.deleting = stored[key].deleting
        /\ o.status = stored[key].status /\ (o.exists => stored[key].exists)
    BY <1>1, <2>1 DEF MergeSpec, Object
  <2> QED BY <1>1, <1>2, <2>2, <2>3 DEF Goes, Marks
<1>4. CASE PatchStatus
  <2>1. PICK known : known = MergeStatus(before.status, obj.status, stored[key].status)
    OBVIOUS
  <2>2. stored' = [stored EXCEPT ![key].status = known]
    BY <1>4, <2>1 DEF PatchStatus
  <2>3. stored[key].status.ready => known.ready
    BY <1>1, <2>1 DEF MergeStatus, Merged, Declared, Status
  <2>4. /\ stored'[key].config = stored[key].config
        /\ stored'[key].deleting = stored[key].deleting
        /\ stored'[key].exists = stored[key].exists
        /\ stored'[key].status = known
        /\ \A c \in Clusters : c # key => stored'[c] = stored[c]
    BY <1>1, <2>2 DEF Object
  <2> QED BY <1>1, <1>2, <2>3, <2>4 DEF Goes, Marks
<1>5. CASE UNCHANGED stored
  BY <1>2, <1>5, SameGoes
<1> QED BY <1>3, <1>4, <1>5
        DEF Patch, SkipPatchObject, PatchObjectFails, SkipPatchStatus,
            PatchStatusFails, api

LEMMA ContinueDeclares ==
    ASSUME TypeOK, Declared, Continue
    PROVE  Declared' /\ \A c \in Clusters : Goes(c) /\ ~Marks(c)
<1>1. CASE ReconcileNormal \/ ReconcileVLAN \/ ReconcileDelete
  BY <1>1, HandlerDeclares, SameGoes DEF Declared
<1>2. CASE Patch
  BY <1>2, PatchDeclares
<1> QED BY <1>1, <1>2 DEF Continue

LEMMA EditGoes ==
    ASSUME TypeOK, NEW c \in Clusters,
           DeleteCluster(c) \/ SetOwner(c) \/ CompleteSpec(c)
    PROVE  /\ UNCHANGED worker
           /\ \A d \in Clusters : /\ Goes(d)
                                  /\ Marks(d) => d = c /\ DeleteCluster(c)
<1>1. stored \in [Clusters -> Object] /\ stored[c] \in Object
  BY DEF TypeOK
<1>2. PICK o : /\ EditCluster(c, o)
               /\ \/ DeleteCluster(c) /\ o = [stored[c] EXCEPT !.deleting = TRUE,
                                           !.exists = stored[c].finalizer]
                  \/ o = [stored[c] EXCEPT !.owned = TRUE]
                  \/ o = [stored[c] EXCEPT !.valid = TRUE]
  BY DEF DeleteCluster, SetOwner, CompleteSpec
<1>3. /\ o.config = stored[c].config /\ o.status = stored[c].status
      /\ o.deleting = stored[c].deleting \/ (DeleteCluster(c) /\ o.deleting = TRUE)
  BY <1>1, <1>2 DEF Object
<1>4. stored' = [stored EXCEPT ![c] = o] /\ stored[c].exists /\ UNCHANGED worker
  BY <1>2 DEF EditCluster
<1> QED BY <1>1, <1>3, <1>4 DEF Goes, Marks

LEMMA NextDeclares ==
    ASSUME "edit" \notin Events, TypeOK, Declared, Next
    PROVE  Declared' /\ \A c \in Clusters : Goes(c)
<1>1. CASE UNCHANGED <<stored, worker>>
  BY <1>1, SameGoes DEF Declared, worker
<1>2. ASSUME NEW c \in Clusters, Reconcile(c)
      PROVE  Declared' /\ \A d \in Clusters : Goes(d)
  BY <1>2, SameGoes DEF Reconcile, Declared, api
<1>3. CASE Continue
  BY <1>3, ContinueDeclares
<1>4. CASE CrashRestart
  BY <1>4, SameGoes DEF CrashRestart, Rest, Declared
<1>5. ASSUME NEW c \in Clusters, DeleteCluster(c) \/ SetOwner(c) \/ CompleteSpec(c)
      PROVE  Declared' /\ \A d \in Clusters : Goes(d)
  BY <1>5, EditGoes DEF Declared, worker
<1> QED BY <1>1, <1>2, <1>3, <1>4, <1>5
        DEF Next, Environment, ReconcileGone, CacheSync, EditVLANConfig,
            RemoveExternally, HostAppears, HostUp, HostGoes, api

-----------------------------------------------------------------------------
(***************************************************************************)
(* The life of a cluster: its VLAN, its readiness and its endpoint, step   *)
(* by step.                                                                *)
(***************************************************************************)

\* What the worker has read still holds of what only it writes, and while it
\* provisions c, under the finalizer, no VLAN of c is deleted.
Tending(c) ==
    /\ before.status.ready => stored[c].status.ready
    /\ obj.status.endpoint # before.status.endpoint => before.status.ready
    /\ pc \in Provisioning =>
         /\ stored[c].finalizer = before.finalizer
         /\ \A v \in VLANs : MadeFor(v, c) => ~Deleted(v)
    /\ pc \in Provisioning \ {"reconcileNormal"} => before.finalizer

\* A cluster goes when its deletion was requested.
Leaving == \A c \in Clusters : ~stored[c].exists => stored[c].deleting

Tended == Leaving /\ (key # None => Tending(key))

\* One name for each cluster, and nothing that others do to what the worker has
\* read.
OneEach ==
    /\ "staleCache" \notin Events
    /\ "edit" \notin Events
    /\ "externalDelete" \notin Events
    /\ \A c, d \in Clusters : DescriptionOf[c] = DescriptionOf[d] => c = d

\* What the proofs of this section take from those above.
Steadfast == TypeOK /\ Records /\ Awake /\ EndpointRead /\ Declared

LEMMA WorkerTends ==
    ASSUME Steadfast, Tended, pc # "idle"
    PROVE  \E c \in Clusters :
             /\ c = key /\ Tending(c) /\ Worked /\ Held(obj, c) /\ Placed
             /\ obj \in Object /\ obj.status \in Status
             /\ stored[c] \in Object
BY AtWorkType DEF Steadfast, Awake, Tended, Records, AtWork

\* A step of the worker that neither writes at the API server nor deletes a VLAN.
LEMMA HandlerTends ==
    ASSUME Tended, NEW c \in Clusters, c = key, UNCHANGED <<stored, key, before>>,
           \A v \in VLANs : vlans'[v] # vlans[v] => vlans'[v].st # "deleted",
           pc' \in Provisioning => pc \in Provisioning,
           pc' \in Provisioning \ {"reconcileNormal"} => before.finalizer,
           \/ obj'.status.endpoint = obj.status.endpoint
           \/ before.status.ready
    PROVE  Tended'
<1>1. Tending(c)
  BY ClusterAssumption DEF Tended
<1>2. ASSUME pc' \in Provisioning, NEW v \in VLANs, MadeFor(v, c)', Deleted(v)'
      PROVE  FALSE
  <2>1. vlans'[v] = vlans[v]
    BY <1>2 DEF Deleted
  <2> QED BY <1>1, <1>2, <2>1 DEF Tending, MadeFor, Deleted
<1>3. Tending(c)'
  BY <1>1, <1>2 DEF Tending
<1> QED BY <1>3 DEF Tended, Leaving

LEMMA ReconcileNormalTends ==
    ASSUME Steadfast, Tended, ReconcileNormal
    PROVE  Tended'
<1>1. /\ pc # "idle" /\ pc \in Provisioning
      /\ UNCHANGED <<stored, key, before, vlans>>
      /\ \/ pc' = "patchObject"
         \/ pc' = "reconcileVLAN" /\ obj.finalizer
  BY DEF ReconcileNormal, AddFinalizer, RejectSpec, LocationFound,
         LocationNotFound, MarkReady, KeepEndpoint, SetEndpoint, WaitForHost,
         Discovering, InfrastructureFails, Return, GoOn, Provisioning, api
<1>2. PICK c \in Clusters :
        /\ c = key /\ Tending(c) /\ Worked
        /\ obj \in Object /\ obj.status \in Status
  BY <1>1, WorkerTends
<1>3. before.finalizer = obj.finalizer /\ before.status.ready = obj.status.ready
  BY <1>1, <1>2 DEF Worked, Alike
<1>4. obj'.status.endpoint = obj.status.endpoint \/ obj.status.ready
  <2>1. CASE AddFinalizer
    BY <1>2, <2>1 DEF AddFinalizer, Return, Object
  <2>2. CASE RejectSpec \/ LocationNotFound
    BY <1>2, <2>2, ConditionKeeps
       DEF RejectSpec, LocationNotFound, InfrastructureFails, Return
  <2>3. CASE LocationFound \/ KeepEndpoint \/ WaitForHost
    BY <2>3 DEF LocationFound, KeepEndpoint, WaitForHost, Return, GoOn
  <2>4. CASE MarkReady
    BY <1>2, <2>4 DEF MarkReady, Return, SetCondition, Object, Status
  <2>5. ASSUME NEW h \in Hosts, SetEndpoint(h)
        PROVE  obj.status.ready
    BY <2>5 DEF SetEndpoint, Discovering
  <2> QED BY <2>1, <2>2, <2>3, <2>4, <2>5 DEF ReconcileNormal
<1> QED BY <1>1, <1>2, <1>3, <1>4, HandlerTends DEF Provisioning

LEMMA ReconcileVLANTends ==
    ASSUME Steadfast, Tended, ReconcileVLAN
    PROVE  Tended'
<1>1. /\ pc \in {"reconcileVLAN", "createVLAN"} /\ pc # "idle"
      /\ UNCHANGED stored
  BY ReconcileVLANStep DEF Steadfast, api
<1>2. PICK c \in Clusters :
        /\ c = key /\ Tending(c) /\ obj \in Object /\ obj.status \in Status
  BY <1>1, WorkerTends
<1>3. PICK o \in Object :
        /\ Alike(o, obj)
        /\ \/ GoOn(o, "createVLAN")
           \/ GoOn(o, "reconciled")
           \/ InfrastructureFails(o)
  BY ReconcileVLANStep DEF Steadfast
<1>4. /\ obj'.status.endpoint = obj.status.endpoint
      /\ UNCHANGED <<key, before>>
  BY <1>3, ConditionKeeps DEF GoOn, InfrastructureFails, Return, Alike
<1>5. \A v \in VLANs : vlans'[v] # vlans[v] => vlans'[v].st # "deleted"
  <2>1. ASSUME NEW v \in VLANs, CreateVLAN(v) \/ CreateVLANReplyLost(v),
               NEW w \in VLANs
        PROVE  vlans'[w] = vlans[w] \/ vlans'[w].st = "live"
    <3>1. vlans' = [vlans EXCEPT ![v] = [st |-> "live", creator |-> key]]
      BY <2>1 DEF CreateVLAN, CreateVLANReplyLost, StoreVLAN
    <3> QED BY <3>1 DEF Steadfast, TypeOK
  <2> QED BY <2>1
          DEF ReconcileVLAN, NoVLAN, UseExistingVLAN, VLANFound, VLANWanted,
              AdoptVLAN, CreateVLANFails
<1>6. before.finalizer
  BY <1>1, <1>2 DEF Tending, Provisioning
<1> QED BY <1>1, <1>2, <1>4, <1>5, <1>6, HandlerTends DEF Provisioning

LEMMA ReconcileDeleteTends ==
    ASSUME Steadfast, Tended, ReconcileDelete
    PROVE  Tended'
<1>1. /\ pc # "idle" /\ pc' \notin Provisioning
      /\ obj' = [obj EXCEPT !.finalizer = FALSE]
      /\ UNCHANGED <<stored, key, before>>
  BY DEF ReconcileDelete, SkipCleanup, CleanupVLAN, DeletionDone, Return, api,
         Provisioning
<1>2. PICK c \in Clusters : c = key /\ Tending(c) /\ obj \in Object
  BY <1>1, WorkerTends
<1>3. obj'.status = obj.status
  BY <1>1, <1>2 DEF Object
<1> QED BY <1>1, <1>2, <1>3 DEF Tended, Leaving, Tending

\* What a patch of the worker's object does to the one that is stored.
LEMMA PatchWrites ==
    ASSUME Steadfast, Tended, Patch
    PROVE  \E c \in Clusters :
             /\ c = key /\ UNCHANGED vlans
             /\ pc' \notin Provisioning
             /\ UNCHANGED <<before, obj>> \/ key' = None
             /\ key' = None \/ key' = key
             /\ \A d \in Clusters : d # c => stored'[d] = stored[d]
             /\ \/ stored' = stored
                \/ /\ stored[c].exists /\ UNCHANGED key
                   /\ stored'[c].status = stored[c].status
                   /\ stored'[c].deleting = stored[c].deleting
                   /\ stored'[c].exists = stored[c].exists \/ stored[c].deleting
                \/ /\ stored[c].exists /\ key' = None
                   /\ stored'[c].exists = stored[c].exists
                   /\ stored'[c].deleting = stored[c].deleting
                   /\ stored'[c].status.ready =
                        IF obj.status.ready = before.status.ready
                        THEN stored[c].status.ready ELSE obj.status.ready
                   /\ stored'[c].status.endpoint = obj.status.endpoint
<1>1. /\ pc \in {"patchObject", "patchStatus"} /\ pc # "idle"
      /\ UNCHANGED vlans /\ pc' \notin Provisioning
      /\ UNCHANGED <<key, before, obj>> \/ key' = None
  BY DEF Patch, PatchObject, SkipPatchObject, PatchObjectFails, PatchStatus,
         SkipPatchStatus, PatchStatusFails, GoOn, Finish, Rest, Provisioning
<1>2. PICK c \in Clusters :
        /\ c = key /\ Tending(c)
        /\ obj \in Object /\ stored[c] \in Object
  BY <1>1, WorkerTends
<1>3. /\ stored \in [Clusters -> Object]
      /\ stored[c].status.endpoint = before.status.endpoint
  BY <1>2, ClusterAssumption DEF Steadfast, TypeOK, EndpointRead
<1>4. CASE PatchObject
  <2>1. PICK o : o = MergeSpec(before, obj, stored[c])
    OBVIOUS
  <2>2. /\ stored' = [stored EXCEPT ![c] = o]
        /\ stored[c].exists /\ UNCHANGED key
    BY <1>2, <1>4, <2>1 DEF PatchObject, GoOn
  <2>3. /\ o.status = stored[c].status /\ o.deleting = stored[c].deleting
        /\ o.exists = stored[c].exists \/ stored[c].deleting
    BY <1>2, <2>1 DEF MergeSpec, Object
  <2>4. /\ stored'[c] = o
        /\ \A d \in Clusters : d # c => stored'[d] = stored[d]
    BY <1>3, <2>2
  <2> QED BY <1>1, <1>2, <2>2, <2>3, <2>4
<1>5. CASE PatchStatus
  <2>1. PICK s : s = MergeStatus(before.status, obj.status, stored[c].status)
    OBVIOUS
  <2>2. /\ stored' = [stored EXCEPT ![c].status = s]
        /\ stored[c].exists /\ key' = None
    BY <1>2, <1>5, <2>1 DEF PatchStatus, Finish, Rest
  <2>3. /\ s.endpoint = obj.status.endpoint
        /\ s.ready = IF obj.status.ready = before.status.ready
                     THEN stored[c].status.ready ELSE obj.status.ready
    BY <1>3, <2>1 DEF MergeStatus, Merged
  <2>4. /\ stored'[c].status = s
        /\ stored'[c].exists = stored[c].exists
        /\ stored'[c].deleting = stored[c].deleting
        /\ \A d \in Clusters : d # c => stored'[d] = stored[d]
    BY <1>2, <1>3, <2>2 DEF Object
  <2> QED BY <1>1, <1>2, <2>2, <2>3, <2>4
<1>6. CASE stored' = stored
  BY <1>1, <1>2, <1>6
<1> QED BY <1>4, <1>5, <1>6
        DEF Patch, SkipPatchObject, PatchObjectFails, SkipPatchStatus,
            PatchStatusFails, api

LEMMA PatchTends ==
    ASSUME Steadfast, Tended, Patch
    PROVE  Tended'
<1>1. PICK c \in Clusters :
        /\ c = key
        /\ pc' \notin Provisioning
        /\ UNCHANGED <<before, obj>> \/ key' = None
        /\ key' = None \/ key' = key
        /\ \A d \in Clusters : d # c => stored'[d] = stored[d]
        /\ \/ stored' = stored
           \/ /\ stored'[c].status = stored[c].status
              /\ stored'[c].deleting = stored[c].deleting
              /\ stored'[c].exists = stored[c].exists \/ stored[c].deleting
           \/ /\ key' = None
              /\ stored'[c].exists = stored[c].exists
              /\ stored'[c].deleting = stored[c].deleting
  BY PatchWrites
<1>2. Leaving'
  BY <1>1 DEF Tended, Leaving
<1>3. ASSUME key' # None
      PROVE  Tending(c)'
  <2>1. /\ Tending(c) /\ UNCHANGED <<before, obj>>
        /\ stored'[c].status.ready = stored[c].status.ready
    BY <1>1, <1>3 DEF Tended
  <2> QED BY <1>1, <2>1 DEF Tending
<1> QED BY <1>1, <1>2, <1>3 DEF Tended

LEMMA ReconcileTends ==
    ASSUME OneEach, Steadfast, Tended, NEW c \in Clusters, Reconcile(c)
    PROVE  Tended'
<1>1. /\ key' = c /\ stored[c] = cached[c]
      /\ before' = stored[c] /\ obj' = stored[c]
      /\ pc' = IF stored[c].deleting THEN "reconcileDelete" ELSE "reconcileNormal"
      /\ UNCHANGED <<stored, vlans>>
  BY DEF Reconcile, OneEach, api
<1>2. ASSUME ~stored[c].deleting, NEW v \in VLANs, MadeFor(v, c), Deleted(v)
      PROVE  FALSE
  <2>1. PICK d \in Clusters : MadeFor(v, d) /\ stored[d].deleting
    BY <1>2 DEF OneEach, Steadfast, Records, VLANsOwned
  <2>2. c = d
    BY <1>2, <2>1 DEF OneEach, MadeFor
  <2> QED BY <1>2, <2>1, <2>2
<1>3. Tending(c)'
  BY <1>1, <1>2 DEF Tending, Provisioning, MadeFor, Deleted
<1> QED BY <1>1, <1>3 DEF Tended, Leaving

LEMMA EditTends ==
    ASSUME Steadfast, Tended, NEW c \in Clusters,
           DeleteCluster(c) \/ SetOwner(c) \/ CompleteSpec(c)
    PROVE  /\ Tended' /\ UNCHANGED vlans
           /\ \A d \in Clusters : /\ stored'[d].status = stored[d].status
                                  /\ d # c => stored'[d] = stored[d]
           /\ stored[c].exists
<1>1. stored \in [Clusters -> Object] /\ stored[c] \in Object
  BY DEF Steadfast, TypeOK
<1>2. PICK o : /\ EditCluster(c, o)
               /\ \/ o = [stored[c] EXCEPT !.deleting = TRUE,
                                           !.exists = stored[c].finalizer]
                  \/ o = [stored[c] EXCEPT !.owned = TRUE]
                  \/ o = [stored[c] EXCEPT !.valid = TRUE]
  BY DEF DeleteCluster, SetOwner, CompleteSpec
<1>3. /\ o.status = stored[c].status /\ o.finalizer = stored[c].finalizer
      /\ \/ o.deleting = TRUE
         \/ o.deleting = stored[c].deleting /\ o.exists = stored[c].exists
  BY <1>1, <1>2 DEF Object
<1>4. /\ stored' = [stored EXCEPT ![c] = o] /\ stored[c].exists
      /\ UNCHANGED <<worker, vlans>>
  BY <1>2 DEF EditCluster
<1>5. /\ stored'[c] = o
      /\ \A d \in Clusters : d # c => stored'[d] = stored[d]
  BY <1>1, <1>4
<1>6. Leaving'
  BY <1>3, <1>5 DEF Tended, Leaving
<1>7. ASSUME key # None
      PROVE  Tending(key)'
  <2>1. PICK d \in Clusters : d = key /\ Tending(d)
    BY <1>7 DEF Steadfast, TypeOK, Tended
  <2>2. /\ stored'[d].status = stored[d].status
        /\ stored'[d].finalizer = stored[d].finalizer
    BY <1>3, <1>5
  <2>3. Tending(d)'
    BY <1>4, <2>1, <2>2 DEF Tending, MadeFor, Deleted, worker
  <2> QED BY <1>4, <2>1, <2>3 DEF worker
<1> QED BY <1>3, <1>4, <1>5, <1>6, <1>7 DEF Tended, worker

LEMMA NextTends ==
    ASSUME OneEach, Steadfast, Tended, Next
    PROVE  Tended'
<1>1. CASE UNCHANGED <<stored, worker, vlans>>
  BY <1>1 DEF Tended, Leaving, Tending, MadeFor, Deleted, worker
<1>2. ASSUME NEW c \in Clusters, Reconcile(c)
      PROVE  Tended'
  BY <1>2, ReconcileTends
<1>3. CASE Continue
  BY <1>3, ReconcileNormalTends, ReconcileVLANTends, ReconcileDeleteTends,
     PatchTends DEF Continue
<1>4. CASE CrashRestart
  BY <1>4 DEF CrashRestart, Rest, Tended, Leaving
<1>5. ASSUME NEW c \in Clusters, DeleteCluster(c) \/ SetOwner(c) \/ CompleteSpec(c)
      PROVE  Tended'
  BY <1>5, EditTends
<1> QED BY <1>1, <1>2, <1>3, <1>4, <1>5
        DEF OneEach, Next, Environment, ReconcileGone, CacheSync, EditVLANConfig,
            RemoveExternally, HostAppears, HostUp, HostGoes, api

LEMMA StartTends == ControllerInit => Tended
BY DEF ControllerInit, NewCluster, Tended, Leaving

\* What one step does to the clusters' VLANs.
SameNetworks ==
    \A v \in VLANs, c \in Clusters : MadeBy(v, c)' <=> MadeBy(v, c)

Networks(c, v) ==
    /\ stored[c].exists /\ ~stored[c].status.ready
    /\ NoneMadeBy(c)
    /\ \A d \in Clusters : ~MadeBy(v, d)
    /\ \A w \in VLANs, d \in Clusters :
         MadeBy(w, d)' <=> MadeBy(w, d) \/ (w = v /\ d = c)

Frees(c) ==
    /\ stored[c].deleting
    /\ \A w \in VLANs, d \in Clusters : MadeBy(w, d)' <=> MadeBy(w, d) /\ d # c

\* What one step does to the stored object of c, as the lifecycle sees it.
Stays(c) ==
    /\ stored'[c].exists = stored[c].exists
    /\ stored'[c].status.ready = stored[c].status.ready
    /\ stored'[c].status.endpoint = stored[c].status.endpoint

OthersStay(c) == \A d \in Clusters : d # c => Stays(d)

Readies(c) ==
    /\ stored[c].exists /\ ~stored[c].status.ready
    /\ stored'[c].exists /\ stored'[c].status.ready
    /\ stored'[c].status.endpoint = stored[c].status.endpoint

Discovers(c) ==
    /\ stored[c].exists /\ stored[c].status.ready
    /\ stored'[c].exists /\ stored'[c].status.ready
    /\ stored[c].status.endpoint = None /\ stored'[c].status.endpoint # None

Vanishes(c) ==
    /\ stored[c].exists /\ ~stored'[c].exists
    /\ stored'[c].deleting
    /\ stored'[c].status = stored[c].status

LEMMA CreateVLANNetworks ==
    ASSUME OneEach, "listError" \notin Events, Steadfast, Tended,
           NEW v \in VLANs, StoreVLAN(v)
    PROVE  \E c \in Clusters : Networks(c, v)
<1>1. PICK c \in Clusters :
        /\ c = key /\ Tending(c) /\ Held(obj, c) /\ Placed
        /\ stored[c] \in Object
  BY WorkerTends DEF StoreVLAN
<1>2. /\ pc = "createVLAN" /\ VLANsFor(c) = {}
      /\ vlans[v].st = "unused"
      /\ vlans' = [vlans EXCEPT ![v] = [st |-> "live", creator |-> c]]
      /\ vlans \in [VLANs -> VLAN]
  BY <1>1 DEF StoreVLAN, NoneListed, Steadfast, TypeOK
<1>3. stored[c].exists
  <2>1. stored[c].finalizer
    BY <1>1, <1>2 DEF Tending, Provisioning
  <2> QED BY <2>1 DEF Steadfast, Awake, AllFinalized, Finalized
<1>4. NoneMadeBy(c)
  BY <1>2, ClusterAssumption DEF NoneMadeBy, MadeBy, VLANsFor
<1>5. ~stored[c].status.ready
  <2> SUFFICES ASSUME stored[c].status.ready
               PROVE  FALSE
    OBVIOUS
  <2>1. stored[c].config.configured /\ stored[c].config.existing = None
    BY <1>1, <1>2 DEF Placed, Held
  <2>2. Held(stored[c], c)
    BY DEF Steadfast, Records, Copies
  <2>3. PICK w \in VLANs : w = stored[c].status.vlanID
    BY <1>1, <2>1, <2>2 DEF Held, Object, Status
  <2>4. Used(w) /\ MadeFor(w, c)
    BY <2>1, <2>2, <2>3 DEF Held
  <2>5. ~Deleted(w)
    BY <1>1, <1>2, <2>4 DEF Tending, Provisioning
  <2>6. w \in VLANsFor(c)
    BY <1>2, <2>4, <2>5 DEF Used, Deleted, MadeFor, VLANsFor, VLAN
  <2> QED BY <1>2, <2>6
<1>6. \A w \in VLANs, d \in Clusters :
        MadeBy(w, d)' <=> MadeBy(w, d) \/ (w = v /\ d = c)
  BY <1>2 DEF MadeBy
<1> QED BY <1>2, <1>3, <1>4, <1>5, <1>6 DEF Networks, MadeBy

LEMMA CleanupFrees ==
    ASSUME OneEach, Steadfast, Tended, OneVLANPerDescription, CleanupVLAN
    PROVE  SameNetworks \/ \E c \in Clusters : Frees(c)
<1>1. CASE UNCHANGED vlans
  BY <1>1 DEF SameNetworks, MadeBy
<1>2. CASE vlans' = [vlans EXCEPT ![obj.status.vlanID].st = "deleted"]
  <2>1. PICK c \in Clusters :
          /\ c = key /\ Held(obj, c) /\ Placed
          /\ obj \in Object /\ obj.status \in Status
    BY WorkerTends DEF CleanupVLAN
  <2>2. PICK v \in VLANs : v = obj.status.vlanID
    BY <2>1 DEF CleanupVLAN, OwnsVLAN, Status
  <2>3. MadeFor(v, c) /\ stored[c].deleting /\ v # None
    BY <2>1, <2>2 DEF CleanupVLAN, OwnsVLAN, Held, Placed
  <2>4. /\ vlans \in [VLANs -> VLAN]
        /\ vlans'[v].st = "deleted"
        /\ \A w \in VLANs : w # v => vlans'[w] = vlans[w]
    BY <1>2, <2>2 DEF Steadfast, TypeOK, VLAN
  <2>5. vlans[v].creator = c
    BY <2>3, <2>4 DEF MadeFor, OneEach, VLAN
  <2>6. CASE vlans[v].st # "live"
    BY <2>4, <2>6 DEF SameNetworks, MadeBy
  <2>7. CASE vlans[v].st = "live"
    <3>1. \A w \in VLANs : MadeBy(w, c) => w = v
      BY <2>1, <2>5, <2>7, ClusterAssumption
         DEF OneVLANPerDescription, VLANsFor, MadeBy
    <3> QED BY <2>3, <2>4, <2>5, <3>1 DEF Frees, MadeBy
  <2> QED BY <2>6, <2>7
<1> QED BY <1>1, <1>2 DEF CleanupVLAN

LEMMA PatchSteps ==
    ASSUME Steadfast, Tended, Patch
    PROVE  /\ UNCHANGED vlans
           /\ \/ \A c \in Clusters : Stays(c)
              \/ \E c \in Clusters :
                   OthersStay(c) /\ (Readies(c) \/ Discovers(c) \/ Vanishes(c))
<1>1. PICK c \in Clusters :
        /\ c = key /\ UNCHANGED vlans
        /\ \A d \in Clusters : d # c => stored'[d] = stored[d]
        /\ \/ stored' = stored
           \/ /\ stored[c].exists
              /\ stored'[c].status = stored[c].status
              /\ stored'[c].deleting = stored[c].deleting
              /\ stored'[c].exists = stored[c].exists \/ stored[c].deleting
           \/ /\ stored[c].exists
              /\ stored'[c].exists = stored[c].exists
              /\ stored'[c].status.ready =
                   IF obj.status.ready = before.status.ready
                   THEN stored[c].status.ready ELSE obj.status.ready
              /\ stored'[c].status.endpoint = obj.status.endpoint
  BY PatchWrites
<1>2. /\ stored[c].status.ready \in BOOLEAN /\ stored'[c].exists \in BOOLEAN
      /\ before.status.ready \in BOOLEAN /\ obj.status.ready \in BOOLEAN
      /\ stored[c].exists \in BOOLEAN
  <2>1. TypeOK'
    BY NextType DEF Steadfast, Next, Continue
  <2>2. stored'[c] \in Object /\ stored[c] \in Object /\ before \in Object /\ obj \in Object
    BY <2>1 DEF Steadfast, TypeOK
  <2> QED BY <2>2 DEF Object, Status
<1>3. /\ c # None /\ Tending(c)
      /\ stored[c].status.endpoint = before.status.endpoint
      /\ obj.status.endpoint # before.status.endpoint =>
           before.status.endpoint = None
      /\ before.status.ready => obj.status.ready
  BY <1>1, ClusterAssumption DEF Steadfast, Tended, EndpointRead, Declared
<1>4. CASE stored' = stored
  BY <1>1, <1>4 DEF Stays
<1>5. CASE /\ stored[c].exists
           /\ stored'[c].status = stored[c].status
           /\ stored'[c].deleting = stored[c].deleting
           /\ stored'[c].exists = stored[c].exists \/ stored[c].deleting
  BY <1>1, <1>2, <1>5 DEF Stays, OthersStay, Vanishes
<1>6. CASE /\ stored[c].exists
           /\ stored'[c].exists = stored[c].exists
           /\ stored'[c].status.ready =
                IF obj.status.ready = before.status.ready
                THEN stored[c].status.ready ELSE obj.status.ready
           /\ stored'[c].status.endpoint = obj.status.endpoint
  <2>1. CASE obj.status.endpoint # before.status.endpoint
    <3>1. before.status.ready /\ stored[c].status.ready /\ obj.status.ready
      BY <1>3, <2>1 DEF Tending
    <3>2. Discovers(c)
      BY <1>2, <1>3, <1>6, <2>1, <3>1 DEF Discovers
    <3> QED BY <1>1, <3>2 DEF OthersStay, Stays
  <2>2. CASE /\ obj.status.endpoint = before.status.endpoint
             /\ stored'[c].status.ready = stored[c].status.ready
    BY <1>1, <1>3, <1>6, <2>2 DEF Stays
  <2>3. CASE /\ obj.status.endpoint = before.status.endpoint
             /\ stored'[c].status.ready # stored[c].status.ready
    <3>1. obj.status.ready = TRUE /\ stored'[c].status.ready = TRUE
      BY <1>2, <1>3, <1>6, <2>3
    <3>2. Readies(c)
      BY <1>2, <1>3, <1>6, <2>3, <3>1 DEF Readies
    <3> QED BY <1>1, <3>2 DEF OthersStay, Stays
  <2> QED BY <2>1, <2>2, <2>3
<1> QED BY <1>1, <1>4, <1>5, <1>6

\* The steps of a cluster's life.
LEMMA ClusterSteps ==
    ASSUME OneEach, "listError" \notin Events, Steadfast, Tended,
           OneVLANPerDescription, Next
    PROVE  \/ SameNetworks /\ \A c \in Clusters : Stays(c)
           \/ (\A c \in Clusters : Stays(c)) /\ \E c \in Clusters, v \in VLANs : Networks(c, v)
           \/ (\A c \in Clusters : Stays(c)) /\ \E c \in Clusters : Frees(c)
           \/ /\ SameNetworks
              /\ \E c \in Clusters :
                   OthersStay(c) /\ (Readies(c) \/ Discovers(c) \/ Vanishes(c))
<1>1. UNCHANGED stored => \A c \in Clusters : Stays(c)
  BY DEF Stays
<1>2. UNCHANGED vlans => SameNetworks
  BY DEF SameNetworks, MadeBy
<1>3. CASE UNCHANGED <<stored, vlans>>
  BY <1>1, <1>2, <1>3
<1>4. ASSUME NEW v \in VLANs, CreateVLAN(v) \/ CreateVLANReplyLost(v)
      PROVE  UNCHANGED stored /\ \E c \in Clusters : Networks(c, v)
  BY <1>4, CreateVLANNetworks DEF CreateVLAN, CreateVLANReplyLost, api
<1>5. CASE CleanupVLAN
  BY <1>1, <1>5, CleanupFrees DEF CleanupVLAN, api
<1>6. CASE Patch
  BY <1>2, <1>6, PatchSteps
<1>7. ASSUME NEW c \in Clusters, DeleteCluster(c) \/ SetOwner(c) \/ CompleteSpec(c)
      PROVE  /\ UNCHANGED vlans
             /\ \/ \A d \in Clusters : Stays(d)
                \/ OthersStay(c) /\ Vanishes(c)
  <2>1. /\ Leaving' /\ UNCHANGED vlans /\ stored[c].exists
        /\ \A d \in Clusters : /\ stored'[d].status = stored[d].status
                               /\ d # c => stored'[d] = stored[d]
    BY <1>7, EditTends DEF Tended
  <2>2. stored[c].exists = TRUE /\ stored'[c].exists \in BOOLEAN
    <3>1. TypeOK'
      BY <1>7, NextType DEF Steadfast, Next, Environment
    <3> QED BY <2>1, <3>1 DEF Steadfast, TypeOK, Object
  <2> QED BY <2>1, <2>2 DEF Leaving, OthersStay, Stays, Vanishes
<1> QED BY <1>1, <1>2, <1>3, <1>4, <1>5, <1>6, <1>7
        DEF OneEach, Next, Environment, ReconcileGone, Reconcile, CacheSync,
            EditVLANConfig, CrashRestart, RemoveExternally, HostAppears, HostUp,
            HostGoes, Continue, ReconcileNormal, AddFinalizer, RejectSpec,
            LocationFound, LocationNotFound, MarkReady, KeepEndpoint, SetEndpoint,
            WaitForHost, ReconcileVLAN, NoVLAN, UseExistingVLAN, VLANFound,
            VLANWanted, AdoptVLAN, CreateVLANFails, ReconcileDelete, SkipCleanup,
            api
=============================================================================
