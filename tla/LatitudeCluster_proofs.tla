----------------------- MODULE LatitudeCluster_proofs -----------------------
(***************************************************************************)
(* Theorems about the LatitudeCluster controller, for every set of         *)
(* clusters, machines and VLAN IDs and every set of Events.                *)
(***************************************************************************)
EXTENDS LatitudeCluster, TLAPS

WorkerOK ==
    /\ pc \in PCs
    /\ key \in Clusters \union {None}
    /\ (pc = "idle") <=> (key = None)
    /\ before \in Object
    /\ obj \in Object
    /\ again \in BOOLEAN

(***************************************************************************)
(* The steps the handlers are made of keep the worker's types.             *)
(***************************************************************************)

LEMMA NewClusterType ==
    ASSUME NEW config \in Config
    PROVE  NewCluster(config) \in Object
BY DEF NewCluster, Object, Status, Conditions

LEMMA NothingType == Nothing \in Object
<1>1. [configured |-> FALSE, existing |-> None] \in Config
  BY DEF Config
<1> QED BY <1>1, NewClusterType DEF Nothing

LEMMA RestType == ASSUME Rest PROVE WorkerOK'
BY NothingType DEF WorkerOK, Rest, PCs

LEMMA ReturnType ==
    ASSUME TypeOK, pc # "idle", NEW o \in Object, NEW r \in BOOLEAN, Return(o, r)
    PROVE  WorkerOK'
BY DEF TypeOK, WorkerOK, Return, PCs

LEMMA GoOnType ==
    ASSUME TypeOK, pc # "idle", NEW o \in Object, NEW next \in PCs \ {"idle"},
           GoOn(o, next)
    PROVE  WorkerOK'
BY DEF TypeOK, WorkerOK, GoOn

LEMMA StatusEditType ==
    ASSUME NEW o \in Object, NEW s \in Status
    PROVE  [o EXCEPT !.status = s] \in Object
BY DEF Object

\* While the VLAN is looked for, nothing else of the object changes.
Alike(o, p) ==
    /\ o.deleting = p.deleting
    /\ o.valid = p.valid
    /\ o.config = p.config
    /\ o.finalizer = p.finalizer
    /\ o.status.ready = p.status.ready
    /\ o.status.endpoint = p.status.endpoint

LEMMA StatusEditAlike ==
    ASSUME NEW o \in Object, NEW s,
           s.ready = o.status.ready, s.endpoint = o.status.endpoint
    PROVE  Alike([o EXCEPT !.status = s], o)
BY DEF Alike, Object

LEMMA ConditionType ==
    ASSUME NEW o \in Object, NEW c \in Conditions
    PROVE  SetCondition(o, c) \in Object
<1>1. o.status \in Status
  BY DEF Object
<1>2. [o.status EXCEPT !.condition = c] \in Status
  BY <1>1 DEF Status
<1> QED BY <1>2, StatusEditType DEF SetCondition

LEMMA InfrastructureFailsType ==
    ASSUME TypeOK, pc # "idle", NEW o \in Object, InfrastructureFails(o)
    PROVE  WorkerOK'
<1>1. SetCondition(o, "ClusterProvisionFailed") \in Object
  BY ConditionType DEF Conditions
<1> QED BY <1>1, ReturnType DEF InfrastructureFails

LEMMA RecordVLANType ==
    ASSUME NEW o \in Object, NEW v \in VLANs, NEW vid \in VIDs(v)
    PROVE  RecordVLAN(o, v, vid) \in Object /\ Alike(RecordVLAN(o, v, vid), o)
<1> DEFINE s == [o.status EXCEPT !.vlanID = v, !.vlanVID = vid]
<1>1. o.status \in Status /\ vid \in VLANs \union {None, 0}
  BY DEF Object, VIDs
<1>2. s \in Status /\ s.ready = o.status.ready /\ s.endpoint = o.status.endpoint
  BY <1>1 DEF Status
<1>3. RecordVLAN(o, v, vid) = [o EXCEPT !.status = s]
  BY DEF RecordVLAN
<1> HIDE DEF s
<1> QED BY <1>2, <1>3, StatusEditType, StatusEditAlike

LEMMA MergeSpecType ==
    ASSUME NEW b \in Object, NEW a \in Object, NEW c \in Object
    PROVE  MergeSpec(b, a, c) \in Object
<1> DEFINE f == Merged(b.finalizer, a.finalizer, c.finalizer)
           e == c.exists /\ (c.deleting => f)
<1>1. f \in BOOLEAN
  BY DEF Merged, Object
<1>2. MergeSpec(b, a, c) = [c EXCEPT !.finalizer = f, !.exists = e]
  BY DEF MergeSpec
<1> HIDE DEF f
<1>3. e \in BOOLEAN
  OBVIOUS
<1> HIDE DEF e
<1> QED BY <1>1, <1>2, <1>3 DEF Object

LEMMA MergeStatusType ==
    ASSUME NEW b \in Status, NEW a \in Status, NEW c \in Status
    PROVE  MergeStatus(b, a, c) \in Status
BY DEF MergeStatus, Merged, Status

LEMMA StillWorker ==
    ASSUME TypeOK, UNCHANGED worker
    PROVE  WorkerOK'
BY DEF TypeOK, WorkerOK, worker

(***************************************************************************)
(* Which parts of TypeOK a step has to answer for.                         *)
(***************************************************************************)

\* A step of the worker, which may be a call to Latitude.sh.
LEMMA HandlerType ==
    ASSUME TypeOK, WorkerOK', vlans' \in [VLANs -> VLAN],
           UNCHANGED <<api, queue, hosts>>
    PROVE  TypeOK'
BY DEF TypeOK, WorkerOK, api, hosts

\* A step that patches an object, or edits it, and may fill the queue.
LEMMA ApiStepType ==
    ASSUME TypeOK, WorkerOK', queue' \subseteq Clusters,
           stored' \in [Clusters -> Object], cached' \in [Clusters -> Object],
           UNCHANGED <<vlans, hosts>>
    PROVE  TypeOK'
BY DEF TypeOK, WorkerOK, hosts

LEMMA AtWorkType ==
    ASSUME TypeOK, pc # "idle"
    PROVE  /\ key \in Clusters /\ key # None
           /\ obj \in Object /\ obj.status \in Status
           /\ before \in Object /\ before.status \in Status
           /\ stored \in [Clusters -> Object] /\ stored[key] \in Object
BY DEF TypeOK, Object

LEMMA ReconcileNormalType ==
    ASSUME TypeOK, ReconcileNormal
    PROVE  TypeOK'
<1>1. pc # "idle"
  BY DEF ReconcileNormal, AddFinalizer, RejectSpec, LocationFound,
         LocationNotFound, MarkReady, KeepEndpoint, SetEndpoint, WaitForHost,
         Discovering
<1>2. obj \in Object /\ obj.status \in Status
  BY <1>1, AtWorkType
<1>3. /\ UNCHANGED <<api, queue, hosts>>
      /\ vlans' \in [VLANs -> VLAN]
  BY DEF ReconcileNormal, AddFinalizer, RejectSpec, LocationFound,
         LocationNotFound, MarkReady, KeepEndpoint, SetEndpoint, WaitForHost,
         TypeOK
<1>4. WorkerOK'
  <2>1. CASE AddFinalizer
    <3>1. [obj EXCEPT !.finalizer = TRUE] \in Object
      BY <1>2 DEF Object
    <3> QED BY <1>1, <2>1, <3>1, ReturnType DEF AddFinalizer
  <2>2. CASE RejectSpec
    <3>1. SetCondition(obj, "InvalidClusterConfig") \in Object
      BY <1>2, ConditionType DEF Conditions
    <3> QED BY <1>1, <2>2, <3>1, ReturnType DEF RejectSpec
  <2>3. CASE LocationFound
    BY <1>1, <1>2, <2>3, GoOnType DEF LocationFound, PCs
  <2>4. CASE LocationNotFound
    BY <1>1, <1>2, <2>4, InfrastructureFailsType DEF LocationNotFound
  <2>5. CASE MarkReady
    <3> DEFINE s == [obj.status EXCEPT !.ready = TRUE]
               o == [obj EXCEPT !.status.ready = TRUE]
    <3>1. s \in Status
      BY <1>2 DEF Status
    <3>2. o \in Object
      BY <1>2, <3>1, StatusEditType
    <3> HIDE DEF o
    <3>3. SetCondition(o, "ClusterReady") \in Object
      BY <3>2, ConditionType DEF Conditions
    <3> QED BY <1>1, <2>5, <3>3, ReturnType DEF MarkReady, o
  <2>6. CASE KeepEndpoint \/ WaitForHost
    BY <1>1, <1>2, <2>6, ReturnType DEF KeepEndpoint, WaitForHost
  <2>7. ASSUME NEW h \in Hosts, SetEndpoint(h)
        PROVE  WorkerOK'
    <3> DEFINE s == [obj.status EXCEPT !.endpoint = h]
               o == [obj EXCEPT !.status.endpoint = h]
    <3>1. s \in Status
      BY <1>2 DEF Status
    <3>2. o \in Object
      BY <1>2, <3>1, StatusEditType
    <3> HIDE DEF o
    <3>3. SetCondition(o, "ControlPlaneEndpointSet") \in Object
      BY <3>2, ConditionType DEF Conditions
    <3> QED BY <1>1, <2>7, <3>3, ReturnType DEF SetEndpoint, o
  <2> QED BY <2>1, <2>2, <2>3, <2>4, <2>5, <2>6, <2>7 DEF ReconcileNormal
<1> QED BY <1>3, <1>4, HandlerType

LEMMA StoreVLANType ==
    ASSUME TypeOK, NEW v \in VLANs, StoreVLAN(v)
    PROVE  vlans' \in [VLANs -> VLAN]
<1>1. key \in Clusters
  BY AtWorkType DEF StoreVLAN
<1> QED BY <1>1 DEF StoreVLAN, TypeOK, VLAN

\* reconcileVLAN changes nothing of the object but the VLAN it records.
LEMMA ReconcileVLANStep ==
    ASSUME TypeOK, ReconcileVLAN
    PROVE  /\ pc \in {"reconcileVLAN", "createVLAN"}
           /\ UNCHANGED <<api, queue, hosts>>
           /\ vlans' \in [VLANs -> VLAN]
           /\ \E o \in Object :
                /\ Alike(o, obj)
                /\ \/ GoOn(o, "createVLAN")
                   \/ GoOn(o, "reconciled")
                   \/ InfrastructureFails(o)
<1>1. pc \in {"reconcileVLAN", "createVLAN"}
  BY DEF ReconcileVLAN, NoVLAN, UseExistingVLAN, VLANFound, VLANWanted, AdoptVLAN,
         CreateVLAN, CreateVLANReplyLost, StoreVLAN, CreateVLANFails, OwnVLAN,
         AtVLAN
<1>2. obj \in Object /\ obj.status \in Status /\ Alike(obj, obj)
  BY <1>1, AtWorkType DEF Alike
<1>3. UNCHANGED <<api, queue, hosts>>
  BY DEF ReconcileVLAN, NoVLAN, UseExistingVLAN, VLANFound, VLANWanted, AdoptVLAN,
         CreateVLAN, CreateVLANReplyLost, CreateVLANFails
<1>4. UNCHANGED vlans => vlans' \in [VLANs -> VLAN]
  BY DEF TypeOK
<1>5. CASE NoVLAN \/ VLANWanted \/ CreateVLANFails
  BY <1>1, <1>2, <1>3, <1>4, <1>5 DEF NoVLAN, VLANWanted, CreateVLANFails
<1>6. CASE UseExistingVLAN
  <2> DEFINE v == obj.config.existing
             s == [obj.status EXCEPT !.vlanID = v]
             o == [obj EXCEPT !.status = s]
  <2>1. v \in VLANs
    BY <1>2, <1>6, ClusterAssumption DEF UseExistingVLAN, Object, Config
  <2>2. /\ s \in Status
        /\ s.ready = obj.status.ready /\ s.endpoint = obj.status.endpoint
    BY <1>2, <2>1 DEF Status
  <2>3. \/ GoOn(o, "reconciled")
        \/ \E vid \in VIDs(v) : GoOn(RecordVLAN(obj, v, vid), "reconciled")
        \/ InfrastructureFails(o)
    BY <1>6 DEF UseExistingVLAN
  <2>4. UNCHANGED vlans
    BY <1>6 DEF UseExistingVLAN
  <2> HIDE DEF v, s
  <2>5. o \in Object /\ Alike(o, obj)
    BY <1>2, <2>2, StatusEditType, StatusEditAlike
  <2> HIDE DEF o
  <2> QED BY <1>1, <1>2, <1>3, <1>4, <2>1, <2>3, <2>4, <2>5, RecordVLANType
<1>7. CASE VLANFound
  <2>1. PICK vid \in VIDs(obj.status.vlanID) :
          GoOn([obj EXCEPT !.status.vlanVID = IF @ = None THEN vid ELSE @],
               "reconciled")
    BY <1>7 DEF VLANFound
  <2> DEFINE w == IF obj.status.vlanVID = None THEN vid ELSE obj.status.vlanVID
             s == [obj.status EXCEPT !.vlanVID = w]
             o == [obj EXCEPT !.status = s]
  <2>2. vid \in VLANs \union {None, 0}
    BY <1>2, <1>7, <2>1 DEF VLANFound, RecordedVLANLives, VIDs, Status
  <2>3. w \in VLANs \union {None, 0}
    BY <1>2, <2>2 DEF Status
  <2>4. GoOn(o, "reconciled") /\ UNCHANGED vlans
    BY <1>7, <2>1 DEF VLANFound
  <2> HIDE DEF w
  <2>5. /\ s \in Status
        /\ s.ready = obj.status.ready /\ s.endpoint = obj.status.endpoint
    BY <1>2, <2>3 DEF Status
  <2> HIDE DEF s
  <2>6. o \in Object /\ Alike(o, obj)
    BY <1>2, <2>5, StatusEditType, StatusEditAlike
  <2> HIDE DEF o
  <2> QED BY <1>1, <1>3, <1>4, <2>4, <2>6
<1>8. ASSUME NEW v \in VLANs,
             AdoptVLAN(v) \/ CreateVLAN(v) \/ CreateVLANReplyLost(v)
      PROVE  /\ vlans' \in [VLANs -> VLAN]
             /\ \E o \in Object :
                  /\ Alike(o, obj)
                  /\ GoOn(o, "reconciled") \/ InfrastructureFails(o)
  <2>1. vlans' \in [VLANs -> VLAN]
    BY <1>4, <1>8, StoreVLANType DEF AdoptVLAN, CreateVLAN, CreateVLANReplyLost
  <2>2. \/ \E vid \in VIDs(v) : GoOn(RecordVLAN(obj, v, vid), "reconciled")
        \/ InfrastructureFails(obj)
    BY <1>8 DEF AdoptVLAN, CreateVLAN, CreateVLANReplyLost
  <2> QED BY <1>2, <2>1, <2>2, RecordVLANType
<1> QED BY <1>1, <1>3, <1>5, <1>6, <1>7, <1>8 DEF ReconcileVLAN

LEMMA ReconcileVLANType ==
    ASSUME TypeOK, ReconcileVLAN
    PROVE  TypeOK'
<1>1. {"reconciled", "createVLAN"} \subseteq PCs \ {"idle"}
  BY DEF PCs
<1>2. WorkerOK'
  BY <1>1, ReconcileVLANStep, GoOnType, InfrastructureFailsType
<1> QED BY <1>2, ReconcileVLANStep, HandlerType

LEMMA ReconcileDeleteType ==
    ASSUME TypeOK, ReconcileDelete
    PROVE  TypeOK'
<1>1. /\ pc = "reconcileDelete" /\ DeletionDone
      /\ UNCHANGED <<api, queue, hosts>>
  BY DEF ReconcileDelete, SkipCleanup, CleanupVLAN
<1>2. [obj EXCEPT !.finalizer = FALSE] \in Object
  BY <1>1, AtWorkType DEF Object
<1>3. WorkerOK'
  BY <1>1, <1>2, ReturnType DEF DeletionDone
<1>4. \/ UNCHANGED vlans
      \/ vlans' = [vlans EXCEPT ![obj.status.vlanID].st = "deleted"]
  BY DEF ReconcileDelete, SkipCleanup, CleanupVLAN
<1>5. vlans' \in [VLANs -> VLAN]
  BY <1>4 DEF TypeOK, VLAN
<1> QED BY <1>1, <1>3, <1>5, HandlerType

LEMMA FinishType ==
    ASSUME TypeOK, pc # "idle", NEW failed, Finish(failed)
    PROVE  WorkerOK' /\ queue' \subseteq Clusters
BY AtWorkType, RestType DEF Finish, TypeOK

LEMMA PatchType ==
    ASSUME TypeOK, Patch
    PROVE  TypeOK'
<1>1. pc # "idle" /\ UNCHANGED <<cached, vlans, hosts>>
  BY DEF Patch, PatchObject, SkipPatchObject, PatchObjectFails, PatchStatus,
         SkipPatchStatus, PatchStatusFails, api
<1>2. /\ key \in Clusters
      /\ obj \in Object /\ obj.status \in Status
      /\ before \in Object /\ before.status \in Status
      /\ stored \in [Clusters -> Object] /\ stored[key] \in Object
      /\ cached \in [Clusters -> Object] /\ queue \subseteq Clusters
  BY <1>1, AtWorkType DEF TypeOK
<1>3. "patchStatus" \in PCs \ {"idle"}
  BY DEF PCs
<1>4. CASE PatchObject
  <2> DEFINE o == MergeSpec(before, obj, stored[key])
  <2>1. o \in Object
    BY <1>2, MergeSpecType
  <2>2. stored' = [stored EXCEPT ![key] = o]
    BY <1>4 DEF PatchObject
  <2>3. WorkerOK'
    BY <1>1, <1>2, <1>3, <1>4, GoOnType DEF PatchObject
  <2> HIDE DEF o
  <2>4. stored' \in [Clusters -> Object]
    BY <1>2, <2>1, <2>2
  <2> QED BY <1>1, <1>2, <1>4, <2>3, <2>4, ApiStepType DEF PatchObject
<1>5. CASE SkipPatchObject
  <2>1. WorkerOK'
    BY <1>1, <1>2, <1>3, <1>5, GoOnType DEF SkipPatchObject
  <2> QED BY <1>1, <1>2, <1>5, <2>1, ApiStepType DEF SkipPatchObject, api
<1>6. CASE PatchObjectFails
  <2>1. WorkerOK'
    BY <1>1, <1>3, <1>6 DEF PatchObjectFails, TypeOK, WorkerOK
  <2> QED BY <1>1, <1>2, <1>6, <2>1, ApiStepType DEF PatchObjectFails, api
<1>7. CASE PatchStatus
  <2> DEFINE s == MergeStatus(before.status, obj.status, stored[key].status)
             o == [stored[key] EXCEPT !.status = s]
  <2>1. s \in Status
    BY <1>2, MergeStatusType DEF Object
  <2>2. stored' = [stored EXCEPT ![key] = o]
    BY <1>7 DEF PatchStatus
  <2> HIDE DEF s
  <2>3. o \in Object
    BY <1>2, <2>1, StatusEditType
  <2> HIDE DEF o
  <2>4. stored' \in [Clusters -> Object]
    BY <1>2, <2>2, <2>3
  <2>5. WorkerOK' /\ queue' \subseteq Clusters
    BY <1>1, <1>7, FinishType DEF PatchStatus
  <2> QED BY <1>1, <1>2, <2>4, <2>5, ApiStepType
<1>8. CASE SkipPatchStatus \/ PatchStatusFails
  <2>1. (\E failed : Finish(failed)) /\ UNCHANGED stored
    BY <1>8 DEF SkipPatchStatus, PatchStatusFails, api
  <2>2. WorkerOK' /\ queue' \subseteq Clusters
    BY <1>1, <2>1, FinishType
  <2> QED BY <1>1, <1>2, <2>1, <2>2, ApiStepType
<1> QED BY <1>4, <1>5, <1>6, <1>7, <1>8 DEF Patch

LEMMA QueueType ==
    ASSUME TypeOK, NEW c \in Clusters,
           ReconcileGone(c) \/ Reconcile(c) \/ CacheSync(c)
    PROVE  TypeOK'
<1>1. /\ cached[c] \in Object /\ stored[c] \in Object
      /\ cached \in [Clusters -> Object] /\ stored \in [Clusters -> Object]
      /\ queue \subseteq Clusters
  BY DEF TypeOK
<1>2. CASE ReconcileGone(c)
  BY <1>1, <1>2, StillWorker, ApiStepType DEF ReconcileGone, api
<1>3. CASE Reconcile(c)
  <2>1. pc' \in {"reconcileDelete", "reconcileNormal"}
    BY <1>3 DEF Reconcile
  <2>2. WorkerOK'
    BY <1>1, <1>3, <2>1, ClusterAssumption DEF Reconcile, WorkerOK, PCs
  <2> QED BY <1>1, <1>3, <2>2, ApiStepType DEF Reconcile, api
<1>4. CASE CacheSync(c)
  BY <1>1, <1>4, StillWorker, ApiStepType DEF CacheSync
<1> QED BY <1>2, <1>3, <1>4

LEMMA EditClusterType ==
    ASSUME TypeOK, NEW c \in Clusters, NEW o \in Object, EditCluster(c, o)
    PROVE  TypeOK'
<1>1. stored' \in [Clusters -> Object]
  BY DEF EditCluster, TypeOK
<1> QED BY <1>1, StillWorker, ApiStepType DEF EditCluster, TypeOK

LEMMA EnvironmentType ==
    ASSUME TypeOK, Environment
    PROVE  TypeOK'
<1>1. CASE CrashRestart
  BY <1>1, RestType, ApiStepType DEF CrashRestart, TypeOK
<1>2. ASSUME NEW c \in Clusters,
             DeleteCluster(c) \/ SetOwner(c) \/ CompleteSpec(c) \/ EditVLANConfig(c)
      PROVE  TypeOK'
  <2>1. stored[c] \in Object
    BY DEF TypeOK
  <2>2. PICK o : /\ EditCluster(c, o)
                 /\ \/ o = [stored[c] EXCEPT !.deleting = TRUE,
                                             !.exists = stored[c].finalizer]
                    \/ o = [stored[c] EXCEPT !.owned = TRUE]
                    \/ o = [stored[c] EXCEPT !.valid = TRUE]
                    \/ \E config \in Config : o = [stored[c] EXCEPT !.config = config]
    BY <1>2 DEF DeleteCluster, SetOwner, CompleteSpec, EditVLANConfig
  <2>3. o \in Object
    BY <2>1, <2>2 DEF Object
  <2> QED BY <2>2, <2>3, EditClusterType
<1>3. ASSUME NEW v \in VLANs, RemoveExternally(v)
      PROVE  TypeOK'
  <2>1. vlans' \in [VLANs -> VLAN]
    BY <1>3 DEF RemoveExternally, TypeOK, VLAN
  <2> QED BY <1>3, <2>1, StillWorker, HandlerType DEF RemoveExternally
<1>4. ASSUME NEW h \in Hosts, HostAppears(h) \/ HostUp(h) \/ HostGoes(h)
      PROVE  TypeOK'
  BY <1>4 DEF HostAppears, HostUp, HostGoes, TypeOK, api, worker
<1> QED BY <1>1, <1>2, <1>3, <1>4 DEF Environment

LEMMA NextType == TypeOK /\ [Next]_vars => TypeOK'
<1> SUFFICES ASSUME TypeOK, [Next]_vars
             PROVE  TypeOK'
  OBVIOUS
<1>1. CASE UNCHANGED vars
  BY <1>1 DEF vars, api, worker, hosts, TypeOK
<1>2. CASE Next
  BY <1>2, QueueType, ReconcileNormalType, ReconcileVLANType, ReconcileDeleteType,
     PatchType, EnvironmentType DEF Next, Continue
<1> QED BY <1>1, <1>2

LEMMA StartType ==
    ASSUME ControllerInit, present \subseteq Hosts, up \subseteq present
    PROVE  TypeOK
<1>1. {NewCluster(c) : c \in Config} \subseteq Object
  BY NewClusterType
<1>2. stored \in [Clusters -> Object]
  BY <1>1 DEF ControllerInit
<1>3. vlans \in [VLANs -> VLAN]
  BY DEF ControllerInit, VLAN
<1> QED BY <1>2, <1>3, NothingType DEF ControllerInit, TypeOK, PCs

LEMMA InitType == Init => TypeOK
BY StartType DEF Init

\* Every variable of the controller keeps its type, and its worker has a key
\* exactly while it is at work.
THEOREM ClusterTypeCorrect == Spec => []TypeOK
BY InitType, NextType, PTL DEF Spec

-----------------------------------------------------------------------------
(***************************************************************************)
(* No cluster is forgotten.                                                *)
(***************************************************************************)

\* An object the controller has something to do for.
Asks(o) == o.exists /\ (o.deleting \/ (o.valid /\ o.status.endpoint = None))

\* The fields only the controller writes: when the cache is behind on one of
\* them, the watch has an event to deliver.
Written(o) == <<o.finalizer, o.status>>

\* The cache shows no cluster that asks and is neither queued, nor worked on,
\* nor about to be enqueued; and it shows the worker's cluster as it was read,
\* unless the watch has enqueued that again.
Noticed ==
    /\ \A c \in Clusters :
         Asks(cached[c]) =>
           c \in queue \/ key = c \/ Written(stored[c]) # Written(cached[c])
    /\ key # None /\ key \notin queue => cached[key] = before

\* A finalizer keeps an object that is being deleted, and goes with it.
Finalized(o) == (o.exists /\ o.deleting => o.finalizer) /\ (~o.exists => ~o.finalizer)

AllFinalized == \A c \in Clusters : Finalized(stored[c]) /\ Finalized(cached[c])

\* A reconciliation that ends without asking for another has changed, or is
\* about to change, what only the controller writes.
HandsBack ==
    ~again =>
      /\ pc = "patchObject" => SpecChanged \/ StatusChanged \/ ~Asks(before)
      /\ pc = "patchStatus" =>
           \/ stored[key].finalizer # before.finalizer
           \/ StatusChanged
           \/ ~Asks(before)

Provisioning == {"reconcileNormal", "reconcileVLAN", "createVLAN", "reconciled"}

Worked ==
    /\ before.exists /\ Finalized(before)
    /\ obj.deleting = before.deleting
    /\ pc \in Provisioning => Alike(obj, before) /\ ~before.deleting
    /\ pc = "reconcileDelete" => before.deleting
    /\ HandsBack

Awake == AllFinalized /\ Noticed /\ (key # None => Worked)

\* A handler leaves the API server, the cache and the queue alone: what it has
\* to answer for is the worker's object.
LEMMA HandlerStep ==
    ASSUME Awake, key # None, Worked', UNCHANGED <<api, queue, key, before>>
    PROVE  Awake'
BY DEF Awake, AllFinalized, Noticed, api

LEMMA ReturnStep ==
    ASSUME Awake, key # None, NEW o, NEW r \in BOOLEAN, Return(o, r),
           o.deleting = obj.deleting,
           \/ r
           \/ o.finalizer # before.finalizer
           \/ o.status # before.status
           \/ ~Asks(before),
           UNCHANGED <<api, queue>>
    PROVE  Awake'
<1>1. /\ obj' = o /\ again' = r /\ pc' = "patchObject"
      /\ UNCHANGED <<key, before>>
  BY DEF Return
<1>2. HandsBack'
  BY <1>1 DEF HandsBack, SpecChanged, StatusChanged
<1>3. Worked'
  BY <1>1, <1>2 DEF Awake, Worked, Provisioning
<1> QED BY <1>1, <1>3, HandlerStep

LEMMA GoOnStep ==
    ASSUME Awake, key # None, pc \in Provisioning,
           NEW o, NEW next \in {"reconcileVLAN", "createVLAN", "reconciled"},
           GoOn(o, next), Alike(o, obj),
           UNCHANGED <<api, queue>>
    PROVE  Awake'
<1>1. /\ obj' = o /\ pc' = next
      /\ UNCHANGED <<key, before>>
  BY DEF GoOn
<1>2. HandsBack'
  BY <1>1 DEF HandsBack
<1>3. Worked'
  BY <1>1, <1>2 DEF Awake, Worked, Alike
<1> QED BY <1>1, <1>3, HandlerStep

LEMMA ConditionKeeps ==
    ASSUME NEW o \in Object, NEW r
    PROVE  /\ SetCondition(o, r).deleting = o.deleting
           /\ SetCondition(o, r).status.ready = o.status.ready
           /\ SetCondition(o, r).status.endpoint = o.status.endpoint
BY DEF SetCondition, Object, Status

LEMMA InfrastructureFailsStep ==
    ASSUME Awake, key # None, NEW o \in Object, o.deleting = obj.deleting,
           InfrastructureFails(o), UNCHANGED <<api, queue>>
    PROVE  Awake'
<1>1. SetCondition(o, "ClusterProvisionFailed").deleting = obj.deleting
  BY ConditionKeeps
<1> QED BY <1>1, ReturnStep DEF InfrastructureFails

LEMMA ReconcileNormalWakes ==
    ASSUME TypeOK, Awake, ReconcileNormal
    PROVE  Awake'
<1>1. pc # "idle" /\ pc \in Provisioning
  BY DEF ReconcileNormal, AddFinalizer, RejectSpec, LocationFound,
         LocationNotFound, MarkReady, KeepEndpoint, SetEndpoint, WaitForHost,
         Discovering, Provisioning
<1>2. /\ key # None
      /\ obj \in Object /\ obj.status \in Status
      /\ Alike(obj, before) /\ ~before.deleting
      /\ UNCHANGED <<api, queue>>
  BY <1>1, AtWorkType
     DEF Awake, Worked, ReconcileNormal, AddFinalizer, RejectSpec, LocationFound,
         LocationNotFound, MarkReady, KeepEndpoint, SetEndpoint, WaitForHost
<1>3. CASE AddFinalizer
  <2> DEFINE o == [obj EXCEPT !.finalizer = TRUE]
  <2>1. o.deleting = obj.deleting /\ o.finalizer # before.finalizer
    BY <1>2, <1>3 DEF AddFinalizer, Alike, Object
  <2>2. Return(o, FALSE)
    BY <1>3 DEF AddFinalizer
  <2> HIDE DEF o
  <2> QED BY <1>2, <2>1, <2>2, ReturnStep
<1>4. CASE RejectSpec
  <2>1. ~Asks(before)
    BY <1>2, <1>4 DEF RejectSpec, Asks, Alike
  <2>2. SetCondition(obj, "InvalidClusterConfig").deleting = obj.deleting
    BY <1>2, ConditionKeeps
  <2> QED BY <1>2, <1>4, <2>1, <2>2, ReturnStep DEF RejectSpec
<1>5. CASE LocationFound
  BY <1>1, <1>2, <1>5, GoOnStep DEF LocationFound, Alike
<1>6. CASE LocationNotFound
  BY <1>2, <1>6, InfrastructureFailsStep DEF LocationNotFound
<1>7. CASE MarkReady
  <2> DEFINE o == SetCondition([obj EXCEPT !.status.ready = TRUE], "ClusterReady")
  <2>1. o.deleting = obj.deleting /\ o.status.ready = TRUE
    BY <1>2 DEF SetCondition, Object, Status
  <2>2. ~before.status.ready /\ Return(o, FALSE)
    BY <1>2, <1>7 DEF MarkReady, Alike
  <2> HIDE DEF o
  <2> QED BY <1>2, <2>1, <2>2, ReturnStep
<1>8. CASE KeepEndpoint
  <2>1. ~Asks(before)
    BY <1>2, <1>8 DEF KeepEndpoint, Asks, Alike
  <2> QED BY <1>2, <1>8, <2>1, ReturnStep DEF KeepEndpoint
<1>9. ASSUME NEW h \in Hosts, SetEndpoint(h)
      PROVE  Awake'
  <2> DEFINE o == SetCondition([obj EXCEPT !.status.endpoint = h],
                               "ControlPlaneEndpointSet")
  <2>1. o.deleting = obj.deleting /\ o.status.endpoint = h
    BY <1>2 DEF SetCondition, Object, Status
  <2>2. before.status.endpoint = None /\ h # None /\ Return(o, FALSE)
    BY <1>2, <1>9, ClusterAssumption DEF SetEndpoint, Discovering, Alike
  <2> HIDE DEF o
  <2> QED BY <1>2, <2>1, <2>2, ReturnStep
<1>10. CASE WaitForHost
  BY <1>2, <1>10, ReturnStep DEF WaitForHost
<1> QED BY <1>3, <1>4, <1>5, <1>6, <1>7, <1>8, <1>9, <1>10 DEF ReconcileNormal

LEMMA ReconcileVLANWakes ==
    ASSUME TypeOK, Awake, ReconcileVLAN
    PROVE  Awake'
<1>1. /\ pc \in Provisioning /\ key # None
      /\ UNCHANGED <<api, queue>>
  BY ReconcileVLANStep, AtWorkType DEF Provisioning
<1>2. PICK o \in Object :
        /\ Alike(o, obj)
        /\ \/ GoOn(o, "createVLAN")
           \/ GoOn(o, "reconciled")
           \/ InfrastructureFails(o)
  BY ReconcileVLANStep
<1>3. o.deleting = obj.deleting
  BY <1>2 DEF Alike
<1> QED BY <1>1, <1>2, <1>3, GoOnStep, InfrastructureFailsStep

LEMMA ReconcileDeleteWakes ==
    ASSUME TypeOK, Awake, ReconcileDelete
    PROVE  Awake'
<1> DEFINE o == [obj EXCEPT !.finalizer = FALSE]
<1>1. pc = "reconcileDelete" /\ Return(o, FALSE) /\ UNCHANGED <<api, queue>>
  BY DEF ReconcileDelete, SkipCleanup, CleanupVLAN, DeletionDone
<1>2. key # None /\ obj \in Object
  BY <1>1, AtWorkType
<1>3. before.finalizer
  BY <1>1, <1>2 DEF Awake, Worked, Finalized
<1>4. o.deleting = obj.deleting /\ o.finalizer # before.finalizer
  BY <1>2, <1>3 DEF Object
<1> HIDE DEF o
<1> QED BY <1>1, <1>2, <1>4, ReturnStep

LEMMA PatchObjectWakes ==
    ASSUME TypeOK, Awake, PatchObject
    PROVE  Awake'
<1>1. /\ pc = "patchObject" /\ pc' = "patchStatus"
      /\ SpecChanged /\ stored[key].exists
      /\ stored' = [stored EXCEPT ![key] = MergeSpec(before, obj, stored[key])]
      /\ UNCHANGED <<cached, queue, key, before, obj, again>>
  BY DEF PatchObject, GoOn
<1>2. /\ key # None /\ key \in Clusters
      /\ stored \in [Clusters -> Object] /\ stored[key] \in Object
      /\ before \in Object /\ obj \in Object
  BY <1>1, AtWorkType
<1>3. /\ \A c \in Clusters : c # key => stored'[c] = stored[c]
      /\ stored'[key] = MergeSpec(before, obj, stored[key])
  BY <1>1, <1>2
<1>4. /\ stored'[key].finalizer = obj.finalizer
      /\ stored'[key].deleting = stored[key].deleting
      /\ stored'[key].exists = (stored[key].deleting => obj.finalizer)
  BY <1>1, <1>2, <1>3 DEF MergeSpec, Merged, SpecChanged, Object
<1>5. AllFinalized'
  <2> SUFFICES ASSUME NEW c \in Clusters
               PROVE  Finalized(stored'[c]) /\ Finalized(cached'[c])
    BY DEF AllFinalized
  <2>1. Finalized(stored[c]) /\ Finalized(cached[c])
    BY DEF Awake, AllFinalized
  <2>2. Finalized(stored'[key])
    BY <1>4 DEF Finalized
  <2> QED BY <1>1, <1>3, <2>1, <2>2
<1>6. Noticed'
  BY <1>1, <1>3 DEF Awake, Noticed
<1>7. HandsBack'
  BY <1>1, <1>4 DEF HandsBack, SpecChanged
<1>8. Worked'
  BY <1>1, <1>2, <1>7 DEF Awake, Worked, Provisioning
<1> QED BY <1>1, <1>2, <1>5, <1>6, <1>8 DEF Awake

LEMMA KeepObjectWakes ==
    ASSUME TypeOK, Awake, SkipPatchObject \/ PatchObjectFails
    PROVE  Awake'
<1>1. /\ pc = "patchObject" /\ pc' = "patchStatus"
      /\ UNCHANGED <<api, queue, key, before, obj>>
  BY DEF SkipPatchObject, PatchObjectFails, GoOn
<1>2. key # None
  BY <1>1, AtWorkType
<1>3. ~again' => ~again /\ ~SpecChanged
  BY DEF SkipPatchObject, PatchObjectFails, GoOn
<1>4. HandsBack'
  BY <1>1, <1>2, <1>3 DEF Awake, Worked, HandsBack, StatusChanged
<1>5. Worked'
  BY <1>1, <1>2, <1>4 DEF Awake, Worked, Provisioning
<1> QED BY <1>1, <1>2, <1>5, HandlerStep

\* The reconciliation ends: the cluster is queued, has changed since it was
\* read, or asks for nothing.
LEMMA FinishWakes ==
    ASSUME TypeOK, Awake, pc = "patchStatus", NEW failed \in BOOLEAN, Finish(failed),
           UNCHANGED cached,
           \A c \in Clusters : c # key => stored'[c] = stored[c],
           Finalized(stored'[key]),
           ~again /\ ~failed => Written(stored'[key]) # Written(before) \/ ~Asks(before)
    PROVE  Awake'
<1>1. key \in Clusters /\ key # None
  BY AtWorkType
<1>2. AllFinalized'
  BY DEF Awake, AllFinalized
<1>3. key' = None /\ queue' = IF again \/ failed THEN queue \union {key} ELSE queue
  BY DEF Finish, Rest
<1>4. \A c \in Clusters :
        Asks(cached[c]) => c \in queue' \/ Written(stored'[c]) # Written(cached[c])
  <2> SUFFICES ASSUME NEW c \in Clusters, Asks(cached[c]), c \notin queue'
               PROVE  Written(stored'[c]) # Written(cached[c])
    OBVIOUS
  <2>1. c \notin queue /\ (c = key => ~again /\ ~failed)
    BY <1>3
  <2>2. CASE c # key
    BY <2>1, <2>2 DEF Awake, Noticed
  <2>3. CASE c = key
    <3>1. cached[key] = before
      BY <1>1, <2>1, <2>3 DEF Awake, Noticed
    <3> QED BY <2>1, <2>3, <3>1
  <2> QED BY <2>2, <2>3
<1> QED BY <1>2, <1>3, <1>4 DEF Awake, Noticed

\* A patch of a changed status changes the status stored, whatever it was.
LEMMA MergeStatusChanges ==
    ASSUME NEW b \in Status, NEW a \in Status, NEW c \in Status, a # b
    PROVE  MergeStatus(b, a, c) # b
<1> SUFFICES ASSUME MergeStatus(b, a, c) = b
             PROVE  a = b
  OBVIOUS
<1>1. /\ a.ready = b.ready
      /\ a.endpoint = b.endpoint
      /\ a.vlanID = b.vlanID
      /\ a.vlanVID = b.vlanVID
      /\ a.condition = b.condition
  BY DEF MergeStatus, Merged
<1> QED BY <1>1 DEF Status

LEMMA PatchStatusWakes ==
    ASSUME TypeOK, Awake, PatchStatus \/ SkipPatchStatus \/ PatchStatusFails
    PROVE  Awake'
<1>1. pc = "patchStatus" /\ UNCHANGED cached
  BY DEF PatchStatus, SkipPatchStatus, PatchStatusFails, api
<1>2. /\ key # None /\ key \in Clusters
      /\ stored \in [Clusters -> Object] /\ stored[key] \in Object
      /\ before \in Object /\ before.status \in Status
      /\ obj \in Object /\ obj.status \in Status
      /\ stored[key].status \in Status
  BY <1>1, AtWorkType DEF Object
<1>3. Worked /\ Finalized(stored[key])
  BY <1>2 DEF Awake, AllFinalized
<1>4. ~again =>
        \/ Written(stored[key]) # Written(before)
        \/ StatusChanged
        \/ ~Asks(before)
  BY <1>1, <1>3 DEF Worked, HandsBack, Written
<1>5. CASE PatchStatus
  <2> DEFINE status == MergeStatus(before.status, obj.status, stored[key].status)
  <2>1. /\ StatusChanged /\ Finish(FALSE)
        /\ stored' = [stored EXCEPT ![key].status = status]
    BY <1>5 DEF PatchStatus
  <2>2. status # before.status
    BY <1>2, <2>1, MergeStatusChanges DEF StatusChanged
  <2> HIDE DEF status
  <2>3. /\ \A c \in Clusters : c # key => stored'[c] = stored[c]
        /\ stored'[key].status = status
        /\ stored'[key].exists = stored[key].exists
        /\ stored'[key].deleting = stored[key].deleting
        /\ stored'[key].finalizer = stored[key].finalizer
    BY <1>2, <2>1 DEF Object
  <2>4. Finalized(stored'[key])
    BY <1>3, <2>3 DEF Finalized
  <2>5. Written(stored'[key]) # Written(before)
    BY <2>2, <2>3 DEF Written
  <2> QED BY <1>1, <2>1, <2>3, <2>4, <2>5, FinishWakes
<1>6. CASE SkipPatchStatus
  BY <1>1, <1>3, <1>4, <1>6, FinishWakes DEF SkipPatchStatus, api
<1>7. CASE PatchStatusFails
  <2>1. CASE Finish(TRUE)
    BY <1>1, <1>3, <1>7, <2>1, FinishWakes DEF PatchStatusFails, api
  <2>2. CASE ~stored[key].exists /\ Finish(~obj.deleting \/ obj.finalizer)
    <3> DEFINE failed == ~obj.deleting \/ obj.finalizer
    <3>1. failed \in BOOLEAN
      BY <1>2 DEF Object
    <3>2. ~failed => Written(stored[key]) # Written(before)
      <4>1. ~failed => before.deleting /\ before.finalizer
        BY <1>3 DEF Worked, Finalized
      <4> QED BY <1>2, <1>3, <2>2, <4>1 DEF Finalized, Written, Object
    <3>3. UNCHANGED stored /\ Finish(failed)
      BY <1>7, <2>2 DEF PatchStatusFails, api
    <3> HIDE DEF failed
    <3> QED BY <1>1, <1>3, <3>1, <3>2, <3>3, FinishWakes
  <2> QED BY <1>7, <2>1, <2>2 DEF PatchStatusFails
<1> QED BY <1>5, <1>6, <1>7

LEMMA ReconcileWakes ==
    ASSUME TypeOK, Awake, NEW c \in Clusters, ReconcileGone(c) \/ Reconcile(c)
    PROVE  Awake'
<1>1. key = None /\ c # None /\ UNCHANGED api
  BY ClusterAssumption DEF ReconcileGone, Reconcile, TypeOK
<1>2. AllFinalized'
  BY <1>1 DEF Awake, AllFinalized, api
<1>3. \A d \in Clusters :
        Asks(cached[d]) => d \in queue \/ Written(stored[d]) # Written(cached[d])
  BY <1>1, ClusterAssumption DEF Awake, Noticed
<1>4. CASE ReconcileGone(c)
  <2>1. UNCHANGED key /\ queue' = queue \ {c} /\ ~Asks(cached[c])
    BY <1>4 DEF ReconcileGone, worker, Asks
  <2> QED BY <1>1, <1>2, <1>3, <2>1 DEF Awake, Noticed, api
<1>5. CASE Reconcile(c)
  <2>1. /\ key' = c /\ queue' = queue \ {c}
        /\ before' = cached[c] /\ obj' = cached[c]
        /\ cached[c].exists
    BY <1>5 DEF Reconcile
  <2>2. Noticed'
    BY <1>1, <1>3, <2>1 DEF Noticed, api
  <2>3. \/ pc' = "reconcileDelete" /\ cached[c].deleting
        \/ pc' = "reconcileNormal" /\ ~cached[c].deleting
    BY <1>5 DEF Reconcile
  <2>4. Finalized(cached[c])
    BY DEF Awake, AllFinalized
  <2>5. Worked'
    BY <2>1, <2>3, <2>4 DEF Worked, HandsBack, Provisioning, Alike
  <2> QED BY <1>2, <2>2, <2>5 DEF Awake
<1> QED BY <1>4, <1>5

LEMMA CacheSyncWakes ==
    ASSUME TypeOK, Awake, NEW c \in Clusters, CacheSync(c)
    PROVE  Awake'
<1>1. /\ cached' = [cached EXCEPT ![c] = stored[c]]
      /\ cached \in [Clusters -> Object]
      /\ queue' = queue \union {c}
      /\ UNCHANGED <<stored, pc, key, before, obj, again>>
      /\ key # None => key \in Clusters
  BY DEF CacheSync, worker, TypeOK
<1>2. cached'[c] = stored[c] /\ \A d \in Clusters : d # c => cached'[d] = cached[d]
  BY <1>1
<1>3. AllFinalized'
  BY <1>1, <1>2 DEF Awake, AllFinalized
<1>4. Noticed'
  <2>1. ASSUME NEW d \in Clusters, Asks(cached'[d]), d \notin queue', key # d
        PROVE  Written(stored[d]) # Written(cached'[d])
    BY <1>1, <1>2, <2>1 DEF Awake, Noticed
  <2>2. key # None /\ key \notin queue' => cached'[key] = before
    BY <1>1, <1>2 DEF Awake, Noticed
  <2> QED BY <1>1, <2>1, <2>2 DEF Noticed
<1>5. key # None => Worked'
  BY <1>1 DEF Awake, Worked, HandsBack, SpecChanged, StatusChanged
<1> QED BY <1>1, <1>3, <1>4, <1>5 DEF Awake

\* A user, or cluster-api, changes what the controller never writes.
LEMMA EditClusterWakes ==
    ASSUME TypeOK, Awake, NEW c \in Clusters, NEW o, EditCluster(c, o),
           Written(o) = Written(stored[c]), Finalized(o)
    PROVE  Awake'
<1>1. /\ stored' = [stored EXCEPT ![c] = o]
      /\ stored \in [Clusters -> Object]
      /\ UNCHANGED <<cached, queue, pc, key, before, obj, again>>
      /\ key # None => key \in Clusters
  BY DEF EditCluster, worker, TypeOK
<1>2. /\ stored'[c] = o
      /\ \A d \in Clusters : d # c => stored'[d] = stored[d]
  BY <1>1
<1>3. \A d \in Clusters : Written(stored'[d]) = Written(stored[d])
  BY <1>2
<1>4. AllFinalized'
  <2> SUFFICES ASSUME NEW d \in Clusters
               PROVE  Finalized(stored'[d]) /\ Finalized(cached[d])
    BY <1>1 DEF AllFinalized
  <2>1. Finalized(stored[d]) /\ Finalized(cached[d])
    BY DEF Awake, AllFinalized
  <2> QED BY <1>2, <2>1
<1>5. Noticed'
  BY <1>1, <1>3 DEF Awake, Noticed
<1>6. ASSUME key # None
      PROVE  Worked'
  <2>1. stored'[key].finalizer = stored[key].finalizer
    BY <1>1, <1>3, <1>6 DEF Written
  <2>2. Worked
    BY <1>6 DEF Awake
  <2>3. HandsBack'
    BY <1>1, <2>1, <2>2 DEF Worked, HandsBack, SpecChanged, StatusChanged
  <2> QED BY <1>1, <2>2, <2>3 DEF Worked
<1> QED BY <1>1, <1>4, <1>5, <1>6 DEF Awake

LEMMA EditWakes ==
    ASSUME TypeOK, Awake, NEW c \in Clusters,
           DeleteCluster(c) \/ SetOwner(c) \/ CompleteSpec(c) \/ EditVLANConfig(c)
    PROVE  Awake'
<1>1. stored[c] \in Object /\ Finalized(stored[c])
  BY DEF TypeOK, Awake, AllFinalized
<1>2. PICK o : /\ EditCluster(c, o)
               /\ \/ o = [stored[c] EXCEPT !.deleting = TRUE,
                                           !.exists = stored[c].finalizer]
                  \/ o = [stored[c] EXCEPT !.owned = TRUE]
                  \/ o = [stored[c] EXCEPT !.valid = TRUE]
                  \/ \E config \in Config : o = [stored[c] EXCEPT !.config = config]
  BY DEF DeleteCluster, SetOwner, CompleteSpec, EditVLANConfig
<1>3. stored[c].exists
  BY <1>2 DEF EditCluster
<1>4. Written(o) = Written(stored[c])
  BY <1>1, <1>2 DEF Written, Object
<1>5. Finalized(o)
  BY <1>1, <1>2, <1>3 DEF Finalized, Object
<1> QED BY <1>2, <1>4, <1>5, EditClusterWakes

LEMMA OtherWakes ==
    ASSUME Awake, UNCHANGED <<api, queue, worker>>
    PROVE  Awake'
BY DEF Awake, AllFinalized, Noticed, Worked, HandsBack, SpecChanged,
       StatusChanged, api, worker

LEMMA NextWakes == TypeOK /\ Awake /\ [Next]_vars => Awake'
<1> SUFFICES ASSUME TypeOK, Awake, [Next]_vars
             PROVE  Awake'
  OBVIOUS
<1>1. CASE UNCHANGED vars
  BY <1>1, OtherWakes DEF vars
<1>2. ASSUME NEW c \in Clusters, ReconcileGone(c) \/ Reconcile(c)
      PROVE  Awake'
  BY <1>2, ReconcileWakes
<1>3. ASSUME NEW c \in Clusters, CacheSync(c)
      PROVE  Awake'
  BY <1>3, CacheSyncWakes
<1>4. CASE Continue
  BY <1>4, ReconcileNormalWakes, ReconcileVLANWakes, ReconcileDeleteWakes,
     PatchObjectWakes, KeepObjectWakes, PatchStatusWakes DEF Continue, Patch
<1>5. CASE Environment
  <2>1. CASE CrashRestart
    BY <2>1 DEF CrashRestart, Rest, Awake, AllFinalized, Noticed, Asks
  <2>2. ASSUME NEW c \in Clusters,
               DeleteCluster(c) \/ SetOwner(c) \/ CompleteSpec(c) \/ EditVLANConfig(c)
        PROVE  Awake'
    BY <2>2, EditWakes
  <2>3. ASSUME NEW v \in VLANs, RemoveExternally(v)
        PROVE  Awake'
    BY <2>3, OtherWakes DEF RemoveExternally
  <2>4. ASSUME NEW h \in Hosts, HostAppears(h) \/ HostUp(h) \/ HostGoes(h)
        PROVE  Awake'
    BY <2>4, OtherWakes DEF HostAppears, HostUp, HostGoes
  <2> QED BY <1>5, <2>1, <2>2, <2>3, <2>4 DEF Environment
<1> QED BY <1>1, <1>2, <1>3, <1>4, <1>5 DEF Next

LEMMA StartWakes == ControllerInit => Awake
<1> SUFFICES ASSUME ControllerInit
             PROVE  Awake
  OBVIOUS
<1>1. \A c \in Clusters : stored[c].exists /\ ~stored[c].deleting
  BY DEF ControllerInit, NewCluster
<1>2. AllFinalized
  BY <1>1 DEF ControllerInit, AllFinalized, Finalized
<1>3. Noticed /\ key = None
  BY DEF ControllerInit, Noticed
<1> QED BY <1>2, <1>3 DEF Awake

LEMMA InitWakes == Init => Awake
BY StartWakes DEF Init

\* Every way out of a reconciliation either asks for another one or writes
\* something the watch will deliver: a valid cluster without an endpoint, and one
\* that is being deleted, is never forgotten, whatever is read stale, lost,
\* refused or cut short.
THEOREM NoClusterForgotten == Spec => []NoLostWakeup
<1>1. Awake => NoLostWakeup
  BY DEF Awake, Noticed, Asks, NoLostWakeup
<1> QED BY <1>1, ClusterTypeCorrect, InitWakes, NextWakes, PTL DEF Spec

-----------------------------------------------------------------------------
(***************************************************************************)
(* The endpoint is set once.                                               *)
(***************************************************************************)

\* Nobody but the worker writes the endpoint of the cluster it works on, and the
\* worker changes none that it has read.
EndpointRead ==
    key # None =>
      /\ stored[key].status.endpoint = before.status.endpoint
      /\ obj.status.endpoint # before.status.endpoint =>
           before.status.endpoint = None

EndpointKept(c) ==
    stored[c].status.endpoint # None =>
      stored'[c].status.endpoint = stored[c].status.endpoint

LEMMA HandlerEndpoint ==
    ASSUME TypeOK, Awake, EndpointRead,
           ReconcileNormal \/ ReconcileVLAN \/ ReconcileDelete
    PROVE  EndpointRead' /\ UNCHANGED stored
<1>1. /\ pc # "idle" /\ UNCHANGED <<stored, key, before>>
  BY DEF ReconcileNormal, AddFinalizer, RejectSpec, LocationFound,
         LocationNotFound, MarkReady, KeepEndpoint, SetEndpoint, WaitForHost,
         Discovering, ReconcileVLAN, NoVLAN, UseExistingVLAN, VLANFound,
         VLANWanted, AdoptVLAN, CreateVLAN, CreateVLANReplyLost, StoreVLAN,
         CreateVLANFails, OwnVLAN, AtVLAN, ReconcileDelete, SkipCleanup,
         CleanupVLAN, DeletionDone, InfrastructureFails, Return, GoOn, api
<1>2. key # None /\ obj \in Object /\ obj.status \in Status
  BY <1>1, AtWorkType
<1>3. \/ obj'.status.endpoint = obj.status.endpoint
      \/ before.status.endpoint = None
  <2>1. CASE ReconcileVLAN
    <3>1. PICK o \in Object :
            /\ Alike(o, obj)
            /\ \/ GoOn(o, "createVLAN")
               \/ GoOn(o, "reconciled")
               \/ InfrastructureFails(o)
      BY <2>1, ReconcileVLANStep
    <3>2. obj'.status.endpoint = o.status.endpoint
      BY <3>1, ConditionKeeps DEF GoOn, InfrastructureFails, Return
    <3> QED BY <3>1, <3>2 DEF Alike
  <2>2. CASE ReconcileDelete
    <3>1. obj' = [obj EXCEPT !.finalizer = FALSE]
      BY <2>2 DEF ReconcileDelete, SkipCleanup, CleanupVLAN, DeletionDone, Return
    <3> QED BY <1>2, <3>1 DEF Object
  <2>3. CASE AddFinalizer
    BY <1>2, <2>3 DEF AddFinalizer, Return, Object
  <2>4. CASE RejectSpec \/ LocationNotFound
    BY <1>2, <2>4, ConditionKeeps
       DEF RejectSpec, LocationNotFound, InfrastructureFails, Return
  <2>5. CASE LocationFound \/ KeepEndpoint \/ WaitForHost
    BY <2>5 DEF LocationFound, KeepEndpoint, WaitForHost, Return, GoOn
  <2>6. CASE MarkReady
    <3> DEFINE o == [obj EXCEPT !.status.ready = TRUE]
    <3>1. o \in Object /\ o.status.endpoint = obj.status.endpoint
      BY <1>2 DEF Object, Status
    <3>2. obj' = SetCondition(o, "ClusterReady")
      BY <2>6 DEF MarkReady, Return
    <3> HIDE DEF o
    <3> QED BY <3>1, <3>2, ConditionKeeps
  <2>7. ASSUME NEW h \in Hosts, SetEndpoint(h)
        PROVE  before.status.endpoint = None
    <3>1. Alike(obj, before) /\ obj.status.endpoint = None
      BY <1>2, <2>7
         DEF SetEndpoint, Discovering, Awake, Worked, Provisioning
    <3> QED BY <3>1 DEF Alike
  <2> QED BY <2>1, <2>2, <2>3, <2>4, <2>5, <2>6, <2>7 DEF ReconcileNormal
<1> QED BY <1>1, <1>2, <1>3 DEF EndpointRead

LEMMA PatchEndpoint ==
    ASSUME TypeOK, EndpointRead, Patch
    PROVE  EndpointRead' /\ \A c \in Clusters : EndpointKept(c)
<1>1. pc # "idle"
  BY DEF Patch, PatchObject, SkipPatchObject, PatchObjectFails, PatchStatus,
         SkipPatchStatus, PatchStatusFails
<1>2. /\ key # None /\ key \in Clusters
      /\ stored \in [Clusters -> Object] /\ stored[key] \in Object
  BY <1>1, AtWorkType
<1>3. CASE PatchObject
  <2>1. /\ stored' = [stored EXCEPT ![key] = MergeSpec(before, obj, stored[key])]
        /\ UNCHANGED <<key, before, obj>>
    BY <1>3 DEF PatchObject, GoOn
  <2>2. MergeSpec(before, obj, stored[key]).status = stored[key].status
    BY <1>2 DEF MergeSpec, Object
  <2>3. \A c \in Clusters : stored'[c].status = stored[c].status
    BY <1>2, <2>1, <2>2
  <2> QED BY <1>2, <2>1, <2>3 DEF EndpointRead, EndpointKept
<1>4. CASE SkipPatchObject \/ PatchObjectFails
  BY <1>4 DEF SkipPatchObject, PatchObjectFails, GoOn, EndpointRead, EndpointKept,
              api
<1>5. CASE PatchStatus
  <2> DEFINE s == MergeStatus(before.status, obj.status, stored[key].status)
  <2>1. stored' = [stored EXCEPT ![key].status = s] /\ key' = None
    BY <1>5 DEF PatchStatus, Finish, Rest
  <2>2. stored[key].status.endpoint # None =>
          s.endpoint = stored[key].status.endpoint
    BY <1>2 DEF EndpointRead, MergeStatus, Merged
  <2> HIDE DEF s
  <2>3. /\ \A c \in Clusters : c # key => stored'[c] = stored[c]
        /\ stored'[key].status = s
    BY <1>2, <2>1 DEF Object
  <2> QED BY <2>1, <2>2, <2>3 DEF EndpointRead, EndpointKept
<1>6. CASE SkipPatchStatus \/ PatchStatusFails
  BY <1>6 DEF SkipPatchStatus, PatchStatusFails, Finish, Rest, EndpointRead,
              EndpointKept, api
<1> QED BY <1>3, <1>4, <1>5, <1>6 DEF Patch

LEMMA EnvironmentEndpoint ==
    ASSUME TypeOK, EndpointRead, Environment
    PROVE  EndpointRead' /\ \A c \in Clusters : EndpointKept(c)
<1>1. CASE CrashRestart
  BY <1>1 DEF CrashRestart, Rest, EndpointRead, EndpointKept
<1>2. ASSUME NEW c \in Clusters,
             DeleteCluster(c) \/ SetOwner(c) \/ CompleteSpec(c) \/ EditVLANConfig(c)
      PROVE  EndpointRead' /\ \A d \in Clusters : EndpointKept(d)
  <2>1. stored \in [Clusters -> Object] /\ stored[c] \in Object
    BY DEF TypeOK
  <2>2. PICK o : /\ EditCluster(c, o)
                 /\ \/ o = [stored[c] EXCEPT !.deleting = TRUE,
                                             !.exists = stored[c].finalizer]
                    \/ o = [stored[c] EXCEPT !.owned = TRUE]
                    \/ o = [stored[c] EXCEPT !.valid = TRUE]
                    \/ \E config \in Config : o = [stored[c] EXCEPT !.config = config]
    BY <1>2 DEF DeleteCluster, SetOwner, CompleteSpec, EditVLANConfig
  <2>3. o.status = stored[c].status
    BY <2>1, <2>2 DEF Object
  <2>4. /\ stored' = [stored EXCEPT ![c] = o]
        /\ UNCHANGED <<key, before, obj>>
        /\ key # None => key \in Clusters
    BY <2>2 DEF EditCluster, worker, TypeOK
  <2>5. \A d \in Clusters : stored'[d].status = stored[d].status
    BY <2>1, <2>3, <2>4
  <2> QED BY <2>4, <2>5 DEF EndpointRead, EndpointKept
<1>3. CASE UNCHANGED <<api, worker>>
  BY <1>3 DEF EndpointRead, EndpointKept, api, worker
<1> QED BY <1>1, <1>2, <1>3
        DEF Environment, RemoveExternally, HostAppears, HostUp, HostGoes

LEMMA NextEndpoint ==
    ASSUME "staleCache" \notin Events, TypeOK, Awake, EndpointRead, [Next]_vars
    PROVE  EndpointRead' /\ \A c \in Clusters : EndpointKept(c)
<1>1. CASE UNCHANGED vars
  BY <1>1 DEF vars, api, worker, EndpointRead, EndpointKept
<1>2. ASSUME NEW c \in Clusters, ReconcileGone(c) \/ Reconcile(c) \/ CacheSync(c)
      PROVE  EndpointRead' /\ \A d \in Clusters : EndpointKept(d)
  BY <1>2 DEF ReconcileGone, Reconcile, CacheSync, EndpointRead, EndpointKept,
              api, worker
<1>3. CASE ReconcileNormal \/ ReconcileVLAN \/ ReconcileDelete
  BY <1>3, HandlerEndpoint DEF EndpointKept
<1>4. CASE Patch
  BY <1>4, PatchEndpoint
<1>5. CASE Environment
  BY <1>5, EnvironmentEndpoint
<1> QED BY <1>1, <1>2, <1>3, <1>4, <1>5 DEF Next, Continue

\* As long as a reconciliation reads what the controller has written, an endpoint
\* is set once: no replacement of a control plane machine, no crash and no
\* refused patch moves it.
THEOREM EndpointIsStable ==
    ASSUME "staleCache" \notin Events
    PROVE  Spec => EndpointStable
<1>1. Init => EndpointRead
  BY DEF Init, ControllerInit, EndpointRead
<1>2. TypeOK /\ Awake /\ EndpointRead /\ [Next]_vars => EndpointRead'
  BY NextEndpoint
<1>3. TypeOK /\ Awake /\ EndpointRead /\ [Next]_vars =>
        [\A c \in Clusters :
           stored[c].status.endpoint # None =>
             stored'[c].status.endpoint = stored[c].status.endpoint]_vars
  BY NextEndpoint DEF EndpointKept
<1> QED BY <1>1, <1>2, <1>3, ClusterTypeCorrect, InitWakes, NextWakes, PTL
        DEF Spec, EndpointStable

-----------------------------------------------------------------------------
(***************************************************************************)
(* One VLAN for each description.                                          *)
(***************************************************************************)

\* A step that does not create a VLAN.
LEMMA NoMoreVLANs ==
    ASSUME OneVLANPerDescription,
           \A v \in VLANs : vlans'[v].st = "live" => vlans'[v] = vlans[v]
    PROVE  OneVLANPerDescription'
BY DEF OneVLANPerDescription, VLANsFor

LEMMA StoreVLANOne ==
    ASSUME "listError" \notin Events, TypeOK, OneVLANPerDescription,
           NEW v \in VLANs, StoreVLAN(v)
    PROVE  OneVLANPerDescription'
<1>1. /\ VLANsFor(key) = {}
      /\ vlans \in [VLANs -> VLAN]
      /\ vlans' = [vlans EXCEPT ![v] = [st |-> "live", creator |-> key]]
  BY DEF StoreVLAN, NoneListed, TypeOK
<1>2. /\ vlans'[v].st = "live" /\ vlans'[v].creator = key
      /\ \A w \in VLANs : w # v => vlans'[w] = vlans[w]
  BY <1>1
<1>3. ASSUME NEW w \in VLANs, NEW u \in VLANs,
             vlans'[w].st = "live", vlans'[w].creator # None,
             vlans'[u].st = "live", vlans'[u].creator # None,
             DescriptionOf[vlans'[u].creator] = DescriptionOf[vlans'[w].creator]
      PROVE  u = w
  <2>1. CASE w # v /\ u # v
    BY <1>2, <1>3, <2>1 DEF OneVLANPerDescription, VLANsFor
  <2>2. CASE w = v \/ u = v
    BY <1>1, <1>2, <1>3, <2>2 DEF VLANsFor
  <2> QED BY <2>1, <2>2
<1> QED BY <1>3 DEF OneVLANPerDescription, VLANsFor

LEMMA NextOne ==
    ASSUME "listError" \notin Events, TypeOK, OneVLANPerDescription, [Next]_vars
    PROVE  OneVLANPerDescription'
<1>1. CASE UNCHANGED vlans
  BY <1>1, NoMoreVLANs
<1>2. ASSUME NEW v \in VLANs, CreateVLAN(v) \/ CreateVLANReplyLost(v)
      PROVE  OneVLANPerDescription'
  BY <1>2, StoreVLANOne DEF CreateVLAN, CreateVLANReplyLost
<1>3. CASE \E v : vlans' = [vlans EXCEPT ![v].st = "deleted"]
  <2>1. vlans \in [VLANs -> VLAN]
    BY DEF TypeOK
  <2>2. \A v \in VLANs : vlans'[v].st = "live" => vlans'[v] = vlans[v]
    BY <1>3, <2>1 DEF VLAN
  <2> QED BY <2>2, NoMoreVLANs
<1>4. CASE UNCHANGED vars
  BY <1>1, <1>4 DEF vars
<1>5. CASE Next
  BY <1>1, <1>2, <1>3, <1>5
     DEF Next, ReconcileGone, Reconcile, CacheSync, Continue, ReconcileNormal,
         AddFinalizer, RejectSpec, LocationFound, LocationNotFound, MarkReady,
         KeepEndpoint, SetEndpoint, WaitForHost, ReconcileVLAN, NoVLAN,
         UseExistingVLAN, VLANFound, VLANWanted, AdoptVLAN, CreateVLANFails,
         ReconcileDelete, SkipCleanup, CleanupVLAN, Patch, PatchObject,
         SkipPatchObject, PatchObjectFails, PatchStatus, SkipPatchStatus,
         PatchStatusFails, Environment, CrashRestart, DeleteCluster, SetOwner,
         CompleteSpec, EditVLANConfig, EditCluster, RemoveExternally, HostAppears,
         HostUp, HostGoes
<1> QED BY <1>4, <1>5

\* When the list of VLANs can be had, a description never has two live VLANs:
\* whatever crash, lost reply or refused patch comes between the creation of a
\* VLAN and its record, CreateVLAN finds it again.
THEOREM OneVLAN ==
    ASSUME "listError" \notin Events
    PROVE  Spec => []OneVLANPerDescription
<1>1. Init => OneVLANPerDescription
  BY DEF Init, ControllerInit, OneVLANPerDescription
<1>2. TypeOK /\ OneVLANPerDescription /\ [Next]_vars => OneVLANPerDescription'
  BY NextOne
<1> QED BY <1>1, <1>2, ClusterTypeCorrect, PTL DEF Spec
=============================================================================
