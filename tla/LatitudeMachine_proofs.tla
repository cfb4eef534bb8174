----------------------- MODULE LatitudeMachine_proofs -----------------------
(***************************************************************************)
(* Theorems about the LatitudeMachine controller, for every set of         *)
(* machines, clusters and IDs and every set of Events.                     *)
(***************************************************************************)
EXTENDS LatitudeMachine, TLAPS

(***************************************************************************)
(* The steps the handlers are made of keep the worker's types.             *)
(***************************************************************************)

LEMMA NewMachineType == NewMachine \in Object
BY DEF NewMachine, Object, Status, Conditions

\* A handler that returns leaves the worker with a well-typed object.
LEMMA ReturnType ==
    ASSUME TypeOK, pc # "idle", NEW o \in Object, NEW r \in BOOLEAN, Return(o, r)
    PROVE  WorkerOK'
BY DEF TypeOK, WorkerOK, Return, PCs

LEMMA PersistType ==
    ASSUME TypeOK, pc # "idle", NEW o \in Object,
           NEW next \in {"createServer", "attach"}, Persist(o, next)
    PROVE  WorkerOK'
BY DEF TypeOK, WorkerOK, Persist, PCs

LEMMA GoToType ==
    ASSUME TypeOK, pc # "idle", NEW next \in PCs \ {"idle"}, GoTo(next)
    PROVE  WorkerOK'
BY DEF TypeOK, WorkerOK, GoTo

LEMMA RestType == ASSUME Rest PROVE WorkerOK'
BY NewMachineType DEF WorkerOK, Rest, PCs

LEMMA ConditionType ==
    ASSUME NEW o \in Object, NEW c \in Conditions
    PROVE  SetCondition(o, c) \in Object
BY DEF SetCondition, Object, Status

LEMMA FailedType ==
    ASSUME NEW o \in Object
    PROVE  SetMachineFailed(o) \in Object
BY DEF SetMachineFailed, SetCondition, Object, Status, Conditions

LEMMA MergeSpecType ==
    ASSUME NEW b \in Object, NEW a \in Object, NEW c \in Object
    PROVE  MergeSpec(b, a, c) \in Object
<1> DEFINE f == Merged(b.finalizer, a.finalizer, c.finalizer)
           p == Merged(b.providerID, a.providerID, c.providerID)
           e == c.exists /\ (c.deleting => f)
<1>1. f \in BOOLEAN
  BY DEF Merged, Object
<1>2. p \in Servers \union {None}
  BY DEF Merged, Object
<1>3. MergeSpec(b, a, c) =
        [c EXCEPT !.finalizer = f, !.providerID = p, !.exists = e]
  BY DEF MergeSpec
<1> HIDE DEF f, p, e
<1>4. e \in BOOLEAN
  BY DEF e
<1> QED BY <1>1, <1>2, <1>3, <1>4 DEF Object

LEMMA MergeStatusType ==
    ASSUME NEW b \in Status, NEW a \in Status, NEW c \in Status
    PROVE  MergeStatus(b, a, c) \in Status
BY DEF MergeStatus, Merged, Status

LEMMA PatchedType ==
    ASSUME TypeOK, pc # "idle", NEW failed \in BOOLEAN, Patched(failed)
    PROVE  WorkerOK' /\ queue' \subseteq Machines
<1>1. CASE then # "return" /\ GoTo(then) /\ UNCHANGED queue
  <2>1. then \in PCs \ {"idle"}
    BY <1>1 DEF TypeOK, WorkerOK, PCs
  <2> QED BY <1>1, <2>1, GoToType DEF TypeOK, ApiOK
<1>2. CASE Rest /\ queue' = IF again \/ failed THEN queue \union {key} ELSE queue
  <2>1. key \in Machines
    BY DEF TypeOK, WorkerOK
  <2> QED BY <1>2, <2>1, RestType DEF TypeOK, ApiOK
<1> QED BY <1>1, <1>2 DEF Patched

(***************************************************************************)
(* Which parts of TypeOK a step has to answer for.                         *)
(***************************************************************************)

\* A step of the worker alone.
LEMMA LocalStepType ==
    ASSUME TypeOK, WorkerOK', UNCHANGED <<api, queue, cloud, env, refused>>
    PROVE  TypeOK'
BY DEF TypeOK, ApiOK, CloudOK, EnvOK, api, cloud, env

\* A step of the worker that calls Latitude.sh.
LEMMA CloudStepType ==
    ASSUME TypeOK, WorkerOK', CloudOK', UNCHANGED <<api, queue, env, refused>>
    PROVE  TypeOK'
BY DEF TypeOK, ApiOK, EnvOK, api, env

\* A step that patches an object, or edits it, and may fill the queue.
LEMMA ApiStepType ==
    ASSUME TypeOK, WorkerOK', queue' \subseteq Machines,
           stored' \in [Machines -> Object], cached' \in [Machines -> Object],
           UNCHANGED <<cloud, env, refused>>
    PROVE  TypeOK'
BY DEF TypeOK, ApiOK, CloudOK, EnvOK, cloud, env

LEMMA StillWorker ==
    ASSUME TypeOK, UNCHANGED worker
    PROVE  WorkerOK'
BY DEF TypeOK, WorkerOK, worker

(***************************************************************************)
(* Reconcile and reconcileNormal.                                          *)
(***************************************************************************)

LEMMA ReconcileType ==
    ASSUME TypeOK, NEW m \in Machines, ReconcileGone(m) \/ Reconcile(m)
    PROVE  TypeOK'
<1>1. CASE ReconcileGone(m)
  BY <1>1, StillWorker, ApiStepType
     DEF ReconcileGone, TypeOK, ApiOK, api
<1>2. CASE Reconcile(m)
  <2>1. cached[m] \in Object
    BY DEF TypeOK, ApiOK
  <2>2. pc' \in {"patchObject", "reconcileDelete", "reconcileNormal"}
    BY <1>2 DEF Reconcile
  <2>3. WorkerOK'
    BY <1>2, <2>1, <2>2, MachineAssumption DEF Reconcile, WorkerOK, PCs
  <2> QED
    BY <1>2, <2>3, ApiStepType DEF Reconcile, TypeOK, ApiOK, api
<1> QED BY <1>1, <1>2

LEMMA ReconcileNormalType ==
    ASSUME TypeOK, ReconcileNormal
    PROVE  TypeOK'
<1>1. obj \in Object
  BY DEF TypeOK, WorkerOK
<1>2. CASE AddFinalizer
  <2>1. [obj EXCEPT !.finalizer = TRUE] \in Object
    BY <1>1 DEF Object
  <2> QED BY <1>2, <2>1, ReturnType, LocalStepType DEF AddFinalizer
<1>3. CASE SkipSettled
  BY <1>1, <1>3, ReturnType, LocalStepType DEF SkipSettled
<1>4. CASE WaitForOwner
  BY <1>1, <1>4, ReturnType, LocalStepType DEF WaitForOwner, Unsettled
<1>5. CASE RejectWorker
  BY <1>1, <1>5, FailedType, ReturnType, LocalStepType
     DEF RejectWorker, Unsettled
<1>6. CASE RejectSpec
  <2>1. SetCondition(obj, "InvalidSpec") \in Object
    BY <1>1, ConditionType DEF Conditions
  <2> QED BY <1>6, <2>1, ReturnType, LocalStepType DEF RejectSpec, Unsettled
<1>7. CASE StartServer
  <2>1. "reconcileServer" \in PCs \ {"idle"}
    BY DEF PCs
  <2> QED BY <1>7, <2>1, GoToType, LocalStepType DEF StartServer, Unsettled
<1> QED BY <1>2, <1>3, <1>4, <1>5, <1>6, <1>7 DEF ReconcileNormal

(***************************************************************************)
(* reconcileServer.                                                        *)
(***************************************************************************)

LEMMA StoreUserDataType ==
    ASSUME TypeOK, pc # "idle", NEW u \in UserData, StoreUserData(u)
    PROVE  CloudOK'
<1>1. key \in Machines
  BY DEF TypeOK, WorkerOK
<1>2. PICK vlan \in Injected(ClusterOf[key]) :
        userData' = [userData EXCEPT ![u] =
                       [st |-> "live", owner |-> key, vlan |-> vlan]]
  BY DEF StoreUserData
<1>3. vlan \in BOOLEAN
  BY <1>2 DEF Injected
<1> QED BY <1>1, <1>2, <1>3 DEF TypeOK, CloudOK, StoreUserData, Datum

LEMMA StartNewServerType ==
    ASSUME TypeOK, pc # "idle", NEW s \in Servers, StartNewServer(s)
    PROVE  CloudOK'
<1>1. key \in Machines /\ obj.status.userDataID \in UserData \union {None}
  BY DEF TypeOK, WorkerOK, Object, Status
<1> QED BY <1>1 DEF TypeOK, CloudOK, StartNewServer, Server

LEMMA RetryLaterType ==
    ASSUME TypeOK, pc # "idle", RetryLater
    PROVE  WorkerOK'
<1>1. SetCondition(obj, "ProvisionFailed") \in Object
  BY ConditionType DEF TypeOK, WorkerOK, Conditions
<1> QED BY <1>1, ReturnType DEF RetryLater

\* The branches with a known server, which only GetServer is called for.
LEMMA KnownServerType ==
    ASSUME TypeOK, ServerRunning \/ ServerStarting \/ ServerLost
    PROVE  TypeOK'
<1>1. obj \in Object /\ obj.status \in Status
  BY DEF TypeOK, WorkerOK, Object
<1>2. CASE ServerRunning
  <2>1. obj.status.serverID \in Servers /\ pc # "idle"
    BY <1>1, <1>2 DEF ServerRunning, Known, AtServer, Status
  <2>2. servers[obj.status.serverID].address \in BOOLEAN
    BY <2>1 DEF TypeOK, CloudOK, Server
  <2> DEFINE status == [obj.status EXCEPT
                          !.ready = TRUE,
                          !.address = servers[obj.status.serverID].address,
                          !.condition = "Ready"]
             o == [obj EXCEPT !.providerID = obj.status.serverID,
                              !.status = status]
  <2>3. status \in Status
    BY <1>1, <2>2 DEF Status, Conditions
  <2>4. o \in Object
    BY <1>1, <2>1, <2>3 DEF Object
  <2>5. Return(o, FALSE)
    BY <1>2 DEF ServerRunning
  <2>6. WorkerOK'
    BY <2>1, <2>4, <2>5, ReturnType
  <2> QED BY <1>2, <2>6, LocalStepType DEF ServerRunning
<1>3. CASE ServerStarting
  <2>1. SetCondition(obj, "NotReady") \in Object
    BY <1>1, ConditionType DEF Conditions
  <2> QED BY <1>3, <2>1, ReturnType, LocalStepType
          DEF ServerStarting, Known, AtServer
<1>4. CASE ServerLost
  <2>1. obj' \in Object
    BY <1>1, <1>4 DEF ServerLost, Object, Status
  <2>2. WorkerOK'
    BY <1>4, <2>1 DEF ServerLost, TypeOK, WorkerOK
  <2> QED BY <1>4, <2>2, LocalStepType DEF ServerLost
<1> QED BY <1>2, <1>3, <1>4

LEMMA CreateUserDataType ==
    ASSUME TypeOK, NEW u \in UserData,
           CreateUserData(u) \/ CreateUserDataReplyLost(u)
    PROVE  TypeOK'
<1>1. obj \in Object /\ pc # "idle"
  BY DEF TypeOK, WorkerOK, CreateUserData, CreateUserDataReplyLost,
         NeedsUserData, Creating, AtServer
<1>2. CloudOK'
  BY <1>1, StoreUserDataType DEF CreateUserData, CreateUserDataReplyLost
<1>3. CASE CreateUserData(u)
  <2>1. [obj EXCEPT !.status.userDataID = u] \in Object
    BY <1>1 DEF Object, Status
  <2>2. WorkerOK'
    BY <1>1, <1>3, <2>1, PersistType DEF CreateUserData
  <2> QED BY <1>2, <1>3, <2>2, CloudStepType DEF CreateUserData
<1>4. CASE CreateUserDataReplyLost(u)
  BY <1>1, <1>2, <1>4, RetryLaterType, CloudStepType
     DEF CreateUserDataReplyLost
<1> QED BY <1>3, <1>4

LEMMA CreateServerType ==
    ASSUME TypeOK, NEW s \in Servers,
           CreateServer(s) \/ CreateServerReplyLost(s)
    PROVE  TypeOK'
<1>1. obj \in Object /\ pc # "idle"
  BY DEF TypeOK, WorkerOK, CreateServer, CreateServerReplyLost
<1>2. CloudOK'
  BY <1>1, StartNewServerType DEF CreateServer, CreateServerReplyLost
<1>3. CASE CreateServer(s)
  <2>1. [obj EXCEPT !.status.serverID = s] \in Object
    BY <1>1 DEF Object, Status
  <2>2. WorkerOK'
    BY <1>1, <1>3, <2>1, PersistType DEF CreateServer
  <2> QED BY <1>2, <1>3, <2>2, CloudStepType DEF CreateServer
<1>4. CASE CreateServerReplyLost(s)
  BY <1>1, <1>2, <1>4, RetryLaterType, CloudStepType DEF CreateServerReplyLost
<1> QED BY <1>3, <1>4

LEMMA AttachServerType ==
    ASSUME TypeOK, AttachServer
    PROVE  TypeOK'
<1>1. obj \in Object
  BY DEF TypeOK, WorkerOK
<1>2. SetCondition(obj, "NotReady") \in Object
  BY <1>1, ConditionType DEF Conditions
<1>3. WorkerOK'
  BY <1>2, ReturnType DEF AttachServer
<1>4. \/ UNCHANGED servers
      \/ servers' = [servers EXCEPT ![obj.status.serverID].vlan = TRUE]
  BY DEF AttachServer
<1>5. servers' \in [Servers -> Server]
  <2> DEFINE s == obj.status.serverID
  <2>1. servers \in [Servers -> Server]
    BY DEF TypeOK, CloudOK
  <2>2. CASE UNCHANGED servers
    BY <2>1, <2>2
  <2>3. CASE servers' = [servers EXCEPT ![s].vlan = TRUE]
    <3> HIDE DEF s
    <3>1. s \in Servers => [servers[s] EXCEPT !.vlan = TRUE] \in Server
      BY <2>1 DEF Server
    <3>2. servers' = [servers EXCEPT ![s] = [servers[s] EXCEPT !.vlan = TRUE]]
      BY <2>3
    <3> QED BY <2>1, <3>1, <3>2
  <2> QED BY <1>4, <2>2, <2>3
<1>6. CloudOK'
  BY <1>5 DEF AttachServer, TypeOK, CloudOK
<1> QED BY <1>3, <1>6, CloudStepType DEF AttachServer

LEMMA ReconcileServerType ==
    ASSUME TypeOK, ReconcileServer
    PROVE  TypeOK'
<1>1. obj \in Object
  BY DEF TypeOK, WorkerOK
<1>2. CASE ServerRunning \/ ServerStarting \/ ServerLost
  BY <1>2, KnownServerType
<1>3. CASE WaitForBootstrap
  <2>1. SetCondition(obj, "NotReady") \in Object
    BY <1>1, ConditionType DEF Conditions
  <2> QED BY <1>3, <2>1, ReturnType, LocalStepType
          DEF WaitForBootstrap, Creating, AtServer
<1>4. CASE ReuseUserData
  <2>1. "createServer" \in PCs \ {"idle"}
    BY DEF PCs
  <2> QED BY <1>4, <2>1, GoToType, LocalStepType
          DEF ReuseUserData, Creating, AtServer
<1>5. CASE \E u \in UserData : CreateUserData(u) \/ CreateUserDataReplyLost(u)
  BY <1>5, CreateUserDataType
<1>6. CASE \E s \in Servers : CreateServer(s) \/ CreateServerReplyLost(s)
  BY <1>6, CreateServerType
<1>7. CASE CreateServerOutOfStock
  <2>1. WorkerOK'
    BY <1>1, <1>7, FailedType, ReturnType DEF CreateServerOutOfStock
  <2>2. refused' \subseteq Machines
    BY <1>7 DEF CreateServerOutOfStock, TypeOK, WorkerOK, EnvOK
  <2> QED
    BY <1>7, <2>1, <2>2
       DEF CreateServerOutOfStock, TypeOK, ApiOK, CloudOK, EnvOK, api, cloud, env
<1>8. CASE RequestFails
  BY <1>8, RetryLaterType, LocalStepType DEF RequestFails, Creating, AtServer
<1>9. CASE AttachServer
  BY <1>9, AttachServerType
<1> QED
  BY <1>2, <1>3, <1>4, <1>5, <1>6, <1>7, <1>8, <1>9 DEF ReconcileServer

(***************************************************************************)
(* reconcileDelete.                                                        *)
(***************************************************************************)

LEMMA RemoveServerType ==
    ASSUME TypeOK, RemoveServer
    PROVE  CloudOK'
<1> DEFINE s == obj.status.serverID
           gone == [servers[s] EXCEPT !.st = "deleted"]
<1>1. servers \in [Servers -> Server] /\ userData \in [UserData -> Datum]
  BY DEF TypeOK, CloudOK
<1>2. servers' = [servers EXCEPT ![s] = gone] /\ UNCHANGED userData
  BY DEF RemoveServer
<1> HIDE DEF s
<1>3. s \in Servers => gone \in Server
  BY <1>1 DEF Server
<1> QED BY <1>1, <1>2, <1>3 DEF CloudOK

LEMMA ReconcileDeleteType ==
    ASSUME TypeOK, ReconcileDelete
    PROVE  TypeOK'
<1>1. obj \in Object
  BY DEF TypeOK, WorkerOK
<1>2. "deleteUserData" \in PCs \ {"idle"}
  BY DEF PCs
<1>3. SetCondition(obj, "DeletionFailed") \in Object
  BY <1>1, ConditionType DEF Conditions
<1>4. CASE NoServerToDelete
  BY <1>2, <1>4, GoToType, LocalStepType DEF NoServerToDelete
<1>5. CASE DeleteServer
  <2>1. WorkerOK'
    BY <1>2, <1>5, GoToType DEF DeleteServer, RemoveServer
  <2> QED BY <1>5, <2>1, RemoveServerType, CloudStepType DEF DeleteServer
<1>6. CASE DeleteServerReplyLost
  <2>1. WorkerOK'
    BY <1>3, <1>6, ReturnType
       DEF DeleteServerReplyLost, RemoveServer, DeletionFails
  <2> QED
    BY <1>6, <2>1, RemoveServerType, CloudStepType DEF DeleteServerReplyLost
<1>7. CASE DeleteServerFails
  BY <1>3, <1>7, ReturnType, LocalStepType DEF DeleteServerFails, DeletionFails
<1>8. CASE DeleteUserData
  <2>1. [obj EXCEPT !.finalizer = FALSE] \in Object
    BY <1>1 DEF Object
  <2>2. WorkerOK'
    BY <1>8, <2>1, ReturnType DEF DeleteUserData
  <2>3. \/ UNCHANGED userData
        \/ userData' = [userData EXCEPT ![obj.status.userDataID].st = "deleted"]
    BY <1>8 DEF DeleteUserData
  <2>4. userData' \in [UserData -> Datum]
    BY <2>3 DEF TypeOK, CloudOK, Datum
  <2>5. CloudOK'
    BY <1>8, <2>4 DEF DeleteUserData, TypeOK, CloudOK
  <2> QED BY <1>8, <2>2, <2>5, CloudStepType DEF DeleteUserData
<1> QED BY <1>4, <1>5, <1>6, <1>7, <1>8 DEF ReconcileDelete

(***************************************************************************)
(* The patch helper.                                                       *)
(***************************************************************************)

LEMMA PatchType ==
    ASSUME TypeOK, Patch
    PROVE  TypeOK'
<1>1. /\ before \in Object
      /\ obj \in Object
      /\ stored \in [Machines -> Object]
      /\ cached \in [Machines -> Object]
  BY DEF TypeOK, WorkerOK, ApiOK
<1>2. pc # "idle" /\ key \in Machines
  BY DEF TypeOK, WorkerOK, Patch, PatchObject, SkipPatchObject,
         PatchObjectFails, PatchStatus, SkipPatchStatus, PatchStatusFails
<1>3. "patchStatus" \in PCs \ {"idle"}
  BY DEF PCs
<1>4. CASE PatchObject
  <2>1. MergeSpec(before, obj, stored[key]) \in Object
    BY <1>1, <1>2, MergeSpecType
  <2>2. stored' \in [Machines -> Object]
    BY <1>1, <1>4, <2>1 DEF PatchObject
  <2>3. WorkerOK'
    BY <1>2, <1>3, <1>4, GoToType DEF PatchObject
  <2> QED
    BY <1>1, <1>4, <2>2, <2>3, ApiStepType DEF PatchObject, TypeOK, ApiOK
<1>5. CASE SkipPatchObject
  BY <1>2, <1>3, <1>5, GoToType, LocalStepType DEF SkipPatchObject
<1>6. CASE PatchObjectFails
  <2>1. WorkerOK'
    BY <1>3, <1>6 DEF PatchObjectFails, TypeOK, WorkerOK
  <2> QED BY <1>6, <2>1, LocalStepType DEF PatchObjectFails
<1>7. CASE PatchStatus
  <2>1. MergeStatus(before.status, obj.status, stored[key].status) \in Status
    BY <1>1, <1>2, MergeStatusType DEF Object
  <2>2. [stored[key] EXCEPT !.status =
            MergeStatus(before.status, obj.status, @)] \in Object
    BY <1>1, <1>2, <2>1 DEF Object
  <2>3. stored' \in [Machines -> Object]
    BY <1>1, <1>7, <2>2 DEF PatchStatus
  <2>4. WorkerOK' /\ queue' \subseteq Machines
    BY <1>2, <1>7, PatchedType DEF PatchStatus
  <2> QED BY <1>1, <1>7, <2>3, <2>4, ApiStepType DEF PatchStatus
<1>8. CASE SkipPatchStatus
  <2>1. WorkerOK' /\ queue' \subseteq Machines
    BY <1>2, <1>8, PatchedType DEF SkipPatchStatus
  <2> QED BY <1>1, <1>8, <2>1, ApiStepType DEF SkipPatchStatus, api
<1>9. CASE PatchStatusFails
  <2>1. \E failed \in BOOLEAN : Patched(failed)
    BY <1>1, <1>9 DEF PatchStatusFails, Object
  <2>2. WorkerOK' /\ queue' \subseteq Machines
    BY <1>2, <2>1, PatchedType
  <2> QED BY <1>1, <1>9, <2>2, ApiStepType DEF PatchStatusFails, api
<1> QED BY <1>4, <1>5, <1>6, <1>7, <1>8, <1>9 DEF Patch

(***************************************************************************)
(* The watch, the manager, and everybody else.                             *)
(***************************************************************************)

LEMMA CacheSyncType ==
    ASSUME TypeOK, NEW m \in Machines, CacheSync(m)
    PROVE  TypeOK'
<1>1. WorkerOK'
  BY StillWorker DEF CacheSync
<1>2. /\ stored' \in [Machines -> Object]
      /\ cached' \in [Machines -> Object]
      /\ queue' \subseteq Machines
  BY DEF CacheSync, TypeOK, ApiOK
<1> QED BY <1>1, <1>2, ApiStepType DEF CacheSync

LEMMA EditMachineType ==
    ASSUME TypeOK, NEW m \in Machines, NEW o \in Object, EditMachine(m, o)
    PROVE  TypeOK'
<1>1. WorkerOK'
  BY StillWorker DEF EditMachine
<1>2. /\ stored' \in [Machines -> Object]
      /\ cached' \in [Machines -> Object]
      /\ queue' \subseteq Machines
  BY DEF EditMachine, TypeOK, ApiOK
<1> QED BY <1>1, <1>2, ApiStepType DEF EditMachine

LEMMA EnvironmentType ==
    ASSUME TypeOK, Environment
    PROVE  TypeOK'
<1>1. \A m \in Machines : stored[m] \in Object
  BY DEF TypeOK, ApiOK
<1>2. CASE CrashRestart
  <2>1. WorkerOK'
    BY <1>2, RestType DEF CrashRestart
  <2> QED BY <1>2, <2>1, ApiStepType
          DEF CrashRestart, Existing, TypeOK, ApiOK
<1>3. ASSUME NEW m \in Machines, DeleteMachine(m)
      PROVE  TypeOK'
  <2> DEFINE o == [stored[m] EXCEPT !.deleting = TRUE,
                                    !.exists = stored[m].finalizer]
  <2>1. o \in Object
    BY <1>1 DEF Object
  <2>2. EditMachine(m, o)
    BY <1>3 DEF DeleteMachine
  <2> QED BY <2>1, <2>2, EditMachineType
<1>4. ASSUME NEW m \in Machines, SetPaused(m)
      PROVE  TypeOK'
  <2>1. [stored[m] EXCEPT !.paused = ~@] \in Object
    BY <1>1 DEF Object
  <2> QED BY <1>4, <2>1, EditMachineType DEF SetPaused
<1>5. ASSUME NEW m \in Machines, SetOwner(m)
      PROVE  TypeOK'
  <2>1. [stored[m] EXCEPT !.owned = TRUE] \in Object
    BY <1>1 DEF Object
  <2> QED BY <1>5, <2>1, EditMachineType DEF SetOwner
<1>6. ASSUME NEW m \in Machines, PublishBootstrap(m)
      PROVE  TypeOK'
  BY <1>6, StillWorker
     DEF PublishBootstrap, TypeOK, ApiOK, CloudOK, EnvOK, api, cloud
<1>7. ASSUME NEW c \in Clusters, AdvanceCluster(c) \/ RecordVLAN(c)
      PROVE  TypeOK'
  <2>1. infra' \in [Clusters -> Infra]
    BY <1>7 DEF AdvanceCluster, RecordVLAN, TypeOK, EnvOK, Infra
  <2> QED
    BY <1>7, <2>1, StillWorker
       DEF AdvanceCluster, RecordVLAN, TypeOK, ApiOK, CloudOK, EnvOK, api, cloud
<1>8. ASSUME NEW s \in Servers, PowerOn(s) \/ RemoveExternally(s)
      PROVE  TypeOK'
  <2>1. servers' \in [Servers -> Server]
    <3>1. servers \in [Servers -> Server]
      BY DEF TypeOK, CloudOK
    <3>2. CASE PowerOn(s)
      <4>1. PICK a \in BOOLEAN :
              servers' = [servers EXCEPT ![s].st = "on", ![s].address = a]
        BY <3>2 DEF PowerOn
      <4>2. [servers[s] EXCEPT !.st = "on", !.address = a] \in Server
        BY <3>1 DEF Server
      <4>3. servers' =
              [servers EXCEPT ![s] = [servers[s] EXCEPT !.st = "on", !.address = a]]
        BY <3>1, <4>1 DEF Server
      <4> QED BY <3>1, <4>2, <4>3
    <3>3. CASE RemoveExternally(s)
      <4>1. [servers[s] EXCEPT !.st = "lost"] \in Server
        BY <3>1 DEF Server
      <4>2. servers' = [servers EXCEPT ![s] = [servers[s] EXCEPT !.st = "lost"]]
        BY <3>3 DEF RemoveExternally
      <4> QED BY <3>1, <4>1, <4>2
    <3> QED BY <1>8, <3>2, <3>3
  <2> QED
    BY <1>8, <2>1, StillWorker, CloudStepType
       DEF PowerOn, RemoveExternally, TypeOK, CloudOK
<1> QED
  BY <1>2, <1>3, <1>4, <1>5, <1>6, <1>7, <1>8 DEF Environment

(***************************************************************************)
(* Type correctness.                                                       *)
(***************************************************************************)

LEMMA StartType ==
    ASSUME ControllerInit, infra \in [Clusters -> Infra]
    PROVE  TypeOK
<1>1. ApiOK
  BY NewMachineType DEF ControllerInit, ApiOK
<1>2. WorkerOK
  BY NewMachineType DEF ControllerInit, WorkerOK, PCs
<1>3. CloudOK
  BY DEF ControllerInit, CloudOK, Server, Datum
<1>4. EnvOK
  BY DEF ControllerInit, EnvOK
<1> QED BY <1>1, <1>2, <1>3, <1>4 DEF TypeOK

LEMMA InitType == Init => TypeOK
<1>1. Init => infra \in [Clusters -> Infra]
  BY DEF Init, Infra
<1> QED BY <1>1, StartType DEF Init

LEMMA NextType == TypeOK /\ [Next]_vars => TypeOK'
<1> SUFFICES ASSUME TypeOK, [Next]_vars
             PROVE  TypeOK'
  OBVIOUS
<1>1. ASSUME NEW m \in Machines, ReconcileGone(m) \/ Reconcile(m)
      PROVE  TypeOK'
  BY <1>1, ReconcileType
<1>2. ASSUME NEW m \in Machines, CacheSync(m)
      PROVE  TypeOK'
  BY <1>2, CacheSyncType
<1>3. CASE Continue
  BY <1>3, ReconcileNormalType, ReconcileServerType, ReconcileDeleteType,
     PatchType DEF Continue
<1>4. CASE Environment
  BY <1>4, EnvironmentType
<1>5. CASE UNCHANGED vars
  BY <1>5, StillWorker, LocalStepType DEF vars
<1> QED BY <1>1, <1>2, <1>3, <1>4, <1>5 DEF Next

\* Every variable keeps its type, and the worker has a key exactly while it is
\* at work, in every state of the controller.
THEOREM TypeCorrect == Spec => []TypeOK
BY InitType, NextType, PTL DEF Spec

(***************************************************************************)
(* Only a refusal for want of stock fails a machine for good.  The claim   *)
(* about stored objects is not inductive: a failure reaches one from the   *)
(* worker's object, and a worker machine's from the cache.  It is          *)
(* strengthened to every copy of an object: whoever has seen m fail, in    *)
(* the API server, the cache or the reconciliation, has a cause for it.    *)
(***************************************************************************)

\* What may fail m has been refused.
Caused(m) == Causes(m) \intersect refused # {}

FailuresCaused ==
    /\ \A m \in Machines : stored[m].status.failed => Caused(m)
    /\ \A m \in Machines : cached[m].status.failed => Caused(m)
    /\ key # None /\ obj.status.failed => Caused(key)

\* A cause stays one: machines are only added to refused.
LEMMA CausedStable ==
    ASSUME NEW m, Caused(m), refused \subseteq refused'
    PROVE  Caused(m)'
BY DEF Caused, Causes

LEMMA RefusedGrows == Next => refused \subseteq refused'
BY DEF Next, ReconcileGone, Reconcile, CacheSync, Continue, ReconcileNormal,
       AddFinalizer, SkipSettled, WaitForOwner, RejectWorker, RejectSpec,
       StartServer, ReconcileServer, ServerRunning, ServerStarting, ServerLost,
       WaitForBootstrap, ReuseUserData, CreateUserData, CreateUserDataReplyLost,
       CreateServer, CreateServerReplyLost, CreateServerOutOfStock, RequestFails,
       AttachServer, ReconcileDelete, NoServerToDelete, DeleteServer,
       DeleteServerReplyLost, DeleteServerFails, DeleteUserData, Patch,
       PatchObject, SkipPatchObject, PatchObjectFails, PatchStatus,
       SkipPatchStatus, PatchStatusFails, Environment, CrashRestart,
       DeleteMachine, SetPaused, SetOwner, EditMachine, PublishBootstrap,
       AdvanceCluster, RecordVLAN, PowerOn, RemoveExternally

\* A step that changes no copy of an object but the worker's own, and has a
\* cause for that one.
LEMMA LocalStepFailures ==
    ASSUME TypeOK, FailuresCaused, UNCHANGED <<api, key>>,
           refused \subseteq refused',
           obj'.status.failed => obj.status.failed \/ Caused(key)'
    PROVE  FailuresCaused'
<1>1. ASSUME NEW m \in Machines, Caused(m)
      PROVE  Caused(m)'
  BY <1>1, CausedStable
<1>2. key # None /\ obj.status.failed => Caused(key)'
  BY CausedStable DEF FailuresCaused
<1> QED BY <1>1, <1>2 DEF FailuresCaused, api

\* A step of somebody else, or the end of a reconciliation.
LEMMA OtherStepFailures ==
    ASSUME TypeOK, FailuresCaused, UNCHANGED <<key, obj>> \/ Rest,
           refused \subseteq refused',
           \A m \in Machines : stored'[m].status.failed => Caused(m)',
           \A m \in Machines : cached'[m].status.failed => Caused(m)'
    PROVE  FailuresCaused'
<1>1. CASE UNCHANGED <<key, obj>>
  <2>1. Caused(key) => Caused(key)'
    BY <1>1 DEF Caused, Causes
  <2> QED BY <1>1, <2>1 DEF FailuresCaused
<1>2. CASE Rest
  BY <1>2 DEF FailuresCaused, Rest
<1> QED BY <1>1, <1>2

\* The two objects a handler can return that have not just failed.
LEMMA ConditionFailed ==
    ASSUME NEW o \in Object, NEW c
    PROVE  SetCondition(o, c).status.failed = o.status.failed
BY DEF SetCondition, Object, Status

\* A worker machine is failed for a control plane machine of its namespace that
\* is seen failed in the cache, which is a cause of its own.
LEMMA ControlPlaneFailedCauses ==
    ASSUME TypeOK, FailuresCaused, NEW m \in Machines, RejectedWorker(m)
    PROVE  Caused(m)
<1>1. PICK n \in ControlPlanes :
         /\ NamespaceOf[ClusterOf[n]] = NamespaceOf[ClusterOf[m]]
         /\ cached[n].status.failed
  BY DEF RejectedWorker, ControlPlaneFailed
<1>2. n \in Machines
  BY <1>1, MachineAssumption
<1>3. n \in refused
  BY <1>1, <1>2 DEF FailuresCaused, Caused, Causes
<1>4. n \in Causes(m)
  BY <1>1 DEF Causes, RejectedWorker
<1> QED BY <1>3, <1>4 DEF Caused

LEMMA ReconcileNormalFailures ==
    ASSUME TypeOK, FailuresCaused, ReconcileNormal, refused \subseteq refused'
    PROVE  FailuresCaused'
<1>1. obj \in Object /\ key \in Machines
  BY DEF TypeOK, WorkerOK, ReconcileNormal, AddFinalizer, SkipSettled,
         WaitForOwner, RejectWorker, RejectSpec, StartServer, Unsettled
<1>2. CASE AddFinalizer
  <2>1. obj'.status.failed = obj.status.failed
    BY <1>1, <1>2 DEF AddFinalizer, Return, Object
  <2> QED BY <1>2, <2>1, LocalStepFailures DEF AddFinalizer, Return
<1>3. CASE SkipSettled
  BY <1>3, LocalStepFailures DEF SkipSettled, Return
<1>4. CASE WaitForOwner
  BY <1>4, LocalStepFailures DEF WaitForOwner, Return
<1>5. CASE RejectWorker
  <2>1. Caused(key)
    BY <1>1, <1>5, ControlPlaneFailedCauses DEF RejectWorker
  <2>2. Caused(key)'
    BY <1>5, <2>1 DEF RejectWorker, Return, Caused, Causes
  <2> QED BY <1>5, <2>2, LocalStepFailures DEF RejectWorker, Return
<1>6. CASE RejectSpec
  BY <1>1, <1>6, ConditionFailed, LocalStepFailures DEF RejectSpec, Return
<1>7. CASE StartServer
  BY <1>7, LocalStepFailures DEF StartServer, GoTo
<1> QED BY <1>2, <1>3, <1>4, <1>5, <1>6, <1>7 DEF ReconcileNormal

LEMMA ReconcileServerFailures ==
    ASSUME TypeOK, FailuresCaused, ReconcileServer, refused \subseteq refused'
    PROVE  FailuresCaused'
<1>1. obj \in Object
  BY DEF TypeOK, WorkerOK
<1> DEFINE NoNewFailure == obj'.status.failed = obj.status.failed
<1>2. RetryLater => NoNewFailure
  BY <1>1, ConditionFailed DEF RetryLater, Return
<1>3. CASE ServerRunning \/ ServerStarting \/ ServerLost
  <2>1. ServerRunning => NoNewFailure
    <3> DEFINE status == [obj.status EXCEPT
                            !.ready = TRUE,
                            !.address = servers[obj.status.serverID].address,
                            !.condition = "Ready"]
    <3>1. status.failed = obj.status.failed
      BY <1>1 DEF Object, Status
    <3>2. ServerRunning => obj'.status = status
      BY <1>1 DEF ServerRunning, Return, Object
    <3> QED BY <3>1, <3>2
  <2>2. ServerStarting => NoNewFailure
    BY <1>1, ConditionFailed DEF ServerStarting, Return
  <2>3. ServerLost => NoNewFailure
    BY <1>1 DEF ServerLost, Object, Status
  <2> QED BY <1>3, <2>1, <2>2, <2>3, LocalStepFailures
          DEF ServerRunning, ServerStarting, ServerLost, Return
<1>4. CASE WaitForBootstrap \/ ReuseUserData \/ RequestFails \/ AttachServer
  <2>1. NoNewFailure
    BY <1>1, <1>2, <1>4, ConditionFailed
       DEF WaitForBootstrap, ReuseUserData, RequestFails, AttachServer, Return, GoTo
  <2> QED BY <1>4, <2>1, LocalStepFailures
          DEF WaitForBootstrap, ReuseUserData, RequestFails, AttachServer,
              RetryLater, Return, GoTo
<1>5. ASSUME NEW u \in UserData, CreateUserData(u) \/ CreateUserDataReplyLost(u)
      PROVE  FailuresCaused'
  <2>1. NoNewFailure
    BY <1>1, <1>2, <1>5
       DEF CreateUserData, CreateUserDataReplyLost, Persist, Object, Status
  <2> QED BY <1>5, <2>1, LocalStepFailures
          DEF CreateUserData, CreateUserDataReplyLost, Persist, RetryLater, Return
<1>6. ASSUME NEW s \in Servers, CreateServer(s) \/ CreateServerReplyLost(s)
      PROVE  FailuresCaused'
  <2>1. NoNewFailure
    BY <1>1, <1>2, <1>6
       DEF CreateServer, CreateServerReplyLost, Persist, Object, Status
  <2> QED BY <1>6, <2>1, LocalStepFailures
          DEF CreateServer, CreateServerReplyLost, Persist, RetryLater, Return
<1>7. CASE CreateServerOutOfStock
  <2>1. Caused(key)'
    BY <1>7 DEF CreateServerOutOfStock, Return, Caused, Causes
  <2> QED BY <1>7, <2>1, LocalStepFailures DEF CreateServerOutOfStock, Return
<1> QED BY <1>3, <1>4, <1>5, <1>6, <1>7 DEF ReconcileServer

LEMMA ReconcileDeleteFailures ==
    ASSUME TypeOK, FailuresCaused, ReconcileDelete, refused \subseteq refused'
    PROVE  FailuresCaused'
<1>1. obj \in Object
  BY DEF TypeOK, WorkerOK
<1>2. /\ UNCHANGED <<api, key>>
      /\ \/ obj' = obj
         \/ obj' = SetCondition(obj, "DeletionFailed")
         \/ obj' = [obj EXCEPT !.finalizer = FALSE]
  BY DEF ReconcileDelete, NoServerToDelete, DeleteServer, RemoveServer,
         DeleteServerReplyLost, DeleteServerFails, DeletionFails, DeleteUserData,
         GoTo, Return
<1>3. obj'.status.failed = obj.status.failed
  BY <1>1, <1>2, ConditionFailed DEF Object
<1> QED BY <1>2, <1>3, LocalStepFailures

\* What a patch stores as failed was failed in the store or in the worker's
\* hands, whatever the object was when it was read.
LEMMA PatchFailures ==
    ASSUME TypeOK, FailuresCaused, Patch, refused \subseteq refused'
    PROVE  FailuresCaused'
<1>1. stored \in [Machines -> Object] /\ obj \in Object /\ key \in Machines
  BY DEF TypeOK, ApiOK, WorkerOK, Patch, PatchObject, SkipPatchObject,
         PatchObjectFails, PatchStatus, SkipPatchStatus, PatchStatusFails
<1>2. \A m \in Machines :
        /\ stored[m].status.failed => Caused(m)'
        /\ cached[m].status.failed => Caused(m)'
        /\ m = key /\ obj.status.failed => Caused(m)'
  <2> SUFFICES ASSUME NEW m \in Machines
               PROVE  /\ stored[m].status.failed => Caused(m)'
                      /\ cached[m].status.failed => Caused(m)'
                      /\ m = key /\ obj.status.failed => Caused(m)'
    OBVIOUS
  <2>1. Caused(m) => Caused(m)'
    BY CausedStable
  <2>2. m # None
    BY MachineAssumption
  <2> QED BY <2>1, <2>2 DEF FailuresCaused
<1>3. CASE PatchObject
  <2>1. \A m \in Machines : stored'[m].status = stored[m].status
    BY <1>1, <1>3 DEF PatchObject, MergeSpec, Object
  <2> QED BY <1>2, <1>3, <2>1, OtherStepFailures DEF PatchObject, GoTo
<1>4. CASE SkipPatchObject \/ PatchObjectFails
  BY <1>4, LocalStepFailures DEF SkipPatchObject, PatchObjectFails, GoTo
<1>5. CASE PatchStatus \/ SkipPatchStatus \/ PatchStatusFails
  <2>1. (UNCHANGED <<key, obj>> \/ Rest) /\ UNCHANGED cached
    BY <1>5 DEF PatchStatus, SkipPatchStatus, PatchStatusFails, Patched, GoTo, api
  <2>2. \A m \in Machines :
          stored'[m].status.failed =>
            stored[m].status.failed \/ (m = key /\ obj.status.failed)
    <3>1. CASE PatchStatus
      BY <1>1, <3>1 DEF PatchStatus, MergeStatus, Merged, Object
    <3>2. CASE SkipPatchStatus \/ PatchStatusFails
      BY <3>2 DEF SkipPatchStatus, PatchStatusFails, api
    <3> QED BY <1>5, <3>1, <3>2
  <2> QED BY <1>2, <2>1, <2>2, OtherStepFailures
<1> QED BY <1>3, <1>4, <1>5 DEF Patch

LEMMA EnvironmentFailures ==
    ASSUME TypeOK, FailuresCaused, Environment, refused \subseteq refused'
    PROVE  FailuresCaused'
<1>1. stored \in [Machines -> Object]
  BY DEF TypeOK, ApiOK
<1>2. \A m \in Machines : /\ stored[m].status.failed => Caused(m)'
                          /\ cached[m].status.failed => Caused(m)'
  BY CausedStable DEF FailuresCaused
<1>3. CASE CrashRestart
  BY <1>2, <1>3, OtherStepFailures DEF CrashRestart
<1>4. ASSUME NEW m \in Machines, DeleteMachine(m) \/ SetPaused(m) \/ SetOwner(m)
      PROVE  FailuresCaused'
  <2>1. UNCHANGED <<cached, key, obj>>
    BY <1>4 DEF DeleteMachine, SetPaused, SetOwner, EditMachine, worker
  <2>2. PICK o \in Object :
          /\ o.status = stored[m].status
          /\ EditMachine(m, o)
    <3>1. stored[m] \in Object
      BY <1>1
    <3>2. CASE DeleteMachine(m)
      BY <3>1, <3>2 DEF DeleteMachine, Object
    <3>3. CASE SetPaused(m)
      BY <3>1, <3>3 DEF SetPaused, Object
    <3>4. CASE SetOwner(m)
      BY <3>1, <3>4 DEF SetOwner, Object
    <3> QED BY <1>4, <3>2, <3>3, <3>4
  <2>3. \A n \in Machines : stored'[n].status = stored[n].status
    BY <1>1, <2>2 DEF EditMachine
  <2> QED BY <1>2, <2>1, <2>3, OtherStepFailures
<1>5. CASE UNCHANGED <<api, worker>>
  BY <1>2, <1>5, OtherStepFailures DEF api, worker
<1> QED
  BY <1>3, <1>4, <1>5
     DEF Environment, PublishBootstrap, AdvanceCluster, RecordVLAN, PowerOn,
         RemoveExternally

LEMMA NextFailures == TypeOK /\ FailuresCaused /\ [Next]_vars => FailuresCaused'
<1> SUFFICES ASSUME TypeOK, FailuresCaused, [Next]_vars
             PROVE  FailuresCaused'
  OBVIOUS
<1>1. CASE UNCHANGED vars
  BY <1>1 DEF vars, api, worker, env, FailuresCaused, Caused, Causes
<1>2. CASE Next
  <2>1. refused \subseteq refused'
    BY <1>2, RefusedGrows
  <2>2. \A m \in Machines : /\ stored[m].status.failed => Caused(m)'
                            /\ cached[m].status.failed => Caused(m)'
    BY <2>1, CausedStable DEF FailuresCaused
  <2>3. ASSUME NEW m \in Machines, ReconcileGone(m)
        PROVE  FailuresCaused'
    BY <2>1, <2>3, LocalStepFailures DEF ReconcileGone, worker
  <2>4. ASSUME NEW m \in Machines, Reconcile(m)
        PROVE  FailuresCaused'
    BY <2>2, <2>4 DEF Reconcile, FailuresCaused, api
  <2>5. ASSUME NEW m \in Machines, CacheSync(m)
        PROVE  FailuresCaused'
    <3>1. \A n \in Machines : cached'[n] \in {cached[n], stored[n]}
      BY <2>5 DEF CacheSync, TypeOK, ApiOK
    <3> QED BY <2>1, <2>2, <2>5, <3>1, OtherStepFailures DEF CacheSync, worker
  <2>6. CASE Continue
    BY <2>1, <2>6, ReconcileNormalFailures, ReconcileServerFailures,
       ReconcileDeleteFailures, PatchFailures DEF Continue
  <2>7. CASE Environment
    BY <2>1, <2>7, EnvironmentFailures
  <2> QED BY <1>2, <2>3, <2>4, <2>5, <2>6, <2>7 DEF Next
<1> QED BY <1>1, <1>2

LEMMA InitFailures == Init => FailuresCaused
BY DEF Init, ControllerInit, NewMachine, FailuresCaused

\* When every cluster has a namespace of its own, then, whatever is retried, read
\* late, lost, merged or restarted, a machine fails for good only because
\* Latitude.sh had no stock for it or, for a worker, for a control plane machine
\* of its own cluster: what checkControlPlaneFailed reads of the namespace is what
\* its message says of the cluster.  (Without the hypothesis the run
\* shared_namespace shows a failure that spreads.)
THEOREM FailedByItsOwnCluster ==
    ASSUME \A c, d \in Clusters : NamespaceOf[c] = NamespaceOf[d] => c = d
    PROVE  Spec => []FailedByOwnCluster
<1>1. TypeOK /\ FailuresCaused => FailedByOwnCluster
  <2> SUFFICES ASSUME FailuresCaused,
                      NEW m \in Machines, stored[m].status.failed
               PROVE  \E n \in Causes(m) \intersect refused :
                        ClusterOf[n] = ClusterOf[m]
    BY DEF FailedByOwnCluster
  <2>1. PICK n \in Causes(m) : n \in refused
    BY DEF FailuresCaused, Caused
  <2>2. n = m \/ NamespaceOf[ClusterOf[n]] = NamespaceOf[ClusterOf[m]]
    BY <2>1 DEF Causes
  <2>3. n \in Machines
    BY <2>1, MachineAssumption DEF Causes
  <2>4. ClusterOf[n] = ClusterOf[m]
    BY <2>2, <2>3, MachineAssumption
  <2> QED BY <2>1, <2>4
<1> QED BY <1>1, TypeCorrect, InitFailures, NextFailures, PTL DEF Spec
=============================================================================
