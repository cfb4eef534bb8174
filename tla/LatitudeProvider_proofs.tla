----------------------- MODULE LatitudeProvider_proofs -----------------------
(***************************************************************************)
(* Theorems about both controllers together, for every set of machines,    *)
(* clusters and IDs.  They compose those of the components: a step of one  *)
(* controller is a step of its module, which preserves its invariant, and  *)
(* one of the environment to the other, whose invariant does not depend on *)
(* it or is preserved by what the first controller guarantees.             *)
(***************************************************************************)
EXTENDS LatitudeProvider, TLAPS

MP == INSTANCE MachineRecords_proofs WITH
    Events <- MachineEvents,
    stored <- mStored, cached <- mCached, queue <- mQueue, pc <- mPc,
    key <- mKey, before <- mBefore, obj <- mObj, then <- mThen,
    again <- mAgain, infra <- [c \in Clusters |-> Infra(cStored[c])]

CP == INSTANCE ClusterVLAN_proofs WITH
    Events <- ClusterEvents,
    Hosts <- ControlPlanes, HostOf <- [m \in ControlPlanes |-> ClusterOf[m]],
    stored <- cStored, cached <- cCached, queue <- cQueue, pc <- cPc,
    key <- cKey, before <- cBefore, obj <- cObj, again <- cAgain,
    present <- Present, up <- Up

-----------------------------------------------------------------------------
(***************************************************************************)
(* M and MP, C and CP: the same definitions, under the names this model    *)
(* and the components' theorems give them.  The provers take an instance's *)
(* operators for unrelated symbols until both are expanded.                *)
(***************************************************************************)

LEMMA Assumptions == MP!MachineAssumption /\ CP!ClusterAssumption
BY ComponentAssumptions
   DEF MP!MachineAssumption, M!MachineAssumption, MP!EventKinds, M!EventKinds,
       CP!ClusterAssumption, C!ClusterAssumption, CP!EventKinds, C!EventKinds

LEMMA StartsAsComponents ==
    ASSUME Init
    PROVE  MP!ControllerInit /\ CP!ControllerInit
<1>1. MP!ControllerInit
  BY DEF M!ControllerInit, M!NewMachine, MP!ControllerInit, MP!NewMachine, Init
<1>2. CP!ControllerInit
  BY DEF C!ControllerInit, C!NewCluster, C!Config, C!Nothing,
         CP!ControllerInit, CP!NewCluster, CP!Config, CP!Nothing, Init
<1> QED BY <1>1, <1>2

\* A step of a reconciliation that has started.
LEMMA MachineContinue ==
    ASSUME M!Continue
    PROVE  MP!Continue
<1>1. CASE M!ReconcileNormal
  BY <1>1
     DEF M!ReconcileNormal, M!AddFinalizer, M!SkipSettled, M!WaitForOwner,
         M!RejectWorker, M!RejectSpec, M!StartServer, M!Return, M!api, M!cloud,
         M!env, M!Settled, M!Unsettled, M!RejectedWorker, M!SetMachineFailed,
         M!SetCondition, M!GoTo, M!ControlPlaneFailed, M!ReadFails,
         M!PassesCheck, M!NothingFound, MP!ReadFails, MP!PassesCheck,
         MP!NothingFound, MP!ReconcileNormal,
         MP!AddFinalizer, MP!SkipSettled, MP!WaitForOwner, MP!RejectWorker,
         MP!RejectSpec, MP!StartServer, MP!Return, MP!api, MP!cloud, MP!env,
         MP!Settled, MP!Unsettled, MP!RejectedWorker, MP!SetMachineFailed,
         MP!SetCondition, MP!GoTo, MP!ControlPlaneFailed, MP!Continue
<1>2. CASE M!ReconcileServer
  BY <1>2
     DEF M!ReconcileServer, M!ServerRunning, M!ServerStarting, M!ServerLost,
         M!WaitForBootstrap, M!ReuseUserData, M!CreateUserData,
         M!CreateUserDataReplyLost, M!CreateServer, M!CreateServerReplyLost,
         M!CreateServerOutOfStock, M!RequestFails, M!AttachServer, M!Known,
         M!Return, M!api, M!cloud, M!env, M!SetCondition, M!Live, M!Creating,
         M!GoTo, M!NeedsUserData, M!StoreUserData, M!Persist, M!RetryLater,
         M!StartNewServer, M!SetMachineFailed, M!AtServer, M!ReadFails,
         M!InjectionFails, M!Injected, MP!ReadFails, MP!InjectionFails,
         MP!Injected, MP!ReconcileServer,
         MP!ServerRunning, MP!ServerStarting, MP!ServerLost,
         MP!WaitForBootstrap, MP!ReuseUserData, MP!CreateUserData,
         MP!CreateUserDataReplyLost, MP!CreateServer, MP!CreateServerReplyLost,
         MP!CreateServerOutOfStock, MP!RequestFails, MP!AttachServer, MP!Known,
         MP!Return, MP!api, MP!cloud, MP!env, MP!SetCondition, MP!Live,
         MP!Creating, MP!GoTo, MP!NeedsUserData, MP!StoreUserData, MP!Persist,
         MP!RetryLater, MP!StartNewServer, MP!SetMachineFailed, MP!AtServer, MP!Continue
<1>3. CASE M!ReconcileDelete
  BY <1>3
     DEF M!ReconcileDelete, M!NoServerToDelete, M!DeleteServer,
         M!DeleteServerReplyLost, M!DeleteServerFails, M!DeleteUserData,
         M!GoTo, M!api, M!cloud, M!env, M!RemoveServer, M!DeletionFails,
         M!Live, M!Return, M!SetCondition, MP!ReconcileDelete,
         MP!NoServerToDelete, MP!DeleteServer, MP!DeleteServerReplyLost,
         MP!DeleteServerFails, MP!DeleteUserData, MP!GoTo, MP!api, MP!cloud,
         MP!env, MP!RemoveServer, MP!DeletionFails, MP!Live, MP!Return,
         MP!SetCondition, MP!Continue
<1>4. CASE M!Patch
  BY <1>4
     DEF M!Patch, M!PatchObject, M!SkipPatchObject, M!PatchObjectFails,
         M!PatchStatus, M!SkipPatchStatus, M!PatchStatusFails, M!SpecChanged,
         M!MergeSpec, M!GoTo, M!cloud, M!env, M!api, M!StatusChanged,
         M!MergeStatus, M!Patched, M!Merged, M!Rest, M!NewMachine, MP!Patch,
         MP!PatchObject, MP!SkipPatchObject, MP!PatchObjectFails,
         MP!PatchStatus, MP!SkipPatchStatus, MP!PatchStatusFails,
         MP!SpecChanged, MP!MergeSpec, MP!GoTo, MP!cloud, MP!env, MP!api,
         MP!StatusChanged, MP!MergeStatus, MP!Patched, MP!Merged, MP!Rest,
         MP!NewMachine, MP!Continue
<1> QED BY <1>1, <1>2, <1>3, <1>4 DEF M!Continue

LEMMA ClusterContinue ==
    ASSUME C!Continue
    PROVE  CP!Continue
<1>1. CASE C!ReconcileNormal
  BY <1>1
     DEF C!ReconcileNormal, C!AddFinalizer, C!RejectSpec, C!LocationFound,
         C!LocationNotFound, C!MarkReady, C!KeepEndpoint, C!SetEndpoint,
         C!WaitForHost, C!Return, C!api, C!hosts, C!SetCondition, C!GoOn,
         C!InfrastructureFails, C!Discovering, C!HostsOf, CP!ReconcileNormal,
         CP!AddFinalizer, CP!RejectSpec, CP!LocationFound, CP!LocationNotFound,
         CP!MarkReady, CP!KeepEndpoint, CP!SetEndpoint, CP!WaitForHost,
         CP!Return, CP!api, CP!hosts, CP!SetCondition, CP!GoOn,
         CP!InfrastructureFails, CP!Discovering, CP!HostsOf, CP!Continue
<1>2. CASE C!ReconcileVLAN
  BY <1>2
     DEF C!ReconcileVLAN, C!NoVLAN, C!UseExistingVLAN, C!VLANFound,
         C!VLANWanted, C!AdoptVLAN, C!CreateVLAN, C!CreateVLANReplyLost,
         C!CreateVLANFails, C!AtVLAN, C!GoOn, C!api, C!hosts, C!VIDs,
         C!RecordVLAN, C!InfrastructureFails, C!OwnVLAN, C!RecordedVLANLives,
         C!VLANsFor, C!StoreVLAN, C!NoneListed, C!Return, C!SetCondition,
         CP!ReconcileVLAN, CP!NoVLAN, CP!UseExistingVLAN, CP!VLANFound,
         CP!VLANWanted, CP!AdoptVLAN, CP!CreateVLAN, CP!CreateVLANReplyLost,
         CP!CreateVLANFails, CP!AtVLAN, CP!GoOn, CP!api, CP!hosts, CP!VIDs,
         CP!RecordVLAN, CP!InfrastructureFails, CP!OwnVLAN,
         CP!RecordedVLANLives, CP!VLANsFor, CP!StoreVLAN, CP!NoneListed,
         CP!Return, CP!SetCondition, CP!Continue
<1>3. CASE C!ReconcileDelete
  BY <1>3
     DEF C!ReconcileDelete, C!SkipCleanup, C!CleanupVLAN, C!OwnsVLAN,
         C!DeletionDone, C!api, C!hosts, C!Return, CP!ReconcileDelete,
         CP!SkipCleanup, CP!CleanupVLAN, CP!OwnsVLAN, CP!DeletionDone, CP!api,
         CP!hosts, CP!Return, CP!Continue
<1>4. CASE C!Patch
  BY <1>4
     DEF C!Patch, C!PatchObject, C!SkipPatchObject, C!PatchObjectFails,
         C!PatchStatus, C!SkipPatchStatus, C!PatchStatusFails, C!SpecChanged,
         C!MergeSpec, C!GoOn, C!hosts, C!api, C!StatusChanged, C!MergeStatus,
         C!Finish, C!Merged, C!Rest, C!Nothing, C!NewCluster, CP!Patch,
         CP!PatchObject, CP!SkipPatchObject, CP!PatchObjectFails,
         CP!PatchStatus, CP!SkipPatchStatus, CP!PatchStatusFails,
         CP!SpecChanged, CP!MergeSpec, CP!GoOn, CP!hosts, CP!api,
         CP!StatusChanged, CP!MergeStatus, CP!Finish, CP!Merged, CP!Rest,
         CP!Nothing, CP!NewCluster, CP!Continue
<1> QED BY <1>1, <1>2, <1>3, <1>4 DEF C!Continue

LEMMA MachineOthers ==
    ASSUME NEW m \in Machines
    PROVE  /\ M!ReconcileGone(m) => MP!ReconcileGone(m)
           /\ M!Reconcile(m) => MP!Reconcile(m)
           /\ M!CacheSync(m) => MP!CacheSync(m)
           /\ M!DeleteMachine(m) => MP!DeleteMachine(m)
BY DEF M!ReconcileGone, M!Reconcile, M!CacheSync, M!DeleteMachine, M!api,
       M!worker, M!cloud, M!env, M!EditMachine, MP!ReconcileGone, MP!Reconcile,
       MP!CacheSync, MP!DeleteMachine, MP!api, MP!worker, MP!cloud, MP!env,
       MP!EditMachine

LEMMA ServerOthers ==
    ASSUME NEW s \in Servers
    PROVE  /\ M!PowerOn(s) => MP!PowerOn(s)
           /\ M!RemoveExternally(s) => MP!RemoveExternally(s)
BY DEF M!PowerOn, M!RemoveExternally, M!api, M!worker, M!env, M!Live,
       MP!PowerOn, MP!RemoveExternally, MP!api, MP!worker, MP!env, MP!Live

LEMMA ClusterOthers ==
    ASSUME NEW c \in Clusters
    PROVE  /\ C!ReconcileGone(c) => CP!ReconcileGone(c)
           /\ C!Reconcile(c) => CP!Reconcile(c)
           /\ C!CacheSync(c) => CP!CacheSync(c)
           /\ C!CompleteSpec(c) => CP!CompleteSpec(c)
           /\ C!DeleteCluster(c) => CP!DeleteCluster(c)
BY DEF C!ReconcileGone, C!Reconcile, C!CacheSync, C!CompleteSpec,
       C!DeleteCluster, C!api, C!worker, C!hosts, C!EditCluster,
       CP!ReconcileGone, CP!Reconcile, CP!CacheSync, CP!CompleteSpec,
       CP!DeleteCluster, CP!api, CP!worker, CP!hosts, CP!EditCluster

LEMMA ManagerStops ==
    ASSUME CrashRestart
    PROVE  MP!CrashRestart /\ CP!CrashRestart
<1>1. MP!CrashRestart
  BY DEF M!CrashRestart, M!Existing, M!Rest, M!cloud, M!env, M!NewMachine,
         MP!CrashRestart, MP!Existing, MP!Rest, MP!cloud, MP!env, MP!NewMachine, CrashRestart
<1>2. CP!CrashRestart
  BY DEF C!CrashRestart, C!Rest, C!hosts, C!Nothing, C!NewCluster,
         CP!CrashRestart, CP!Rest, CP!hosts, CP!Nothing, CP!NewCluster, CrashRestart
<1> QED BY <1>1, <1>2

-----------------------------------------------------------------------------
(***************************************************************************)
(* The steps of the provider, as steps of the components.                  *)
(***************************************************************************)

MachineMoves ==
    \/ \E m \in Machines : \/ MP!ReconcileGone(m)
                           \/ MP!Reconcile(m)
                           \/ MP!CacheSync(m)
                           \/ MP!DeleteMachine(m)
    \/ MP!Continue
    \/ \E s \in Servers : MP!PowerOn(s) \/ MP!RemoveExternally(s)

\* A LatitudeCluster is deleted when its machines are gone.
ClusterMoves ==
    \/ \E c \in Clusters : \/ CP!ReconcileGone(c)
                           \/ CP!Reconcile(c)
                           \/ CP!CacheSync(c)
                           \/ CP!CompleteSpec(c)
                           \/ /\ c \in doomed
                              /\ \A m \in MachinesOf(c) : ~mStored[m].exists
                              /\ CP!DeleteCluster(c)
    \/ CP!Continue

LEMMA StepCases ==
    ASSUME [Next]_vars
    PROVE  \/ MachineMoves /\ UNCHANGED <<clusterVars, doomed>>
           \/ ClusterMoves /\ UNCHANGED <<machineVars, doomed>>
           \/ CrashRestart
           \/ \E m \in Machines : PublishBootstrap(m)
           \/ \E c \in Clusters : DeleteCluster(c)
           \/ UNCHANGED vars
<1>1. ASSUME NEW m \in Machines,
             MachineReads(m) \/ MachineCacheSync(m) \/ MachineDeleted(m)
      PROVE  MachineMoves /\ UNCHANGED <<clusterVars, doomed>>
  BY <1>1, MachineOthers
     DEF MachineReads, MachineCacheSync, MachineDeleted, MachineMoves
<1>2. ASSUME NEW c \in Clusters,
             ClusterReads(c) \/ ClusterCacheSync(c) \/ SpecCompleted(c)
               \/ TearDownCluster(c)
      PROVE  ClusterMoves /\ UNCHANGED <<machineVars, doomed>>
  BY <1>2, ClusterOthers
     DEF ClusterReads, ClusterCacheSync, SpecCompleted, TearDownCluster,
         ClusterMoves
<1>3. CASE MachineContinues
  BY <1>3, MachineContinue DEF MachineContinues, MachineMoves
<1>4. CASE ClusterContinues
  BY <1>4, ClusterContinue DEF ClusterContinues, ClusterMoves
<1>5. CASE ServerPowersOn
  BY <1>5, ServerOthers DEF ServerPowersOn, MachineMoves
<1>6. CASE ServerRemoved
  BY <1>6, ServerOthers DEF ServerRemoved, MachineMoves
<1> QED BY <1>1, <1>2, <1>3, <1>4, <1>5, <1>6 DEF Next

\* cluster-api's own steps leave both components alone.
LEMMA OthersStep ==
    ASSUME UNCHANGED vars \/ \E c \in Clusters : DeleteCluster(c)
    PROVE  UNCHANGED <<machineVars, clusterVars>> /\ doomed \subseteq doomed'
BY DEF DeleteCluster, vars

LEMMA MachineMovesAre == MachineMoves => MP!Next /\ UNCHANGED bootstrap
<1>1. MP!Continue => UNCHANGED bootstrap
  BY Assumptions, MP!ContinueKeepsEnvironment DEF MP!env
<1> QED BY <1>1
        DEF MachineMoves, MP!Next, MP!Environment, MP!ReconcileGone, MP!Reconcile,
            MP!CacheSync, MP!DeleteMachine, MP!EditMachine, MP!PowerOn,
            MP!RemoveExternally, MP!env

LEMMA ClusterMovesAre == ClusterMoves => CP!Next
BY DEF ClusterMoves, CP!Next, CP!Environment

LEMMA CrashesAre == CrashRestart => MP!Next /\ CP!Next
BY ManagerStops DEF MP!Next, MP!Environment, CP!Next, CP!Environment

-----------------------------------------------------------------------------
(***************************************************************************)
(* Each component's invariant, through the steps of both.                  *)
(***************************************************************************)

MachineInv == MP!TypeOK /\ MP!Inv

ClusterInv == CP!TypeOK /\ CP!Records /\ CP!Declared

LEMMA InfraType == [c \in Clusters |-> Infra(cStored[c])] \in [Clusters -> MP!Infra]
BY DEF Infra, MP!Infra

LEMMA HostsType == Present \subseteq ControlPlanes /\ Up \subseteq Present
BY DEF Present, Up

\* What the machine controller does not own and its invariant does not mention.
LEMMA MachineUntouched ==
    ASSUME MachineInv, UNCHANGED <<mStored, mCached, mQueue, mPc, mKey, mBefore,
                                   mObj, mThen, mAgain, servers, userData, refused>>,
           bootstrap' \subseteq Machines
    PROVE  MachineInv'
<1>1. MP!TypeOK'
  <2>1. [c \in Clusters |-> Infra(cStored[c])]' \in [Clusters -> MP!Infra]
    BY DEF Infra, MP!Infra
  <2> QED BY <2>1 DEF MachineInv, MP!TypeOK, MP!ApiOK, MP!WorkerOK, MP!CloudOK, MP!EnvOK
<1>2. MP!Inv'
  BY MP!OtherStep, MP!SameServersKept, Assumptions
     DEF MachineInv, MP!worker, MP!cloud
<1> QED BY <1>1, <1>2 DEF MachineInv

LEMMA NextMachineInv ==
    ASSUME "staleCache" \notin MachineEvents, MachineInv, [Next]_vars
    PROVE  MachineInv'
<1>1. CASE MP!Next
  BY <1>1, Assumptions, MP!NextType, MP!NextRecords DEF MachineInv
<1>2. CASE UNCHANGED machineVars
  <2>1. bootstrap' \subseteq Machines
    BY <1>2 DEF MachineInv, MP!TypeOK, MP!EnvOK, machineVars
  <2> QED BY <1>2, <2>1, MachineUntouched DEF machineVars
<1>3. ASSUME NEW m \in Machines, PublishBootstrap(m)
      PROVE  MachineInv'
  <2>1. bootstrap' \subseteq Machines
    BY <1>3 DEF MachineInv, MP!TypeOK, MP!EnvOK, PublishBootstrap
  <2> QED BY <1>3, <2>1, MachineUntouched DEF PublishBootstrap
<1> QED BY <1>1, <1>2, <1>3, StepCases, OthersStep, MachineMovesAre, CrashesAre

LEMMA ClusterUntouched ==
    ASSUME ClusterInv, UNCHANGED clusterVars
    PROVE  ClusterInv'
<1>1. CP!TypeOK'
  <2>1. Present' \subseteq ControlPlanes /\ Up' \subseteq Present'
    BY DEF Present, Up
  <2> QED BY <2>1 DEF ClusterInv, CP!TypeOK, clusterVars
<1>2. CP!Records'
  BY CP!OtherRecords, Assumptions DEF ClusterInv, clusterVars, CP!api, CP!worker
<1>3. CP!Declared'
  BY DEF ClusterInv, CP!Declared, clusterVars
<1> QED BY <1>1, <1>2, <1>3 DEF ClusterInv

LEMMA NextClusterInv ==
    ASSUME ClusterInv, [Next]_vars
    PROVE  ClusterInv' /\ \A c \in Clusters : CP!Goes(c)
<1>1. CASE CP!Next
  <2>1. "edit" \notin ClusterEvents
    BY ProviderAssumption
  <2> QED BY <1>1, <2>1, Assumptions, CP!NextType, CP!NextRecords, CP!NextDeclares
          DEF ClusterInv
<1>2. CASE UNCHANGED clusterVars
  <2>1. UNCHANGED cStored
    BY <1>2 DEF clusterVars
  <2> QED BY <1>2, <2>1, ClusterUntouched, CP!SameGoes, Assumptions
<1>3. ASSUME NEW m \in Machines, PublishBootstrap(m)
      PROVE  UNCHANGED clusterVars
  BY <1>3 DEF PublishBootstrap
<1> QED BY <1>1, <1>2, <1>3, StepCases, OthersStep, ClusterMovesAre, CrashesAre

LEMMA InitInv == Init => MachineInv /\ ClusterInv
<1> SUFFICES ASSUME Init
             PROVE  MachineInv /\ ClusterInv
  OBVIOUS
<1>1. MachineInv
  BY StartsAsComponents, InfraType, Assumptions, MP!StartType, MP!StartRecords
     DEF MachineInv
<1>2. CP!Declared
  BY StartsAsComponents DEF CP!Declared, CP!ControllerInit
<1>3. ClusterInv
  BY <1>2, StartsAsComponents, HostsType, Assumptions, CP!StartType,
     CP!StartRecords DEF ClusterInv
<1> QED BY <1>1, <1>3

-----------------------------------------------------------------------------
(***************************************************************************)
(* The provider ID, with what the machines wait for coming and going.      *)
(***************************************************************************)

LEMMA NextProviderNames ==
    ASSUME "staleCache" \notin MachineEvents, "patchError" \notin MachineEvents,
           MachineInv, MP!Names, [Next]_vars
    PROVE  MP!Names'
<1>1. CASE MP!Next
  BY <1>1, Assumptions, MP!NextIsOneOf, MP!NextNames DEF MachineInv
<1>2. CASE UNCHANGED <<mStored, mPc, mKey, mBefore, mObj, mThen>>
  BY <1>2 DEF MP!Names, MP!Naming, MP!ReadyHasProviderID, MP!ServerOf
<1> QED BY <1>1, <1>2, StepCases, OthersStep, MachineMovesAre, CrashesAre
        DEF machineVars, PublishBootstrap

\* A machine that is ready has the provider ID of its server, with two
\* controllers at work and clusters that become ready, and are torn down, while
\* the machines wait for them.
THEOREM ProviderIDOfReadyMachine ==
    ASSUME "staleCache" \notin MachineEvents, "patchError" \notin MachineEvents
    PROVE  Spec => []ReadyHasProviderID
<1>1. Init => MP!Names
  BY StartsAsComponents, Assumptions, MP!StartNames
<1>2. MachineInv /\ [Next]_vars => MachineInv'
  BY NextMachineInv
<1>3. MachineInv /\ MP!Names /\ [Next]_vars => MP!Names'
  BY NextProviderNames
<1>4. MP!Names => ReadyHasProviderID
  BY DEF MP!Names, MP!ReadyHasProviderID, MP!ServerOf, ReadyHasProviderID,
         M!ReadyHasProviderID, M!ServerOf
<1> QED BY <1>1, <1>2, <1>3, <1>4, InitInv, PTL DEF Spec

-----------------------------------------------------------------------------
(***************************************************************************)
(* A ready machine runs on its cluster's VLAN.                             *)
(***************************************************************************)

\* cluster-api publishes no bootstrap data before the cluster is ready.
Published == \A m \in bootstrap : cStored[ClusterOf[m]].status.ready

\* cluster-api asks for the deletion of a LatitudeCluster last.
Emptied ==
    \A c \in Clusters :
        cStored[c].deleting =>
            c \in doomed /\ \A m \in MachinesOf(c) : ~mStored[m].exists

\* The order that cluster-api keeps between the two kinds of objects.
Order == Published /\ Emptied

LEMMA ClusterMovesMark ==
    ASSUME ClusterInv, ClusterMoves, NEW c \in Clusters, CP!Marks(c)
    PROVE  c \in doomed /\ \A m \in MachinesOf(c) : ~mStored[m].exists
<1>1. CASE CP!Continue
  BY <1>1, Assumptions, CP!ContinueDeclares DEF ClusterInv
<1>2. ASSUME NEW d \in Clusters, CP!CompleteSpec(d) \/ CP!DeleteCluster(d)
      PROVE  c = d /\ CP!DeleteCluster(d)
  BY <1>2, Assumptions, CP!EditGoes DEF ClusterInv
<1>3. CASE UNCHANGED cStored
  BY <1>3, Assumptions, CP!SameGoes
<1>4. ASSUME NEW d \in Clusters, CP!CompleteSpec(d)
      PROVE  FALSE
  <2>1. cStored'[c].deleting = cStored[c].deleting
    BY <1>4 DEF CP!CompleteSpec, CP!EditCluster, ClusterInv, CP!TypeOK, CP!Object
  <2> QED BY <2>1 DEF CP!Marks
<1> QED BY <1>1, <1>2, <1>3, <1>4
        DEF ClusterMoves, CP!ReconcileGone, CP!Reconcile, CP!CacheSync, CP!api

LEMMA NextOrder ==
    ASSUME "staleCache" \notin MachineEvents, MachineInv, ClusterInv, Order,
           [Next]_vars
    PROVE  Order'
<1>1. \A c \in Clusters : CP!Goes(c)
  BY NextClusterInv
<1>2. \A m \in Machines : ClusterOf[m] \in Clusters
  BY Assumptions DEF MP!MachineAssumption
<1>3. Published'
  <2>1. ASSUME NEW m \in bootstrap'
        PROVE  cStored[ClusterOf[m]].status.ready
    <3>1. UNCHANGED bootstrap \/ \E n \in Machines : PublishBootstrap(n)
      BY StepCases, OthersStep, MachineMovesAre DEF machineVars, CrashRestart, M!CrashRestart,
         M!env
    <3> QED BY <2>1, <3>1 DEF Order, Published, PublishBootstrap
  <2>2. \A m \in bootstrap' : m \in Machines
    BY NextMachineInv DEF MachineInv, MP!TypeOK, MP!EnvOK
  <2> QED BY <1>1, <1>2, <2>1, <2>2 DEF Published, CP!Goes
<1>4. \A m \in Machines : mStored'[m].exists => mStored[m].exists
  <2>1. CASE MP!Next
    BY <2>1, Assumptions, MP!NextIsOneOf, MP!NoneReturns DEF MachineInv
  <2>2. CASE UNCHANGED mStored
    BY <2>2
  <2> QED BY <2>1, <2>2, StepCases, OthersStep, MachineMovesAre, CrashesAre
          DEF machineVars, PublishBootstrap
<1>5. ASSUME NEW c \in Clusters, cStored'[c].deleting
      PROVE  c \in doomed /\ \A m \in MachinesOf(c) : ~mStored[m].exists
  <2>1. CASE cStored[c].deleting
    BY <2>1 DEF Order, Emptied
  <2>2. CASE ClusterMoves /\ ~cStored[c].deleting
    BY <1>5, <2>2, ClusterMovesMark DEF CP!Marks
  <2>3. ClusterMoves \/ UNCHANGED cStored
    BY StepCases, OthersStep DEF clusterVars, CrashRestart, PublishBootstrap
  <2> QED BY <1>5, <2>1, <2>2, <2>3
<1>6. doomed \subseteq doomed'
  BY StepCases, OthersStep DEF CrashRestart, PublishBootstrap
<1> QED BY <1>3, <1>4, <1>5, <1>6 DEF Order, Emptied, MachinesOf

\* Data that is published can be completed with the VLAN: NetworkFirst, which the
\* machine controller's theorem takes as given.
LEMMA VLANComesFirst == ClusterInv /\ MachineInv /\ Published => MP!NetworkFirst
<1> SUFFICES ASSUME ClusterInv, MachineInv, Published
             PROVE  MP!NetworkFirst
  OBVIOUS
<1>1. \A m \in bootstrap : ClusterOf[m] \in Clusters
  BY Assumptions DEF MachineInv, MP!TypeOK, MP!EnvOK, MP!MachineAssumption
<1>2. ASSUME NEW m \in bootstrap, NEW c \in Clusters, c = ClusterOf[m]
      PROVE  Infra(cStored[c]).vlan # "pending"
  <2>1. cStored[c].status.ready /\ CP!Held(cStored[c], c)
    BY <1>2 DEF Published, ClusterInv, CP!Records, CP!Copies
  <2>2. ~cStored[c].config.configured \/ cStored[c].status.vlanVID # None
    BY <2>1 DEF CP!Held
  <2> QED BY <2>2 DEF Infra
<1> QED BY <1>1, <1>2 DEF MP!NetworkFirst

\* The invariant of ReadyRunsOnVLAN, beyond those of the components.
Connected == Order /\ MP!Wired

\* What is not allowed to happen: that a machine is read stale, another read
\* fails, user data is created without an answer, or without the VLAN because of
\* its subnet, or the attachment of a new server is cut off or refused.
NothingSkipped ==
    MachineEvents \intersect {"staleCache", "crash", "apiError", "readError",
                              "emptyReply", "badSubnet"} = {}

LEMMA NextConnected ==
    ASSUME NothingSkipped, MachineInv, ClusterInv, Connected, [Next]_vars
    PROVE  Connected'
<1>1. Order'
  BY NextOrder DEF NothingSkipped, Connected
<1>2. MP!NothingSkipped
  BY DEF NothingSkipped, MP!NothingSkipped
<1>3. CASE MP!Next
  <2>1. MP!NextCases /\ MP!NetworkFirst
    BY <1>3, Assumptions, VLANComesFirst, MP!NextIsOneOf DEF Connected, Order
  <2>2. MP!Wired'
    BY <1>2, <2>1, Assumptions, MP!NextWired DEF MachineInv, Connected
  <2> QED BY <1>1, <2>2 DEF Connected
<1>4. CASE /\ UNCHANGED <<mStored, mPc, mKey, mBefore, mObj, mThen, mAgain,
                          servers, userData>>
           /\ bootstrap \subseteq bootstrap'
  <2>1. \A m \in Machines : MP!Networked(m)' = MP!Networked(m)
    BY NextClusterInv, Assumptions
       DEF MP!Networked, MP!MachineAssumption, CP!Goes, Infra
  <2>2. UNCHANGED <<mStored, MP!worker, MP!cloud>>
    BY <1>4 DEF MP!worker, MP!cloud
  <2>3. MP!Wired /\ MP!TypeOK
    BY DEF Connected, MachineInv
  <2>4. MP!Wired'
    BY <1>4, <2>1, <2>2, <2>3, Assumptions, MP!OtherWired
  <2> QED BY <1>1, <2>4 DEF Connected
<1> QED BY <1>1, <1>3, <1>4, StepCases, OthersStep, MachineMovesAre, CrashesAre
        DEF Connected, machineVars, PublishBootstrap

LEMMA InitConnected == Init => Connected
<1> SUFFICES ASSUME Init
             PROVE  Connected
  OBVIOUS
<1>1. Published
  BY StartsAsComponents DEF Published, MP!ControllerInit
<1>2. \A c \in Clusters : ~cStored[c].deleting
  BY StartsAsComponents DEF CP!ControllerInit, CP!NewCluster
<1> QED BY <1>1, <1>2, StartsAsComponents, Assumptions, MP!StartWired
        DEF Connected, Order, Emptied

\* When no two clusters have one description, a ready machine of a cluster with a
\* VLANConfig is in the cluster's live VLAN, and its user data says so.  Patches
\* may fail, replies be lost, servers be removed and clusters be torn down on the
\* way.  What NothingSkipped excludes is what the code only logs, and makes the
\* machine ready all the same.
THEOREM ReadyMachineRunsOnVLAN ==
    ASSUME NothingSkipped,
           \A c, d \in Clusters : DescriptionOf[c] = DescriptionOf[d] => c = d
    PROVE  Spec => []ReadyRunsOnVLAN
<1>1. MachineInv /\ ClusterInv /\ Connected => ReadyRunsOnVLAN
  <2> SUFFICES ASSUME MachineInv, ClusterInv, Connected, NEW m \in Machines,
                      NEW c \in Clusters, c = ClusterOf[m],
                      mStored[m].exists, mStored[m].status.ready,
                      cStored[c].config.configured
               PROVE  LET s == servers[mStored[m].status.serverID]
                      IN  /\ s.vlan
                          /\ s.userData # None
                          /\ userData[s.userData].vlan
                          /\ vlans[cStored[c].status.vlanID].st = "live"
    BY Assumptions DEF ReadyRunsOnVLAN, MP!MachineAssumption
  <2>1. PICK s, u : s = mStored[m].status.serverID /\ u = mStored[m].status.userDataID
    OBVIOUS
  <2>2. MP!Equipped(s, u, TRUE, m)
    <3>1. mStored[m].status.ready = TRUE
      BY DEF MachineInv, MP!TypeOK, MP!ApiOK, MP!Object, MP!Status
    <3> QED BY <2>1, <3>1 DEF Connected, MP!Wired, MP!ServerOf
  <2>3. MP!Networked(m)
    BY DEF MP!Networked, Infra
  <2>4. s # None /\ m \in bootstrap /\ u # None /\ servers[s].vlan /\ userData[u].vlan
    BY <2>2, <2>3 DEF MP!Equipped
  <2>5. servers[s].userData = u
    BY <2>1, <2>4 DEF MachineInv, MP!Inv, MP!Records, MP!Recorded, MP!ServerOf
  <2>6. cStored[c].status.ready /\ ~cStored[c].deleting
    BY <2>4 DEF Connected, Order, Published, Emptied, MachinesOf
  <2>7. cStored[c].status.vlanID # None
    BY <2>6 DEF ClusterInv, CP!Records, CP!Copies, CP!Held
  <2>8. vlans[cStored[c].status.vlanID].st = "live"
    BY <2>6, <2>7, Assumptions, ProviderAssumption, CP!VLANLives DEF ClusterInv
  <2> QED BY <2>1, <2>4, <2>5, <2>8
<1>2. MachineInv /\ [Next]_vars => MachineInv'
  BY NextMachineInv DEF NothingSkipped
<1>3. ClusterInv /\ [Next]_vars => ClusterInv'
  BY NextClusterInv
<1>4. MachineInv /\ ClusterInv /\ Connected /\ [Next]_vars => Connected'
  BY NextConnected
<1> QED BY <1>1, <1>2, <1>3, <1>4, InitInv, InitConnected, PTL DEF Spec

-----------------------------------------------------------------------------
(***************************************************************************)
(* The two controllers keep the order of ClusterLifecycle.                 *)
(***************************************************************************)

\* What is not allowed to happen: that a machine is read stale, a patch of one
\* refused, or its server, which GetServer failed to find, forgotten; and that
\* a VLAN is created which is there, but left out of the list.
InOrder ==
    /\ MachineEvents \intersect {"staleCache", "patchError", "getError"} = {}
    /\ "listError" \notin ClusterEvents
    /\ \A c, d \in Clusters : DescriptionOf[c] = DescriptionOf[d] => c = d

MachineLife == MachineInv /\ MP!Gone /\ MP!Booted /\ MP!Joined

ClusterLife == CP!Steadfast /\ CP!OneVLANPerDescription /\ CP!Tended

Life == MachineLife /\ ClusterLife /\ Order

LEMMA SteadfastIs ==
    CP!Steadfast <=> ClusterInv /\ CP!Awake /\ CP!EndpointRead
BY DEF CP!Steadfast, ClusterInv

LEMMA NoOthers ==
    ASSUME InOrder
    PROVE  /\ "staleCache" \notin MachineEvents /\ "patchError" \notin MachineEvents
           /\ "getError" \notin MachineEvents
           /\ CP!OneEach /\ "staleCache" \notin ClusterEvents
BY ProviderAssumption DEF InOrder, CP!OneEach

LEMMA NextMachineLife ==
    ASSUME InOrder, MachineLife, [Next]_vars
    PROVE  MachineLife'
<1>1. MachineInv'
  BY NextMachineInv, NoOthers DEF MachineLife
<1>2. CASE MP!Next
  <2>1. MP!NextCases /\ MP!TypeOK /\ MP!Inv
    BY <1>2, Assumptions, MP!NextIsOneOf DEF MachineLife, MachineInv
  <2>2. MP!Gone'
    BY <2>1, Assumptions, MP!NextGone DEF MachineLife
  <2>3. MP!Booted'
    BY <2>1, Assumptions, NoOthers, MP!NextBooted DEF MachineLife
  <2>4. MP!Joined'
    BY <2>1, Assumptions, NoOthers, MP!NextJoined DEF MachineLife
  <2> QED BY <1>1, <2>2, <2>3, <2>4 DEF MachineLife
<1>3. CASE /\ UNCHANGED <<mStored, mPc, mKey, mObj, mThen, servers>>
           /\ bootstrap \subseteq bootstrap'
  <2>1. MP!Gone' /\ MP!Joined'
    BY <1>3 DEF MachineLife, MP!Gone, MP!Joined, MP!Live, MP!ServerOf
  <2>2. MP!Booted'
    BY <1>3 DEF MachineLife, MP!Booted, MP!GoingTo, MP!ServerOf
  <2> QED BY <1>1, <2>1, <2>2 DEF MachineLife
<1> QED BY <1>2, <1>3, StepCases, OthersStep, MachineMovesAre, CrashesAre
        DEF machineVars, PublishBootstrap

LEMMA NextClusterLife ==
    ASSUME InOrder, ClusterLife, [Next]_vars
    PROVE  ClusterLife'
<1>1. ClusterInv'
  BY NextClusterInv, SteadfastIs DEF ClusterLife
<1>2. CASE CP!Next
  <2>1. CP!TypeOK /\ CP!Awake /\ CP!EndpointRead
    BY DEF ClusterLife, CP!Steadfast
  <2>2. CP!Awake'
    BY <1>2, <2>1, Assumptions, CP!NextWakes
  <2>3. CP!EndpointRead'
    BY <1>2, <2>1, Assumptions, NoOthers, CP!NextEndpoint
  <2>4. CP!OneVLANPerDescription'
    BY <1>2, <2>1, Assumptions, CP!NextOne DEF InOrder, ClusterLife
  <2>5. CP!Tended'
    BY <1>2, Assumptions, NoOthers, CP!NextTends DEF ClusterLife
  <2> QED BY <1>1, <2>2, <2>3, <2>4, <2>5 DEF ClusterLife, CP!Steadfast, ClusterInv
<1>3. CASE UNCHANGED clusterVars
  <2>1. CP!Awake'
    BY <1>3 DEF clusterVars, ClusterLife, CP!Steadfast, CP!Awake, CP!AllFinalized,
                CP!Noticed, CP!Worked, CP!HandsBack, CP!SpecChanged,
                CP!StatusChanged, CP!Alike
  <2>2. CP!EndpointRead' /\ CP!OneVLANPerDescription'
    BY <1>3 DEF clusterVars, ClusterLife, CP!Steadfast, CP!EndpointRead,
                CP!OneVLANPerDescription, CP!VLANsFor
  <2>3. CP!Tended'
    BY <1>3 DEF clusterVars, ClusterLife, CP!Tended, CP!Leaving, CP!Tending,
                CP!MadeFor, CP!Deleted
  <2> QED BY <1>1, <2>1, <2>2, <2>3 DEF ClusterLife, CP!Steadfast, ClusterInv
<1> QED BY <1>2, <1>3, StepCases, OthersStep, ClusterMovesAre, CrashesAre
        DEF PublishBootstrap

LEMMA NextLife == InOrder /\ Life /\ [Next]_vars => Life'
BY NextMachineLife, NextClusterLife, NextOrder, NoOthers, SteadfastIs
   DEF Life, MachineLife, ClusterLife

LEMMA InitLife == Init => Life
<1> SUFFICES ASSUME Init
             PROVE  Life
  OBVIOUS
<1>1. MP!ControllerInit /\ CP!ControllerInit
  BY StartsAsComponents
<1>2. MP!Gone /\ MP!Booted /\ MP!Joined
  BY <1>1, Assumptions, MP!StartGone, MP!StartBooted, MP!StartJoined
<1>3. CP!Awake /\ CP!Tended
  BY <1>1, Assumptions, CP!StartWakes, CP!StartTends
<1>4. CP!EndpointRead /\ CP!OneVLANPerDescription
  BY <1>1 DEF CP!ControllerInit, CP!EndpointRead, CP!OneVLANPerDescription
<1>5. Order
  BY InitConnected DEF Connected
<1> QED BY <1>2, <1>3, <1>4, <1>5, InitInv, SteadfastIs
        DEF Life, MachineLife, ClusterLife

\* What the lifecycle sees, under the mapping of Lifecycle in LatitudeProvider.
phase == [c \in Clusters |->
            CASE ~cStored[c].exists -> "gone"
              [] cStored[c].exists /\ cStored[c].status.ready -> "ready"
              [] OTHER -> "provisioning"]
network == [c \in Clusters |->
              {v \in VLANs : vlans[v].st = "live" /\ vlans[v].creator = c}]
fleet == [c \in Clusters |-> ServersOf(c)]
attached == [c \in Clusters |-> {s \in ServersOf(c) : servers[s].vlan}]
endpoint == {c \in Clusters : cStored[c].status.endpoint # None}

ClusterSide == <<phase, network, endpoint>>
ServerSide == <<fleet, attached>>

LEMMA ClusterUnmoved == UNCHANGED <<cStored, vlans>> => UNCHANGED ClusterSide
BY DEF ClusterSide, phase, network, endpoint

LEMMA ServersUnmoved == UNCHANGED servers => UNCHANGED ServerSide
BY DEF ServerSide, fleet, attached, ServersOf, M!Live, MachinesOf

LEMMA PhaseValues ==
    ASSUME NEW c \in Clusters
    PROVE  /\ ~cStored[c].exists => phase[c] = "gone"
           /\ cStored[c].exists /\ cStored[c].status.ready => phase[c] = "ready"
           /\ cStored[c].exists /\ ~cStored[c].status.ready =>
                phase[c] = "provisioning"
BY DEF phase

LEMMA FleetMembers ==
    ASSUME NEW c \in Clusters, NEW s \in Servers
    PROVE  /\ s \in fleet[c] <=> /\ MP!Live(s) /\ servers[s].owner \in Machines
                                 /\ ClusterOf[servers[s].owner] = c
           /\ s \in attached[c] <=> s \in fleet[c] /\ servers[s].vlan
BY DEF fleet, attached, ServersOf, MachinesOf, M!Live, MP!Live

LEMMA FleetType ==
    /\ fleet \in [Clusters -> SUBSET Servers]
    /\ attached \in [Clusters -> SUBSET Servers]
BY DEF fleet, attached, ServersOf

\* A cluster without machines has no attached server.
LEMMA EmptyCluster ==
    ASSUME Life, NEW c \in Clusters, \A m \in MachinesOf(c) : ~mStored[m].exists
    PROVE  attached[c] = {}
<1> SUFFICES ASSUME NEW s \in attached[c]
             PROVE  FALSE
  OBVIOUS
<1>1. s \in Servers
  BY FleetType
<1>2. MP!Live(s) /\ servers[s].vlan /\ ClusterOf[servers[s].owner] = c
  BY <1>1, FleetMembers
<1>3. servers[s].owner \in Machines /\ mStored[servers[s].owner].exists
  BY <1>1, <1>2, Assumptions, MP!JoinedExists DEF Life, MachineLife, MachineInv
<1> QED BY <1>2, <1>3 DEF MachinesOf

\* A machine at work for which data was published has a ready cluster.
LEMMA BootedIsReady ==
    ASSUME Life, NEW m \in bootstrap, m \in Machines, mStored[m].exists,
           NEW c \in Clusters, c = ClusterOf[m]
    PROVE  phase[c] = "ready"
<1>1. cStored[c].status.ready
  BY DEF Life, Order, Published
<1>2. ~cStored[c].deleting
  BY DEF Life, Order, Emptied, MachinesOf
<1>3. cStored[c].exists
  BY <1>2 DEF Life, ClusterLife, CP!Tended, CP!Leaving
<1> QED BY <1>1, <1>3, PhaseValues

(***************************************************************************)
(* The machine controller's steps.                                         *)
(***************************************************************************)

LEMMA SameServerMembers ==
    ASSUME NEW r \in Servers, MP!SameServer(r), NEW c \in Clusters
    PROVE  /\ r \in fleet'[c] <=> r \in fleet[c]
           /\ r \in attached'[c] <=> r \in attached[c]
<1>1. /\ r \in fleet'[c] <=> /\ MP!Live(r)' /\ servers'[r].owner \in Machines
                             /\ ClusterOf[servers'[r].owner] = c
      /\ r \in attached'[c] <=> r \in fleet'[c] /\ servers'[r].vlan
  BY DEF fleet, attached, ServersOf, MachinesOf, M!Live, MP!Live
<1> QED BY <1>1, FleetMembers DEF MP!SameServer

\* Sets, one for each cluster, that differ in one cluster's.
LEMMA Pointwise ==
    ASSUME NEW f \in [Clusters -> SUBSET (Servers \cup VLANs)],
           NEW g \in [Clusters -> SUBSET (Servers \cup VLANs)],
           NEW c \in Clusters, NEW F \in SUBSET (Servers \cup VLANs),
           \A r \in Servers \cup VLANs, d \in Clusters :
             r \in g[d] <=> r \in IF d = c THEN F ELSE f[d]
    PROVE  g = [f EXCEPT ![c] = F]
<1>1. ASSUME NEW d \in Clusters
      PROVE  g[d] = IF d = c THEN F ELSE f[d]
  <2> DEFINE G == IF d = c THEN F ELSE f[d]
  <2>1. g[d] \subseteq Servers \cup VLANs /\ G \subseteq Servers \cup VLANs
    OBVIOUS
  <2>2. \A r \in Servers \cup VLANs : r \in g[d] <=> r \in G
    OBVIOUS
  <2> HIDE DEF G
  <2>3. g[d] = G
    BY <2>1, <2>2
  <2> QED BY <2>3 DEF G
<1> QED BY <1>1

LEMMA FleetBecomes ==
    ASSUME NEW c \in Clusters, NEW F \in SUBSET Servers,
           \A r \in Servers, d \in Clusters :
             r \in fleet'[d] <=> r \in IF d = c THEN F ELSE fleet[d]
    PROVE  fleet' = [fleet EXCEPT ![c] = F]
<1>1. PICK f, g : f = fleet /\ g = fleet'
  OBVIOUS
<1>2. f \in [Clusters -> SUBSET Servers] /\ g \in [Clusters -> SUBSET Servers]
  BY <1>1, FleetType DEF fleet, ServersOf
<1>3. \A r \in Servers, d \in Clusters :
        r \in g[d] <=> r \in IF d = c THEN F ELSE f[d]
  BY <1>1
<1>4. \A r \in Servers \cup VLANs, d \in Clusters :
        r \in g[d] <=> r \in IF d = c THEN F ELSE f[d]
  BY <1>2, <1>3
<1>5. /\ F \in SUBSET (Servers \cup VLANs)
      /\ f \in [Clusters -> SUBSET (Servers \cup VLANs)]
      /\ g \in [Clusters -> SUBSET (Servers \cup VLANs)]
  BY <1>2
<1>6. g = [f EXCEPT ![c] = F]
  BY <1>4, <1>5, Pointwise
<1> QED BY <1>1, <1>6

LEMMA AttachedBecomes ==
    ASSUME NEW c \in Clusters, NEW F \in SUBSET Servers,
           \A r \in Servers, d \in Clusters :
             r \in attached'[d] <=> r \in IF d = c THEN F ELSE attached[d]
    PROVE  attached' = [attached EXCEPT ![c] = F]
<1>1. PICK f, g : f = attached /\ g = attached'
  OBVIOUS
<1>2. f \in [Clusters -> SUBSET Servers] /\ g \in [Clusters -> SUBSET Servers]
  BY <1>1, FleetType DEF attached, ServersOf
<1>3. \A r \in Servers, d \in Clusters :
        r \in g[d] <=> r \in IF d = c THEN F ELSE f[d]
  BY <1>1
<1>4. \A r \in Servers \cup VLANs, d \in Clusters :
        r \in g[d] <=> r \in IF d = c THEN F ELSE f[d]
  BY <1>2, <1>3
<1>5. /\ F \in SUBSET (Servers \cup VLANs)
      /\ f \in [Clusters -> SUBSET (Servers \cup VLANs)]
      /\ g \in [Clusters -> SUBSET (Servers \cup VLANs)]
  BY <1>2
<1>6. g = [f EXCEPT ![c] = F]
  BY <1>4, <1>5, Pointwise
<1> QED BY <1>1, <1>6

\* No server comes or goes.
LEMMA ServersStay ==
    ASSUME \A r \in Servers, d \in Clusters :
             /\ r \in fleet'[d] <=> r \in fleet[d]
             /\ r \in attached'[d] <=> r \in attached[d]
    PROVE  UNCHANGED ServerSide
<1>1. CASE Clusters = {}
  BY <1>1 DEF ServerSide, fleet, attached
<1>2. ASSUME NEW c \in Clusters
      PROVE  UNCHANGED ServerSide
  <2>1. fleet[c] \in SUBSET Servers /\ attached[c] \in SUBSET Servers
    BY FleetType
  <2>2. fleet' = [fleet EXCEPT ![c] = fleet[c]]
    BY <2>1, FleetBecomes
  <2>3. attached' = [attached EXCEPT ![c] = attached[c]]
    BY <2>1, AttachedBecomes
  <2> QED BY <2>2, <2>3, FleetType DEF ServerSide
<1> QED BY <1>1, <1>2

LEMMA StartIsStartServer ==
    ASSUME Life, NEW m \in bootstrap, m \in Machines, mStored[m].exists, m = mKey,
           NEW s \in Servers, MP!Starts(s), UNCHANGED <<ClusterSide, doomed>>
    PROVE  \E c \in Clusters : Lifecycle!StartServer(c, s)
<1>1. PICK c \in Clusters : c = ClusterOf[m]
  BY Assumptions DEF MP!MachineAssumption
<1>2. phase[c] = "ready"
  BY <1>1, BootedIsReady
<1>3. \A d \in Clusters : s \notin fleet[d] /\ s \notin attached[d]
  BY FleetMembers DEF MP!Starts
<1>4. \A d \in Clusters : /\ s \in fleet'[d] <=> d = c
                          /\ s \notin attached'[d]
  BY <1>1 DEF MP!Starts, fleet, attached, ServersOf, MachinesOf, M!Live, MP!Live
<1>5. \A r \in Servers, d \in Clusters :
        r # s => /\ r \in fleet'[d] <=> r \in fleet[d]
                 /\ r \in attached'[d] <=> r \in attached[d]
  BY SameServerMembers DEF MP!Starts, MP!OthersSame
<1>6. fleet' = [fleet EXCEPT ![c] = fleet[c] \union {s}]
  <2>1. fleet[c] \union {s} \in SUBSET Servers
    BY FleetType
  <2>2. \A r \in Servers, d \in Clusters :
          r \in fleet'[d] <=> r \in IF d = c THEN fleet[c] \union {s} ELSE fleet[d]
    BY <1>3, <1>4, <1>5
  <2> QED BY <2>1, <2>2, FleetBecomes
<1>7. attached' = attached
  <2>1. \A r \in Servers, d \in Clusters : r \in attached'[d] <=> r \in attached[d]
    BY <1>3, <1>4, <1>5
  <2>2. attached' = [attached EXCEPT ![c] = attached[c]]
    BY <2>1, AttachedBecomes, FleetType
  <2> QED BY <2>2, FleetType
<1>8. Lifecycle!StartServer(c, s)
  BY <1>2, <1>3, <1>6, <1>7
     DEF Lifecycle!StartServer, ClusterSide, phase, network, endpoint, fleet,
         attached
<1> QED BY <1>8

LEMMA JoinIsAttach ==
    ASSUME Life, NEW m \in bootstrap, m \in Machines, mStored[m].exists,
           NEW s \in Servers, servers[s].owner = m, MP!Joins(s),
           UNCHANGED <<ClusterSide, doomed>>
    PROVE  \E c \in Clusters : Lifecycle!Attach(c, s)
<1>1. PICK c \in Clusters : c = ClusterOf[m]
  BY Assumptions DEF MP!MachineAssumption
<1>2. phase[c] = "ready"
  BY <1>1, BootedIsReady
<1>3. \A d \in Clusters : s \in fleet[d] <=> d = c
  BY <1>1, FleetMembers DEF MP!Joins
<1>4. \A d \in Clusters : /\ s \in fleet'[d] <=> d = c
                          /\ s \in attached'[d] <=> d = c
  BY <1>1 DEF MP!Joins, fleet, attached, ServersOf, MachinesOf, M!Live, MP!Live
<1>5. \A r \in Servers, d \in Clusters :
        r # s => /\ r \in fleet'[d] <=> r \in fleet[d]
                 /\ r \in attached'[d] <=> r \in attached[d]
  BY SameServerMembers DEF MP!Joins, MP!OthersSame
<1>6. fleet' = fleet
  <2>1. \A r \in Servers, d \in Clusters : r \in fleet'[d] <=> r \in fleet[d]
    BY <1>3, <1>4, <1>5
  <2>2. fleet' = [fleet EXCEPT ![c] = fleet[c]]
    BY <2>1, FleetBecomes, FleetType
  <2> QED BY <2>2, FleetType
<1>7. attached' = [attached EXCEPT ![c] = attached[c] \union {s}]
  <2>1. attached[c] \union {s} \in SUBSET Servers
    BY FleetType
  <2>2. \A d \in Clusters : s \in attached[d] => d = c
    BY <1>3, FleetMembers
  <2>3. \A r \in Servers, d \in Clusters :
          r \in attached'[d] <=>
            r \in IF d = c THEN attached[c] \union {s} ELSE attached[d]
    BY <1>4, <1>5, <2>2
  <2> QED BY <2>1, <2>3, AttachedBecomes
<1>8. s \in fleet[c]
  BY <1>3
<1>9. Lifecycle!Attach(c, s)
  BY <1>2, <1>6, <1>7, <1>8
     DEF Lifecycle!Attach, ClusterSide, phase, network, endpoint, fleet, attached
<1> QED BY <1>9

\* A server that nobody owns is in no fleet.
LEMMA StopIsStopServer ==
    ASSUME NEW s \in Servers, MP!Stops(s), UNCHANGED <<ClusterSide, doomed>>
    PROVE  \/ UNCHANGED ServerSide
           \/ \E c \in Clusters : Lifecycle!StopServer(c, s)
<1>1. \A r \in Servers, d \in Clusters :
        r # s => /\ r \in fleet'[d] <=> r \in fleet[d]
                 /\ r \in attached'[d] <=> r \in attached[d]
  BY SameServerMembers DEF MP!Stops, MP!OthersSame
<1>2. \A d \in Clusters : s \notin fleet'[d] /\ s \notin attached'[d]
  BY DEF MP!Stops, fleet, attached, ServersOf, MachinesOf, M!Live, MP!Live
<1>3. CASE \A d \in Clusters : s \notin fleet[d]
  <2>1. \A r \in Servers, d \in Clusters :
          /\ r \in fleet'[d] <=> r \in fleet[d]
          /\ r \in attached'[d] <=> r \in attached[d]
    BY <1>1, <1>2, <1>3, FleetMembers
  <2> QED BY <2>1, ServersStay
<1>4. ASSUME NEW c \in Clusters, s \in fleet[c]
      PROVE  Lifecycle!StopServer(c, s)
  <2>1. \A d \in Clusters : (s \in fleet[d] => d = c) /\ (s \in attached[d] => d = c)
    BY <1>4, FleetMembers
  <2>2. fleet' = [fleet EXCEPT ![c] = fleet[c] \ {s}]
    <3>1. fleet[c] \ {s} \in SUBSET Servers
      BY FleetType
    <3>2. \A r \in Servers, d \in Clusters :
            r \in fleet'[d] <=> r \in IF d = c THEN fleet[c] \ {s} ELSE fleet[d]
      BY <1>1, <1>2, <2>1
    <3> QED BY <3>1, <3>2, FleetBecomes
  <2>3. attached' = [attached EXCEPT ![c] = attached[c] \ {s}]
    <3>1. attached[c] \ {s} \in SUBSET Servers
      BY FleetType
    <3>2. \A r \in Servers, d \in Clusters :
            r \in attached'[d] <=>
              r \in IF d = c THEN attached[c] \ {s} ELSE attached[d]
      BY <1>1, <1>2, <2>1
    <3> QED BY <3>1, <3>2, AttachedBecomes
  <2> QED BY <1>4, <2>2, <2>3
          DEF Lifecycle!StopServer, ClusterSide, phase, network, endpoint, fleet,
              attached
<1> QED BY <1>3, <1>4

LEMMA MachineStepAllowed ==
    ASSUME Life, MP!NextCases, UNCHANGED <<ClusterSide, doomed>>
    PROVE  UNCHANGED ServerSide \/ Lifecycle!Next
<1>1. MP!TypeOK /\ MP!Inv /\ MP!Gone /\ MP!Booted
  BY DEF Life, MachineLife, MachineInv
<1>2. CASE \A r \in Servers : MP!SameServer(r)
  <2>1. \A r \in Servers, d \in Clusters :
          /\ r \in fleet'[d] <=> r \in fleet[d]
          /\ r \in attached'[d] <=> r \in attached[d]
    BY <1>2, SameServerMembers
  <2> QED BY <2>1, ServersStay
<1>3. ASSUME mPc = "createServer", NEW s \in Servers, MP!Starts(s)
      PROVE  Lifecycle!Next
  <2>1. PICK m \in Machines : m = mKey /\ m \in bootstrap /\ mStored[m].exists
    BY <1>1, <1>3, Assumptions, MP!WorksForBooted
  <2> QED BY <1>3, <2>1, StartIsStartServer DEF Lifecycle!Next
<1>4. ASSUME NEW s \in Servers, MP!AttachServer, s = mObj.status.serverID, MP!Joins(s)
      PROVE  Lifecycle!Next
  <2>1. mPc = "attach" /\ s # None
    BY <1>4, Assumptions DEF MP!AttachServer, MP!MachineAssumption
  <2>2. PICK m \in Machines :
          m \in bootstrap /\ mStored[m].exists /\ servers[s].owner = m
    BY <1>1, <1>4, <2>1, Assumptions, MP!WorksForBooted
  <2> QED BY <1>4, <2>2, JoinIsAttach DEF Lifecycle!Next
<1>5. ASSUME NEW s \in Servers, MP!Stops(s)
      PROVE  UNCHANGED ServerSide \/ Lifecycle!Next
  BY <1>5, StopIsStopServer DEF Lifecycle!Next
<1> QED BY <1>1, <1>2, <1>3, <1>4, <1>5, Assumptions, MP!ServerSteps

(***************************************************************************)
(* The cluster controller's steps.                                         *)
(***************************************************************************)

LEMMA NetworkMembers ==
    /\ network \in [Clusters -> SUBSET VLANs]
    /\ \A c \in Clusters, v \in VLANs : v \in network[c] <=> CP!MadeBy(v, c)
BY DEF network, CP!MadeBy

LEMMA NetworkBecomes ==
    ASSUME NEW c \in Clusters, NEW F \in SUBSET VLANs,
           \A v \in VLANs, d \in Clusters :
             CP!MadeBy(v, d)' <=> v \in IF d = c THEN F ELSE network[d]
    PROVE  network' = [network EXCEPT ![c] = F]
<1>1. PICK f, g : f = network /\ g = network'
  OBVIOUS
<1>2. f \in [Clusters -> SUBSET VLANs] /\ g \in [Clusters -> SUBSET VLANs]
  BY <1>1, NetworkMembers DEF network
<1>3. \A v \in VLANs, d \in Clusters :
        v \in g[d] <=> v \in IF d = c THEN F ELSE f[d]
  BY <1>1 DEF network, CP!MadeBy
<1>4. \A r \in Servers \cup VLANs, d \in Clusters :
        r \in g[d] <=> r \in IF d = c THEN F ELSE f[d]
  BY <1>2, <1>3
<1>5. /\ F \in SUBSET (Servers \cup VLANs)
      /\ f \in [Clusters -> SUBSET (Servers \cup VLANs)]
      /\ g \in [Clusters -> SUBSET (Servers \cup VLANs)]
  BY <1>2
<1>6. g = [f EXCEPT ![c] = F]
  BY <1>4, <1>5, Pointwise
<1> QED BY <1>1, <1>6

LEMMA NetworksStay == CP!SameNetworks => UNCHANGED network
BY DEF CP!SameNetworks, CP!MadeBy, network

LEMMA StaysSame ==
    ASSUME NEW c \in Clusters, CP!Stays(c)
    PROVE  phase'[c] = phase[c] /\ (c \in endpoint' <=> c \in endpoint)
BY DEF CP!Stays, phase, endpoint

LEMMA AllStay ==
    ASSUME \A c \in Clusters : CP!Stays(c)
    PROVE  UNCHANGED <<phase, endpoint>>
BY DEF CP!Stays, phase, endpoint

\* Only c's phase changes.
LEMMA PhaseBecomes ==
    ASSUME NEW c \in Clusters, CP!OthersStay(c), NEW p, phase'[c] = p
    PROVE  phase' = [phase EXCEPT ![c] = p]
<1>1. \A d \in Clusters : phase'[d] = IF d = c THEN p ELSE phase[d]
  BY StaysSame DEF CP!OthersStay
<1> QED BY <1>1 DEF phase

LEMMA NetworksIsCreateNetwork ==
    ASSUME NEW c \in Clusters, NEW v \in VLANs, CP!Networks(c, v),
           \A d \in Clusters : CP!Stays(d), UNCHANGED <<ServerSide, doomed>>
    PROVE  Lifecycle!CreateNetwork(c, v)
<1>1. phase[c] = "provisioning"
  BY PhaseValues DEF CP!Networks
<1>2. \A w \in VLANs : w \notin network[c]
  BY NetworkMembers DEF CP!Networks, CP!NoneMadeBy
<1>3. network[c] = {}
  BY <1>2, NetworkMembers
<1>4. \A d \in Clusters : v \notin network[d]
  BY NetworkMembers DEF CP!Networks
<1>5. network' = [network EXCEPT ![c] = {v}]
  <2>1. \A w \in VLANs, d \in Clusters :
          CP!MadeBy(w, d)' <=> w \in IF d = c THEN {v} ELSE network[d]
    BY <1>2, NetworkMembers DEF CP!Networks
  <2> QED BY <2>1, NetworkBecomes
<1>6. UNCHANGED <<phase, endpoint>>
  BY AllStay
<1> QED BY <1>1, <1>3, <1>4, <1>5, <1>6
        DEF Lifecycle!CreateNetwork, ServerSide, phase, network, endpoint, fleet,
            attached

LEMMA FreesIsReleaseNetwork ==
    ASSUME Life, NEW c \in Clusters, CP!Frees(c),
           \A d \in Clusters : CP!Stays(d), UNCHANGED <<ServerSide, doomed>>
    PROVE  Lifecycle!ReleaseNetwork(c)
<1>1. c \in doomed /\ \A m \in MachinesOf(c) : ~mStored[m].exists
  BY DEF Life, Order, Emptied, CP!Frees
<1>2. attached[c] = {}
  BY <1>1, EmptyCluster
<1>3. network' = [network EXCEPT ![c] = {}]
  <2>1. \A w \in VLANs, d \in Clusters :
          CP!MadeBy(w, d)' <=> w \in IF d = c THEN {} ELSE network[d]
    BY NetworkMembers DEF CP!Frees
  <2> QED BY <2>1, NetworkBecomes
<1>4. UNCHANGED <<phase, endpoint>>
  BY AllStay
<1> QED BY <1>1, <1>2, <1>3, <1>4
        DEF Lifecycle!ReleaseNetwork, ServerSide, phase, network, endpoint, fleet,
            attached

LEMMA ReadiesIsBecomeReady ==
    ASSUME NEW c \in Clusters, CP!Readies(c), CP!OthersStay(c),
           UNCHANGED <<network, ServerSide, doomed>>
    PROVE  Lifecycle!BecomeReady(c)
<1>1. phase[c] = "provisioning"
  BY PhaseValues DEF CP!Readies
<1>2. phase'[c] = "ready"
  BY DEF CP!Readies, phase
<1>3. phase' = [phase EXCEPT ![c] = "ready"]
  BY <1>2, PhaseBecomes
<1>4. UNCHANGED endpoint
  BY DEF CP!Readies, CP!OthersStay, CP!Stays, endpoint
<1> QED BY <1>1, <1>3, <1>4
        DEF Lifecycle!BecomeReady, ServerSide, phase, network, endpoint, fleet,
            attached

LEMMA DiscoversIsDiscoverEndpoint ==
    ASSUME NEW c \in Clusters, CP!Discovers(c), CP!OthersStay(c),
           UNCHANGED <<network, ServerSide, doomed>>
    PROVE  Lifecycle!DiscoverEndpoint(c)
<1>1. phase[c] = "ready"
  BY PhaseValues DEF CP!Discovers
<1>2. UNCHANGED phase
  <2>1. phase'[c] = "ready"
    BY DEF CP!Discovers, phase
  <2>2. phase' = [phase EXCEPT ![c] = "ready"]
    BY <2>1, PhaseBecomes
  <2> QED BY <1>1, <2>2 DEF phase
<1>3. c \notin endpoint /\ endpoint' = endpoint \union {c}
  BY DEF CP!Discovers, CP!OthersStay, CP!Stays, endpoint
<1> QED BY <1>1, <1>2, <1>3
        DEF Lifecycle!DiscoverEndpoint, ServerSide, phase, network, endpoint,
            fleet, attached

LEMMA VanishesIsVanish ==
    ASSUME Life, Order', NEW c \in Clusters, CP!Vanishes(c), CP!OthersStay(c),
           UNCHANGED <<mStored, network, ServerSide, doomed>>
    PROVE  Lifecycle!Vanish(c)
<1>1. c \in doomed /\ \A m \in MachinesOf(c) : ~mStored[m].exists
  BY DEF Order, Emptied, CP!Vanishes, MachinesOf
<1>2. attached[c] = {}
  BY <1>1, EmptyCluster
<1>3. phase' = [phase EXCEPT ![c] = "gone"]
  <2>1. phase'[c] = "gone"
    BY DEF CP!Vanishes, phase
  <2> QED BY <2>1, PhaseBecomes
<1>4. UNCHANGED endpoint
  BY DEF CP!Vanishes, CP!OthersStay, CP!Stays, endpoint
<1> QED BY <1>1, <1>2, <1>3, <1>4
        DEF Lifecycle!Vanish, ServerSide, phase, network, endpoint, fleet, attached

LEMMA ClusterStepAllowed ==
    ASSUME InOrder, Life, Order', CP!Next,
           UNCHANGED <<mStored, ServerSide, doomed>>
    PROVE  UNCHANGED ClusterSide \/ Lifecycle!Next
<1>1. \/ CP!SameNetworks /\ \A c \in Clusters : CP!Stays(c)
      \/ /\ \A c \in Clusters : CP!Stays(c)
         /\ \E c \in Clusters, v \in VLANs : CP!Networks(c, v)
      \/ (\A c \in Clusters : CP!Stays(c)) /\ \E c \in Clusters : CP!Frees(c)
      \/ /\ CP!SameNetworks
         /\ \E c \in Clusters :
              CP!OthersStay(c) /\ (CP!Readies(c) \/ CP!Discovers(c) \/ CP!Vanishes(c))
  BY NoOthers, Assumptions, CP!ClusterSteps DEF InOrder, Life, ClusterLife
<1>2. CASE CP!SameNetworks /\ \A c \in Clusters : CP!Stays(c)
  BY <1>2, NetworksStay, AllStay DEF ClusterSide
<1>3. ASSUME \A c \in Clusters : CP!Stays(c),
             NEW c \in Clusters, NEW v \in VLANs, CP!Networks(c, v)
      PROVE  Lifecycle!Next
  BY <1>3, NetworksIsCreateNetwork DEF Lifecycle!Next
<1>4. ASSUME \A c \in Clusters : CP!Stays(c), NEW c \in Clusters, CP!Frees(c)
      PROVE  Lifecycle!Next
  BY <1>4, FreesIsReleaseNetwork DEF Lifecycle!Next
<1>5. ASSUME CP!SameNetworks, NEW c \in Clusters, CP!OthersStay(c),
             CP!Readies(c) \/ CP!Discovers(c) \/ CP!Vanishes(c)
      PROVE  Lifecycle!Next
  <2>1. UNCHANGED network
    BY <1>5, NetworksStay
  <2> QED BY <1>5, <2>1, ReadiesIsBecomeReady, DiscoversIsDiscoverEndpoint,
             VanishesIsVanish DEF Lifecycle!Next
<1> QED BY <1>1, <1>2, <1>3, <1>4, <1>5

(***************************************************************************)
(* The refinement.                                                         *)
(***************************************************************************)

LEMMA InitLifecycle == Init => Lifecycle!Init
<1> SUFFICES ASSUME Init
             PROVE  Lifecycle!Init
  OBVIOUS
<1>1. \A c \in Clusters :
        /\ cStored[c].exists /\ ~cStored[c].status.ready
        /\ cStored[c].status.endpoint = None
  BY StartsAsComponents DEF CP!ControllerInit, CP!NewCluster
<1>2. phase = [c \in Clusters |-> "provisioning"] /\ endpoint = {}
  BY <1>1 DEF phase, endpoint
<1>3. network = [c \in Clusters |-> {}]
  BY StartsAsComponents, Assumptions
     DEF network, CP!ControllerInit, CP!ClusterAssumption
<1>4. \A s \in Servers : ~MP!Live(s)
  BY StartsAsComponents DEF MP!ControllerInit, MP!Live
<1>5. fleet = [c \in Clusters |-> {}]
  BY <1>4 DEF fleet, ServersOf, M!Live, MP!Live
<1>6. attached = [c \in Clusters |-> {}]
  BY <1>5 DEF fleet, attached
<1> QED BY <1>2, <1>3, <1>5, <1>6
        DEF Lifecycle!Init, Init, phase, network, endpoint, fleet, attached

LEMMA StutterAllowed ==
    UNCHANGED <<ClusterSide, ServerSide, doomed>> =>
        [Lifecycle!Next]_(Lifecycle!vars)
BY DEF Lifecycle!vars, ClusterSide, ServerSide, phase, network, endpoint, fleet,
       attached

LEMMA NextLifecycle ==
    ASSUME InOrder, Life, Order', [Next]_vars
    PROVE  [Lifecycle!Next]_(Lifecycle!vars)
<1>1. CASE MachineMoves /\ UNCHANGED <<clusterVars, doomed>>
  <2>1. MP!NextCases /\ UNCHANGED <<ClusterSide, doomed>>
    BY <1>1, Assumptions, MachineMovesAre, MP!NextIsOneOf, ClusterUnmoved
       DEF clusterVars
  <2> QED BY <2>1, MachineStepAllowed, StutterAllowed
<1>2. CASE ClusterMoves /\ UNCHANGED <<machineVars, doomed>>
  <2>1. CP!Next /\ UNCHANGED <<mStored, ServerSide, doomed>>
    BY <1>2, ClusterMovesAre, ServersUnmoved DEF machineVars
  <2> QED BY <2>1, ClusterStepAllowed, StutterAllowed
<1>3. CASE CrashRestart
  <2>1. UNCHANGED <<servers, cStored, vlans, doomed>>
    BY <1>3, ManagerStops
       DEF CrashRestart, MP!CrashRestart, MP!cloud, CP!CrashRestart
  <2> QED BY <2>1, ClusterUnmoved, ServersUnmoved, StutterAllowed
<1>4. ASSUME NEW m \in Machines, PublishBootstrap(m)
      PROVE  [Lifecycle!Next]_(Lifecycle!vars)
  BY <1>4, ClusterUnmoved, ServersUnmoved, StutterAllowed
     DEF PublishBootstrap, clusterVars
<1>5. ASSUME NEW c \in Clusters, DeleteCluster(c)
      PROVE  Lifecycle!Next
  <2>1. UNCHANGED <<ClusterSide, ServerSide>> /\ doomed' = doomed \union {c}
    BY <1>5, ClusterUnmoved, ServersUnmoved
       DEF DeleteCluster, machineVars, clusterVars
  <2>2. Lifecycle!Leave(c)
    BY <2>1 DEF Lifecycle!Leave, ClusterSide, ServerSide, phase, network, endpoint,
                fleet, attached
  <2> QED BY <2>2 DEF Lifecycle!Next
<1>6. CASE UNCHANGED vars
  BY <1>6, ClusterUnmoved, ServersUnmoved, StutterAllowed
     DEF vars, machineVars, clusterVars
<1> QED BY <1>1, <1>2, <1>3, <1>4, <1>5, <1>6, StepCases

\* The two controllers, with cluster-api between them, implement
\* ClusterLifecycle: a network is created for a cluster that is not ready and has
\* none, servers are started and attached for ready clusters only, the endpoint
\* is found once, while the cluster is ready, and the network and the cluster go
\* on the cluster's deletion, when no server of it is attached any more.  On the
\* way requests to Latitude.sh may fail and replies be lost, patches of a
\* LatitudeCluster be refused, servers be removed by others and the manager be
\* restarted.  Each event that InOrder leaves out breaks it.
THEOREM LifecycleIsKept ==
    ASSUME InOrder
    PROVE  Spec => KeepsLifecycle
<1>1. Life /\ [Next]_vars => Life'
  BY NextLife
<1>2. Life /\ Life' /\ [Next]_vars => [Lifecycle!Next]_(Lifecycle!vars)
  BY NextLifecycle DEF Life
<1> QED BY <1>1, <1>2, InitLife, InitLifecycle, PTL
        DEF Spec, KeepsLifecycle, Lifecycle!Spec
=============================================================================
