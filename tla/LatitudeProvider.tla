--------------------------- MODULE LatitudeProvider ---------------------------
(***************************************************************************)
(* The provider: both controllers in one manager, on one API server and    *)
(* one Latitude.sh, with cluster-api above them.                           *)
(*                                                                         *)
(* What each controller reads of the other's objects, its environment in   *)
(* LatitudeMachine and LatitudeCluster, is here what the other one wrote:  *)
(* infra is made of the LatitudeClusters, present and up of the control    *)
(* plane's LatitudeMachines.  cluster-api publishes bootstrap data once a  *)
(* cluster's infrastructure is ready and tears a deleted Cluster down:     *)
(* its machines first, the LatitudeCluster when they are gone.             *)
(*                                                                         *)
(* Each step is a step of one controller, of a crash of both, or of        *)
(* cluster-api.  A step of a controller leaves the other's variables       *)
(* unchanged, which is said first so that the other's next state is known  *)
(* when the functions of it are.                                           *)
(***************************************************************************)
EXTENDS Naturals, FiniteSets

CONSTANTS
    Machines, ControlPlanes, Clusters, ClusterOf, NamespaceOf, DescriptionOf,
    Servers, UserData, VLANs, Foreign, None,
    MachineEvents,  \* LatitudeMachine's Events
    ClusterEvents   \* LatitudeCluster's Events

VARIABLES
    mStored, mCached, mQueue, mPc, mKey, mBefore, mObj, mThen, mAgain,
    servers, userData, bootstrap, refused,
    cStored, cCached, cQueue, cPc, cKey, cBefore, cObj, cAgain, vlans,
    doomed  \* the Clusters whose deletion was requested

machineVars == <<mStored, mCached, mQueue, mPc, mKey, mBefore, mObj, mThen,
                 mAgain, servers, userData, bootstrap, refused>>
clusterVars == <<cStored, cCached, cQueue, cPc, cKey, cBefore, cObj, cAgain,
                 vlans>>
vars == <<machineVars, clusterVars, doomed>>

\* What a LatitudeCluster says to the machine controller.
Infra(c) ==
    [spec |-> CASE ~c.exists -> "absent"
                [] c.exists /\ ~c.valid -> "incomplete"
                [] OTHER -> "complete",
     vlan |-> CASE ~c.config.configured -> "unset"
                [] c.config.configured /\ c.status.vlanVID = None -> "pending"
                [] OTHER -> "up"]

\* The control plane machines that exist, and those setupControlPlaneEndpoint
\* finds ready and with an address.
Present == {m \in ControlPlanes : mStored[m].exists}
Up == {m \in Present : mStored[m].status.ready /\ mStored[m].status.address}

M == INSTANCE LatitudeMachine WITH
    Events <- MachineEvents,
    stored <- mStored, cached <- mCached, queue <- mQueue, pc <- mPc,
    key <- mKey, before <- mBefore, obj <- mObj, then <- mThen,
    again <- mAgain, infra <- [c \in Clusters |-> Infra(cStored[c])]

C == INSTANCE LatitudeCluster WITH
    Events <- ClusterEvents,
    Hosts <- ControlPlanes, HostOf <- [m \in ControlPlanes |-> ClusterOf[m]],
    stored <- cStored, cached <- cCached, queue <- cQueue, pc <- cPc,
    key <- cKey, before <- cBefore, obj <- cObj, again <- cAgain,
    present <- Present, up <- Up

\* The two share the manager and so its crashes.  When a cluster is completed and
\* has its VLAN is the other controller's to say.  Pausing, late owners, edits and
\* removals of VLANs, replies without a VID, and reads of a LatitudeCluster that
\* are out of date, are left to the two components.
ASSUME ProviderAssumption ==
    /\ MachineEvents \intersect {"lateCluster", "vlan", "pause", "lateOwner"} = {}
    /\ ClusterEvents \intersect {"staleCache", "edit", "externalDelete",
                                 "hostGone", "lateOwner", "noVID"} = {}
    /\ "crash" \in MachineEvents <=> "crash" \in ClusterEvents

\* What each component assumes of its constants, the other's being here.
ASSUME ComponentAssumptions == M!MachineAssumption /\ C!ClusterAssumption

Init ==
    /\ C!ControllerInit
    /\ M!ControllerInit
    /\ doomed = {}
-----------------------------------------------------------------------------
\* The machine controller, and what happens to its objects.

MachineReads(m) ==
    /\ UNCHANGED <<clusterVars, doomed>>
    /\ M!ReconcileGone(m) \/ M!Reconcile(m)

MachineCacheSync(m) == UNCHANGED <<clusterVars, doomed>> /\ M!CacheSync(m)

MachineContinues == UNCHANGED <<clusterVars, doomed>> /\ M!Continue

MachineDeleted(m) == UNCHANGED <<clusterVars, doomed>> /\ M!DeleteMachine(m)

ServerPowersOn ==
    /\ UNCHANGED <<clusterVars, doomed>>
    /\ \E s \in Servers : M!PowerOn(s)

ServerRemoved ==
    /\ UNCHANGED <<clusterVars, doomed>>
    /\ \E s \in Servers : M!RemoveExternally(s)
-----------------------------------------------------------------------------
\* The cluster controller, and what happens to its objects.

ClusterReads(c) ==
    /\ UNCHANGED <<machineVars, doomed>>
    /\ C!ReconcileGone(c) \/ C!Reconcile(c)

ClusterCacheSync(c) == UNCHANGED <<machineVars, doomed>> /\ C!CacheSync(c)

ClusterContinues == UNCHANGED <<machineVars, doomed>> /\ C!Continue

SpecCompleted(c) == UNCHANGED <<machineVars, doomed>> /\ C!CompleteSpec(c)
-----------------------------------------------------------------------------
\* Both, and cluster-api.

CrashRestart ==
    /\ UNCHANGED <<mStored, cStored, doomed>>
    /\ M!CrashRestart
    /\ C!CrashRestart

\* The bootstrap provider waits for Cluster.Status.InfrastructureReady, which is
\* the LatitudeCluster's status.ready.
PublishBootstrap(m) ==
    /\ m \notin bootstrap
    /\ mStored[m].exists
    /\ cStored[ClusterOf[m]].status.ready
    /\ bootstrap' = bootstrap \union {m}
    /\ UNCHANGED <<mStored, mCached, mQueue, mPc, mKey, mBefore, mObj, mThen,
                   mAgain, servers, userData, refused, clusterVars, doomed>>

\* Somebody deletes the Cluster.
DeleteCluster(c) ==
    /\ "delete" \in ClusterEvents
    /\ c \notin doomed
    /\ doomed' = doomed \union {c}
    /\ UNCHANGED <<machineVars, clusterVars>>

MachinesOf(c) == {m \in Machines : ClusterOf[m] = c}

TearDownMachine(m) == ClusterOf[m] \in doomed /\ MachineDeleted(m)

TearDownCluster(c) ==
    /\ c \in doomed
    /\ \A m \in MachinesOf(c) : ~mStored[m].exists
    /\ UNCHANGED <<machineVars, doomed>>
    /\ C!DeleteCluster(c)
-----------------------------------------------------------------------------
Next ==
    \/ \E m \in Machines : \/ MachineReads(m)
                           \/ MachineCacheSync(m)
                           \/ MachineDeleted(m)
                           \/ PublishBootstrap(m)
    \/ \E c \in Clusters : \/ ClusterReads(c)
                           \/ ClusterCacheSync(c)
                           \/ SpecCompleted(c)
                           \/ DeleteCluster(c)
                           \/ TearDownCluster(c)
    \/ MachineContinues
    \/ ClusterContinues
    \/ ServerPowersOn
    \/ ServerRemoved
    \/ CrashRestart

Spec == Init /\ [][Next]_vars

(***************************************************************************)
(* Fairness, as in the two components: a started reconciliation goes on,   *)
(* keys come out of the queues, caches catch up, and the requests that are *)
(* retried succeed once in a while.  cluster-api and the user do what they *)
(* have begun, and Latitude.sh powers servers on.                          *)
(***************************************************************************)
Fairness ==
    /\ WF_vars(MachineContinues)
    /\ WF_vars(ClusterContinues)
    /\ SF_vars(ClusterContinues /\ C!LocationFound)
    /\ SF_vars(ClusterContinues /\ C!UseExistingVLAN /\ cPc' = "reconciled")
    /\ SF_vars(ClusterContinues /\ \E v \in VLANs : C!AdoptVLAN(v) \/ C!CreateVLAN(v))
    /\ SF_vars(ClusterContinues /\ \E m \in ControlPlanes : C!SetEndpoint(m))
    /\ \A m \in Machines : /\ SF_vars(MachineReads(m))
                          /\ WF_vars(MachineCacheSync(m))
                          /\ WF_vars(PublishBootstrap(m))
                          /\ WF_vars(TearDownMachine(m))
    /\ \A c \in Clusters : /\ SF_vars(ClusterReads(c))
                          /\ WF_vars(ClusterCacheSync(c))
                          /\ WF_vars(SpecCompleted(c))
                          /\ WF_vars(TearDownCluster(c))
    /\ WF_vars(ServerPowersOn)

FairSpec == Spec /\ Fairness
-----------------------------------------------------------------------------
ServersOf(c) ==
    {s \in Servers : M!Live(s) /\ servers[s].owner \in MachinesOf(c)}

\* A ready machine's provider ID names its server, as in LatitudeMachine, with
\* clusters that become ready while the machines wait for them.
ReadyHasProviderID == M!ReadyHasProviderID

\* A ready machine of a cluster with a VLANConfig is in the cluster's VLAN, which
\* is live, and its server boots user data that says so: the cluster is ready
\* only with its VLAN recorded, bootstrap data is published only then, and the
\* VLAN outlives the machines.
ReadyRunsOnVLAN ==
    \A m \in Machines :
        LET c == cStored[ClusterOf[m]]
            s == servers[mStored[m].status.serverID]
        IN  /\ mStored[m].exists
            /\ mStored[m].status.ready
            /\ c.config.configured
            => /\ s.vlan
               /\ s.userData # None
               /\ userData[s.userData].vlan
               /\ vlans[c.status.vlanID].st = "live"

\* Every cluster gets its endpoint, unless it is deleted or has no control plane
\* machine left that could give it one: a machine that has failed for good, is
\* being deleted, or became ready without an address and is never read again.
EndpointDiscovered ==
    \A c \in Clusters :
        <>(\/ cStored[c].status.endpoint # None
           \/ c \in doomed
           \/ \A m \in MachinesOf(c) \intersect ControlPlanes :
                \/ mStored[m].deleting
                \/ mStored[m].status.failed
                \/ mStored[m].status.ready /\ ~mStored[m].status.address)

\* A cluster that was deleted goes, and by then no server of it is left.
TornDown ==
    \A c \in Clusters :
        c \in doomed ~> ~cStored[c].exists /\ ServersOf(c) = {}

\* The order of a cluster's life, as seen through both controllers.
Lifecycle == INSTANCE ClusterLifecycle WITH
    phase <- [c \in Clusters |->
                CASE ~cStored[c].exists -> "gone"
                  [] cStored[c].exists /\ cStored[c].status.ready -> "ready"
                  [] OTHER -> "provisioning"],
    leaving <- doomed,
    network <- [c \in Clusters |->
                  {v \in VLANs : vlans[v].st = "live" /\ vlans[v].creator = c}],
    fleet <- [c \in Clusters |-> ServersOf(c)],
    attached <- [c \in Clusters |-> {s \in ServersOf(c) : servers[s].vlan}],
    endpoint <- {c \in Clusters : cStored[c].status.endpoint # None}

\* The two controllers keep the order, whatever fails at Latitude.sh's VLANs.
KeepsLifecycle == Lifecycle!Spec
=============================================================================
