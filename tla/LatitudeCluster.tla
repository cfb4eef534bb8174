--------------------------- MODULE LatitudeCluster ---------------------------
(***************************************************************************)
(* The LatitudeCluster controller: validates the cluster, finds or creates *)
(* its VLAN, declares the infrastructure ready, discovers the endpoint of  *)
(* the control plane from its machines and, in the end, deletes the VLAN.  *)
(*                                                                         *)
(* It is modelled as LatitudeMachine is: stored and cached are the API     *)
(* server's and the informer's copies, one worker takes keys from queue,   *)
(* and every remote call is an action.  A VLAN's tag (its VID) is          *)
(* represented by the VLAN's ID, or by 0 where a reply had none.           *)
(***************************************************************************)
EXTENDS PatchHelper

CONSTANTS
    Clusters,
    DescriptionOf,  \* "capl-<name>-<subnet>" of each cluster
    VLANs,          \* the VLAN IDs Latitude.sh can hand out (the bound)
    Foreign,        \* those of VLANs that somebody else has made
    Hosts,          \* the control plane machines
    HostOf,         \* the cluster of each of them
    None,
    Events          \* what a model lets happen, a subset of EventKinds

EventKinds == {
    "staleCache",      \* a reconciliation reads before the watch caught up
    "crash",           \* the manager stops and starts again
    "patchError",      \* the API server refuses a patch
    "apiError",        \* a Latitude.sh request fails, listing VLANs excepted
    "listError",       \* listing VLANs fails, or leaves out the one wanted
    "noVID",           \* a reply about a VLAN does not have its VID
    "lostReply",       \* a VLAN is created or deleted, the reply is lost
    "externalDelete",  \* a VLAN is removed by somebody else
    "hostGone",        \* a control plane machine is replaced
    "delete",          \* a LatitudeCluster is deleted
    "edit",            \* the VLANConfig is edited after the creation
    "invalid",         \* the project or the location is given later
    "lateOwner" }      \* the owner reference is set after the creation

ASSUME ClusterAssumption ==
    /\ Foreign \subseteq VLANs
    /\ HostOf \in [Hosts -> Clusters]
    /\ None \notin Clusters \union VLANs \union Hosts \union {0}
    /\ 0 \notin VLANs
    /\ Events \subseteq EventKinds

VARIABLES
    stored, cached,  \* the objects at the API server and in the cache
    queue,           \* the work queue, RequeueAfter and back-off included
    pc, key,         \* where the worker is and the cluster it works on
    before, obj,     \* the object as read and as edited
    again,           \* whether the result asks for another reconciliation
    vlans,           \* Latitude.sh's VLANs
    present, up      \* the control plane machines that exist, that are ready
                     \* and have an address

api == <<stored, cached>>
worker == <<pc, key, before, obj, again>>
hosts == <<present, up>>
vars == <<api, queue, worker, vlans, hosts>>
-----------------------------------------------------------------------------
Conditions == {"none", "InvalidClusterConfig", "ClusterProvisionFailed",
               "ClusterReady", "ControlPlaneEndpointSet"}

Status == [ready : BOOLEAN, endpoint : Hosts \union {None},
           vlanID : VLANs \union {None}, vlanVID : VLANs \union {None, 0},
           condition : Conditions]

\* configured: there is a VLANConfig; existing: its ExistingVLANID.
Config == {c \in [configured : BOOLEAN, existing : Foreign \union {None}] :
             ~c.configured => c.existing = None}

Object == [exists : BOOLEAN, deleting : BOOLEAN, owned : BOOLEAN,
           finalizer : BOOLEAN, valid : BOOLEAN, config : Config,
           status : Status]

NewCluster(config) ==
    [exists |-> TRUE, deleting |-> FALSE, owned |-> "lateOwner" \notin Events,
     finalizer |-> FALSE, valid |-> "invalid" \notin Events, config |-> config,
     status |-> [ready |-> FALSE, endpoint |-> None, vlanID |-> None,
                 vlanVID |-> None, condition |-> "none"]]

Nothing == NewCluster([configured |-> FALSE, existing |-> None])

VLAN == [st : {"unused", "live", "deleted"}, creator : Clusters \union {None}]

PCs == {"idle", "reconcileNormal", "reconcileVLAN", "createVLAN", "reconciled",
        "reconcileDelete", "patchObject", "patchStatus"}

TypeOK ==
    /\ stored \in [Clusters -> Object]
    /\ cached \in [Clusters -> Object]
    /\ queue \subseteq Clusters
    /\ pc \in PCs
    /\ key \in Clusters \union {None}
    /\ (pc = "idle") <=> (key = None)
    /\ before \in Object
    /\ obj \in Object
    /\ again \in BOOLEAN
    /\ vlans \in [VLANs -> VLAN]
    /\ present \subseteq Hosts
    /\ up \subseteq present

\* The controller starts, nothing has happened at Latitude.sh.
ControllerInit ==
    /\ stored \in [Clusters -> {NewCluster(c) : c \in Config}]
    /\ cached = stored
    /\ queue = Clusters
    /\ pc = "idle"
    /\ key = None
    /\ before = Nothing
    /\ obj = Nothing
    /\ again = FALSE
    /\ vlans = [v \in VLANs |->
         [st |-> IF v \in Foreign THEN "live" ELSE "unused", creator |-> None]]

Init ==
    /\ ControllerInit
    /\ present = {}
    /\ up = {}
-----------------------------------------------------------------------------
\* The steps every handler is made of.

\* The handler returns with the object edited to o; the deferred patch runs.
Return(o, requeue) ==
    /\ obj' = o
    /\ again' = requeue
    /\ pc' = "patchObject"
    /\ UNCHANGED <<key, before>>

\* The handler goes on at next with the object edited to o.
GoOn(o, next) ==
    /\ obj' = o
    /\ pc' = next
    /\ UNCHANGED <<key, before, again>>

\* Variant of Rest: the worker does not let go of its key.
RestKeepsKey ==
    /\ pc' = "idle"
    /\ before' = Nothing
    /\ obj' = Nothing
    /\ again' = FALSE
    /\ UNCHANGED key

\* The worker is done; what its variables hold is of no account.
Rest ==
    /\ pc' = "idle"
    /\ key' = None
    /\ before' = Nothing
    /\ obj' = Nothing
    /\ again' = FALSE

\* setCondition: ClusterReady with the given reason.
SetCondition(o, reason) == [o EXCEPT !.status.condition = reason]

\* Variants of InfrastructureFails: the error is only logged; no requeue.
LogInfrastructureError(o) == GoOn(o, "reconciled")
GiveUpInfrastructure(o) == Return(SetCondition(o, "ClusterProvisionFailed"), FALSE)

\* reconcileInfrastructure has returned an error.
InfrastructureFails(o) == Return(SetCondition(o, "ClusterProvisionFailed"), TRUE)
-----------------------------------------------------------------------------
\* Reconcile.

ReconcileGone(c) ==
    /\ pc = "idle"
    /\ c \in queue
    /\ ~cached[c].exists
    /\ queue' = queue \ {c}
    /\ UNCHANGED <<api, worker, vlans, hosts>>

\* Without an owner the key is requeued before there is a patch helper.
Reconcile(c) ==
    /\ pc = "idle"
    /\ c \in queue
    /\ cached[c].exists
    /\ "staleCache" \in Events \/ cached[c] = stored[c]
    /\ cached[c].owned
    /\ queue' = queue \ {c}
    /\ key' = c
    /\ before' = cached[c]
    /\ obj' = cached[c]
    /\ again' = FALSE
    /\ pc' = IF cached[c].deleting THEN "reconcileDelete" ELSE "reconcileNormal"
    /\ UNCHANGED <<api, vlans, hosts>>
-----------------------------------------------------------------------------
\* reconcileNormal.

AddFinalizer ==
    /\ pc = "reconcileNormal"
    /\ ~obj.finalizer
    /\ Return([obj EXCEPT !.finalizer = TRUE], FALSE)
    /\ UNCHANGED <<api, queue, vlans, hosts>>

\* validateClusterSpec finds no project or no location.
RejectSpec ==
    /\ pc = "reconcileNormal"
    /\ obj.finalizer
    /\ ~obj.valid
    /\ Return(SetCondition(obj, "InvalidClusterConfig"), FALSE)
    /\ UNCHANGED <<api, queue, vlans, hosts>>

\* GetAvailableRegions has the location.
LocationFound ==
    /\ pc = "reconcileNormal"
    /\ obj.finalizer
    /\ obj.valid
    /\ GoOn(obj, "reconcileVLAN")
    /\ UNCHANGED <<api, queue, vlans, hosts>>

LocationNotFound ==
    /\ "apiError" \in Events
    /\ pc = "reconcileNormal"
    /\ obj.finalizer
    /\ obj.valid
    /\ InfrastructureFails(obj)
    /\ UNCHANGED <<api, queue, vlans, hosts>>
-----------------------------------------------------------------------------
\* reconcileVLAN.

AtVLAN == pc = "reconcileVLAN"

NoVLAN ==
    /\ AtVLAN
    /\ ~obj.config.configured
    /\ GoOn(obj, "reconciled")
    /\ UNCHANGED <<api, queue, vlans, hosts>>

\* Variant of RecordVLAN: a VID that is already recorded is kept.
RecordVLANOnce(o, v, vid) ==
    [o EXCEPT !.status.vlanID = v,
              !.status.vlanVID = IF @ = None THEN vid ELSE @]

RecordVLAN(o, v, vid) ==
    [o EXCEPT !.status.vlanID = v, !.status.vlanVID = vid]

\* What a reply about v says of its VID: a missing one is read as 0.
VIDs(v) == {v} \union (IF "noVID" \in Events THEN {0} ELSE {})

\* The existing VLAN is taken without a request when a VID is recorded.
UseExistingVLAN ==
    /\ AtVLAN
    /\ obj.config.existing # None
    /\ LET v == obj.config.existing
           o == [obj EXCEPT !.status.vlanID = v]
       IN  \/ obj.status.vlanVID # None /\ GoOn(o, "reconciled")
           \/ /\ obj.status.vlanVID = None
              /\ vlans[v].st = "live"
              /\ \E vid \in VIDs(v) : GoOn(RecordVLAN(obj, v, vid), "reconciled")
           \/ /\ obj.status.vlanVID = None
              /\ "apiError" \in Events \/ vlans[v].st # "live"
              /\ InfrastructureFails(o)
    /\ UNCHANGED <<api, queue, vlans, hosts>>

OwnVLAN == AtVLAN /\ obj.config.configured /\ obj.config.existing = None

RecordedVLANLives ==
    obj.status.vlanID # None /\ vlans[obj.status.vlanID].st = "live"

\* GetVLAN finds the recorded VLAN.
VLANFound ==
    /\ OwnVLAN
    /\ RecordedVLANLives
    /\ \E vid \in VIDs(obj.status.vlanID) :
         GoOn([obj EXCEPT !.status.vlanVID = IF @ = None THEN vid ELSE @],
              "reconciled")
    /\ UNCHANGED <<api, queue, vlans, hosts>>

\* There is no recorded VLAN, or GetVLAN fails, whatever the error.
VLANWanted ==
    /\ OwnVLAN
    /\ "apiError" \in Events \/ ~RecordedVLANLives
    /\ GoOn(obj, "createVLAN")
    /\ UNCHANGED <<api, queue, vlans, hosts>>

\* The live VLANs with the description of c.
VLANsFor(c) ==
    {v \in VLANs : /\ vlans[v].st = "live"
                   /\ vlans[v].creator # None
                   /\ DescriptionOf[vlans[v].creator] = DescriptionOf[c]}

\* CreateVLAN lists the VLANs first and returns one with the same description.
AdoptVLAN(v) ==
    /\ pc = "createVLAN"
    /\ v \in VLANsFor(key)
    /\ \E vid \in VIDs(v) : GoOn(RecordVLAN(obj, v, vid), "reconciled")
    /\ UNCHANGED <<api, queue, vlans, hosts>>

\* Variant of NoneListed: the list is not consulted.
NeverListed == TRUE

NoneListed == VLANsFor(key) = {} \/ "listError" \in Events

StoreVLAN(v) ==
    /\ pc = "createVLAN"
    /\ NoneListed
    /\ vlans[v].st = "unused"
    /\ vlans' = [vlans EXCEPT ![v] = [st |-> "live", creator |-> key]]

CreateVLAN(v) ==
    /\ StoreVLAN(v)
    /\ \E vid \in VIDs(v) : GoOn(RecordVLAN(obj, v, vid), "reconciled")
    /\ UNCHANGED <<api, queue, hosts>>

CreateVLANReplyLost(v) ==
    /\ "lostReply" \in Events
    /\ StoreVLAN(v)
    /\ InfrastructureFails(obj)
    /\ UNCHANGED <<api, queue, hosts>>

\* Latitude.sh fails, or has no VLAN left to give.
CreateVLANFails ==
    /\ pc = "createVLAN"
    /\ NoneListed
    /\ "apiError" \in Events \/ \A v \in VLANs : vlans[v].st # "unused"
    /\ InfrastructureFails(obj)
    /\ UNCHANGED <<api, queue, vlans, hosts>>
-----------------------------------------------------------------------------
\* The infrastructure is reconciled: readiness first, then the endpoint.

MarkReady ==
    /\ pc = "reconciled"
    /\ ~obj.status.ready
    /\ Return(SetCondition([obj EXCEPT !.status.ready = TRUE], "ClusterReady"),
              FALSE)
    /\ UNCHANGED <<api, queue, vlans, hosts>>

\* Variant of Discovering: an endpoint that is set does not end the search.
DiscoveringAgain == pc = "reconciled" /\ obj.status.ready

Discovering ==
    pc = "reconciled" /\ obj.status.ready /\ obj.status.endpoint = None

KeepEndpoint ==
    /\ pc = "reconciled"
    /\ obj.status.ready
    /\ obj.status.endpoint # None
    /\ Return(obj, FALSE)
    /\ UNCHANGED <<api, queue, vlans, hosts>>

HostsOf(c) == {h \in present : HostOf[h] = c}

\* The first control plane machine of the list, in the order of the list,
\* is ready and has an address.
SetEndpoint(h) ==
    /\ Discovering
    /\ h \in HostsOf(key)
    /\ h \in up
    /\ Return(SetCondition([obj EXCEPT !.status.endpoint = h],
                           "ControlPlaneEndpointSet"), FALSE)
    /\ UNCHANGED <<api, queue, vlans, hosts>>

\* There is none, or the first one is not ready or has no address.
WaitForHost ==
    /\ Discovering
    /\ HostsOf(key) \subseteq up => HostsOf(key) = {}
    /\ Return(obj, TRUE)
    /\ UNCHANGED <<api, queue, vlans, hosts>>
-----------------------------------------------------------------------------
\* reconcileDelete.

\* Variant of OwnsVLAN: only a cluster whose condition is Ready is cleaned up.
OwnsReadyVLAN ==
    /\ obj.status.vlanID # None
    /\ obj.config.existing = None
    /\ obj.status.condition = "ClusterReady"

\* Variant of OwnsVLAN: cleanupVLAN without the test for an existing VLAN.
OwnsRecordedVLAN == obj.status.vlanID # None

OwnsVLAN == obj.status.vlanID # None /\ obj.config.existing = None

DeletionDone == Return([obj EXCEPT !.finalizer = FALSE], FALSE)

SkipCleanup ==
    /\ pc = "reconcileDelete"
    /\ ~OwnsVLAN
    /\ DeletionDone
    /\ UNCHANGED <<api, queue, vlans, hosts>>

\* Variant of CleanupVLAN: not found is an error, and an error is retried.
CleanupVLANStrictly ==
    /\ pc = "reconcileDelete"
    /\ OwnsVLAN
    /\ \/ /\ vlans[obj.status.vlanID].st = "live"
          /\ vlans' = [vlans EXCEPT ![obj.status.vlanID].st = "deleted"]
          /\ DeletionDone
       \/ /\ "apiError" \in Events \/ vlans[obj.status.vlanID].st # "live"
          /\ Return(obj, TRUE)
          /\ UNCHANGED vlans
    /\ UNCHANGED <<api, queue, hosts>>

\* DeleteVLAN; a VLAN that is not found counts as deleted.  A lost reply is an
\* error to cleanupVLAN, and like every other error is only logged.
CleanupVLAN ==
    /\ pc = "reconcileDelete"
    /\ OwnsVLAN
    /\ \/ vlans' = [vlans EXCEPT ![obj.status.vlanID].st = "deleted"]
       \/ "apiError" \in Events /\ UNCHANGED vlans
    /\ DeletionDone
    /\ UNCHANGED <<api, queue, hosts>>
-----------------------------------------------------------------------------
\* patchHelper.Patch: the object first, then its status.

SpecChanged == obj.finalizer # before.finalizer

\* An object that is being deleted goes when its last finalizer does.
MergeSpec(b, a, c) ==
    LET finalizer == Merged(b.finalizer, a.finalizer, c.finalizer)
    IN  [c EXCEPT !.finalizer = finalizer,
                  !.exists = c.exists /\ (c.deleting => finalizer)]

PatchObject ==
    /\ pc = "patchObject"
    /\ SpecChanged
    /\ stored[key].exists
    /\ stored' = [stored EXCEPT ![key] = MergeSpec(before, obj, @)]
    /\ GoOn(obj, "patchStatus")
    /\ UNCHANGED <<cached, queue, vlans, hosts>>

SkipPatchObject ==
    /\ pc = "patchObject"
    /\ ~SpecChanged
    /\ GoOn(obj, "patchStatus")
    /\ UNCHANGED <<api, queue, vlans, hosts>>

PatchObjectFails ==
    /\ pc = "patchObject"
    /\ SpecChanged
    /\ "patchError" \in Events \/ ~stored[key].exists
    /\ again' = TRUE
    /\ pc' = "patchStatus"
    /\ UNCHANGED <<key, before, obj>>
    /\ UNCHANGED <<api, queue, vlans, hosts>>

StatusChanged == obj.status # before.status

MergeStatus(b, a, c) ==
    [ready |-> Merged(b.ready, a.ready, c.ready),
     endpoint |-> Merged(b.endpoint, a.endpoint, c.endpoint),
     vlanID |-> Merged(b.vlanID, a.vlanID, c.vlanID),
     vlanVID |-> Merged(b.vlanVID, a.vlanVID, c.vlanVID),
     condition |-> Merged(b.condition, a.condition, c.condition)]

\* Variant of Finish: a failed patch is only logged.
FinishLoggingErrors(failed) ==
    /\ Rest
    /\ queue' = IF again THEN queue \union {key} ELSE queue

\* The reconciliation ends.
Finish(failed) ==
    /\ Rest
    /\ queue' = IF again \/ failed THEN queue \union {key} ELSE queue

PatchStatus ==
    /\ pc = "patchStatus"
    /\ StatusChanged
    /\ stored[key].exists
    /\ stored' = [stored EXCEPT ![key].status =
                    MergeStatus(before.status, obj.status, @)]
    /\ Finish(FALSE)
    /\ UNCHANGED <<cached, vlans, hosts>>

SkipPatchStatus ==
    /\ pc = "patchStatus"
    /\ ~StatusChanged
    /\ Finish(FALSE)
    /\ UNCHANGED <<api, vlans, hosts>>

\* Not found is no error for an object whose last finalizer was removed.
PatchStatusFails ==
    /\ pc = "patchStatus"
    /\ StatusChanged
    /\ \/ "patchError" \in Events /\ Finish(TRUE)
       \/ ~stored[key].exists /\ Finish(~obj.deleting \/ obj.finalizer)
    /\ UNCHANGED <<api, vlans, hosts>>
-----------------------------------------------------------------------------
\* The watch, the manager, and everybody else.

CacheSync(c) ==
    /\ cached[c] # stored[c]
    /\ cached' = [cached EXCEPT ![c] = stored[c]]
    /\ queue' = queue \union {c}
    /\ UNCHANGED <<stored, worker, vlans, hosts>>

CrashRestart ==
    /\ "crash" \in Events
    /\ cached' = stored
    /\ queue' = {c \in Clusters : stored[c].exists}
    /\ Rest
    /\ UNCHANGED <<stored, vlans, hosts>>

EditCluster(c, edited) ==
    /\ stored[c].exists
    /\ stored' = [stored EXCEPT ![c] = edited]
    /\ UNCHANGED <<cached, queue, worker, vlans, hosts>>

DeleteCluster(c) ==
    /\ "delete" \in Events
    /\ ~stored[c].deleting
    /\ EditCluster(c, [stored[c] EXCEPT !.deleting = TRUE,
                                        !.exists = stored[c].finalizer])

SetOwner(c) ==
    /\ ~stored[c].owned
    /\ EditCluster(c, [stored[c] EXCEPT !.owned = TRUE])

CompleteSpec(c) ==
    /\ ~stored[c].valid
    /\ EditCluster(c, [stored[c] EXCEPT !.valid = TRUE])

EditVLANConfig(c) ==
    /\ "edit" \in Events
    /\ \E config \in Config \ {stored[c].config} :
         EditCluster(c, [stored[c] EXCEPT !.config = config])

RemoveExternally(v) ==
    /\ "externalDelete" \in Events
    /\ vlans[v].st = "live"
    /\ vlans' = [vlans EXCEPT ![v].st = "deleted"]
    /\ UNCHANGED <<api, queue, worker, hosts>>

HostAppears(h) ==
    /\ h \notin present
    /\ present' = present \union {h}
    /\ UNCHANGED <<api, queue, worker, vlans, up>>

HostUp(h) ==
    /\ h \in present \ up
    /\ up' = up \union {h}
    /\ UNCHANGED <<api, queue, worker, vlans, present>>

HostGoes(h) ==
    /\ "hostGone" \in Events
    /\ h \in present
    /\ present' = present \ {h}
    /\ up' = up \ {h}
    /\ UNCHANGED <<api, queue, worker, vlans>>
-----------------------------------------------------------------------------
ReconcileNormal ==
    \/ AddFinalizer
    \/ RejectSpec
    \/ LocationFound
    \/ LocationNotFound
    \/ MarkReady
    \/ KeepEndpoint
    \/ \E h \in Hosts : SetEndpoint(h)
    \/ WaitForHost

ReconcileVLAN ==
    \/ NoVLAN
    \/ UseExistingVLAN
    \/ VLANFound
    \/ VLANWanted
    \/ \E v \in VLANs : AdoptVLAN(v) \/ CreateVLAN(v) \/ CreateVLANReplyLost(v)
    \/ CreateVLANFails

ReconcileDelete == SkipCleanup \/ CleanupVLAN

Patch ==
    \/ PatchObject
    \/ SkipPatchObject
    \/ PatchObjectFails
    \/ PatchStatus
    \/ SkipPatchStatus
    \/ PatchStatusFails

\* A reconciliation that has started goes on.
Continue == ReconcileNormal \/ ReconcileVLAN \/ ReconcileDelete \/ Patch

Environment ==
    \/ CrashRestart
    \/ \E c \in Clusters : \/ DeleteCluster(c)
                           \/ SetOwner(c)
                           \/ CompleteSpec(c)
                           \/ EditVLANConfig(c)
    \/ \E v \in VLANs : RemoveExternally(v)
    \/ \E h \in Hosts : HostAppears(h) \/ HostUp(h) \/ HostGoes(h)

Next ==
    \/ \E c \in Clusters : ReconcileGone(c) \/ Reconcile(c) \/ CacheSync(c)
    \/ Continue
    \/ Environment

Spec == Init /\ [][Next]_vars

(***************************************************************************)
(* Fairness.  A started reconciliation goes on to its end, the work queue  *)
(* is FIFO, the watch catches up, and a request that is retried for ever   *)
(* succeeds once in a while.  The list of machines comes in no particular  *)
(* order, so that a ready one is the first once in a while.  cluster-api   *)
(* sets the owner, the user completes the spec, and control plane machines *)
(* come up.                                                                *)
(***************************************************************************)
Fairness ==
    /\ WF_vars(Continue)
    /\ SF_vars(LocationFound)
    /\ SF_vars(UseExistingVLAN /\ pc' = "reconciled")
    /\ SF_vars(\E v \in VLANs : AdoptVLAN(v) \/ CreateVLAN(v))
    /\ SF_vars(\E h \in Hosts : SetEndpoint(h))
    /\ \A c \in Clusters : SF_vars(Reconcile(c)) /\ WF_vars(CacheSync(c))
    /\ WF_vars(\E c \in Clusters : SetOwner(c) \/ CompleteSpec(c))
    /\ WF_vars(\E h \in Hosts : HostAppears(h) \/ HostUp(h))

FairSpec == Spec /\ Fairness
-----------------------------------------------------------------------------
(***************************************************************************)
(* Safety.                                                                 *)
(***************************************************************************)

\* A cluster that is ready and has a VLANConfig has a VLAN and its tag in its
\* status: the bootstrap data of its machines, published once it is ready, can be
\* completed with them.
ReadyHasVLAN ==
    \A c \in Clusters :
        stored[c].status.ready /\ stored[c].config.configured =>
            stored[c].status.vlanID # None /\ stored[c].status.vlanVID # None

\* The tag in the status, which the machines put on their traffic, is that of
\* the VLAN in the status, which they are attached to.
VIDOfVLAN ==
    \A c \in Clusters :
        /\ stored[c].status.vlanID # None
        /\ stored[c].status.vlanVID # None
        => stored[c].status.vlanVID = stored[c].status.vlanID

\* A cluster has one live VLAN at most, whatever replies, patches and restarts
\* are lost between its creation and its record: CreateVLAN finds it again.
OneVLANPerDescription ==
    \A v \in VLANs :
        vlans[v].st = "live" /\ vlans[v].creator # None =>
            VLANsFor(vlans[v].creator) = {v}

\* The VLAN of a cluster that is not being deleted is not deleted.
VLANInUseKept ==
    \A c \in Clusters :
        /\ stored[c].exists
        /\ ~stored[c].deleting
        /\ stored[c].status.vlanID # None
        => vlans[stored[c].status.vlanID].st = "live"

\* A VLAN the controller has not made is not deleted.
ForeignVLANKept == \A v \in Foreign : vlans[v].st = "live"

\* When a cluster is gone, so is every VLAN made for it.
ReleasedVLAN ==
    \A v \in VLANs :
        vlans[v].st = "live" /\ vlans[v].creator # None =>
            stored[vlans[v].creator].exists

\* A cluster that has something to do is in the queue, in the worker's hands, or
\* about to be enqueued by the watch.
NoLostWakeup ==
    \A c \in Clusters :
        /\ stored[c].exists
        /\ stored[c].deleting \/ stored[c].valid
        /\ stored[c].deleting \/ stored[c].status.endpoint = None
        => c \in queue \/ key = c \/ cached[c] # stored[c]

\* An endpoint, once set, is kept: the kubeconfigs made from it stay valid.
EndpointStable ==
    [][\A c \in Clusters :
         stored[c].status.endpoint # None =>
             stored'[c].status.endpoint = stored[c].status.endpoint]_vars
-----------------------------------------------------------------------------
(***************************************************************************)
(* Liveness.                                                               *)
(***************************************************************************)

\* Every cluster gets its endpoint, however late its owner and its project come,
\* however often requests fail and its VLANConfig is edited, unless it is deleted
\* or somebody removes VLANs.
EndpointDiscovered ==
    \A c \in Clusters :
        <>(\/ stored[c].status.endpoint # None
           \/ stored[c].deleting
           \/ \E v \in VLANs : vlans[v].st = "deleted")

\* A cluster whose deletion was requested goes.
DeletionCompletes ==
    \A c \in Clusters : stored[c].deleting ~> ~stored[c].exists
=============================================================================
