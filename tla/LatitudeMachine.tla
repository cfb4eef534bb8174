--------------------------- MODULE LatitudeMachine ---------------------------
(***************************************************************************)
(* The LatitudeMachine controller: one worker that takes a machine from    *)
(* the work queue, reads it from the informer cache, calls the Latitude.sh *)
(* API and patches the object it read.                                     *)
(*                                                                         *)
(* stored is the API server's copy of every LatitudeMachine and cached the *)
(* informer's.  A reconciliation is cut into one action for each remote    *)
(* call, because a crash, a lost reply, a deletion or an edit can come     *)
(* between any two of them; what it does locally in between is part of the *)
(* action of the call.  pc, key, before, obj, then and again are the       *)
(* worker's local variables.                                               *)
(*                                                                         *)
(* Events names the things outside the controller's control that a model   *)
(* allows, so that a run can say under which of them a property holds.     *)
(*                                                                         *)
(* A definition marked as a variant is no part of Next: it is a plausible  *)
(* mistake in the code that a property must tell from the definition it    *)
(* varies.                                                                 *)
(***************************************************************************)
EXTENDS PatchHelper

CONSTANTS
    Machines,       \* the LatitudeMachines
    ControlPlanes,  \* those whose owner Machine has the control-plane label
    Clusters,
    ClusterOf,      \* the cluster of each machine
    NamespaceOf,    \* the namespace of each cluster and of its machines
    Servers,        \* the server IDs Latitude.sh can hand out (the bound)
    UserData,       \* the user-data IDs it can hand out (the bound)
    None,
    Events          \* what a model lets happen, a subset of EventKinds

EventKinds == {
    "staleCache",      \* a reconciliation reads before the watch caught up
    "crash",           \* the manager stops and starts again
    "patchError",      \* the API server refuses a patch
    "apiError",        \* a Latitude.sh write, or the read of a Secret, fails
    "readError",       \* the owner Machine, the Cluster, the LatitudeCluster or
                       \* the list of LatitudeMachines cannot be read
    "lostReply",       \* a Latitude.sh write is done, its reply is not received
    "emptyReply",      \* user data is created, the reply has no body
    "getError",        \* GetServer fails for a server that exists
    "outOfStock",      \* CreateServer fails with SERVERS_OUT_OF_STOCK
    "externalDelete",  \* a server is removed by somebody else
    "noAddress",       \* a server runs without a primary IPv4
    "delete",          \* a LatitudeMachine is deleted
    "pause",           \* a LatitudeMachine is paused and resumed
    "lateOwner",       \* the owner reference is set after the creation
    "lateCluster",     \* the LatitudeCluster comes, or is completed, later
    "vlan",            \* the clusters have a VLANConfig
    "badSubnet" }      \* a VLANConfig's subnet is no IPv4 network

ASSUME MachineAssumption ==
    /\ ControlPlanes \subseteq Machines
    /\ ClusterOf \in [Machines -> Clusters]
    /\ None \notin Machines \union Servers \union UserData
    /\ Events \subseteq EventKinds

VARIABLES
    stored, cached,  \* the objects at the API server and in the cache
    queue,           \* the work queue, RequeueAfter and back-off included
    pc, key,         \* where the worker is and the machine it works on
    before, obj,     \* the object as read (the patch helper's) and as edited
    then,            \* where the worker goes on after the patch
    again,           \* whether the result asks for another reconciliation
    servers,         \* Latitude.sh's servers
    userData,        \* Latitude.sh's user data
    infra,           \* what a machine reads of its LatitudeCluster
    bootstrap,       \* the machines whose bootstrap secret is published
    refused          \* ghost: the machines Latitude.sh had no stock for

api == <<stored, cached>>
worker == <<pc, key, before, obj, then, again>>
cloud == <<servers, userData>>
env == <<infra, bootstrap>>
vars == <<api, queue, worker, cloud, env, refused>>
-----------------------------------------------------------------------------
\* "InvalidSpec" is ProvisionFailed with validateMachineSpec's message.
Conditions == {"none", "NotReady", "ProvisionFailed", "InvalidSpec",
               "DeletionFailed", "Ready"}

Status == [ready : BOOLEAN, failed : BOOLEAN, address : BOOLEAN,
           serverID : Servers \union {None},
           userDataID : UserData \union {None},
           condition : Conditions]

Object == [exists : BOOLEAN, deleting : BOOLEAN, paused : BOOLEAN,
           owned : BOOLEAN, finalizer : BOOLEAN,
           providerID : Servers \union {None}, status : Status]

\* A LatitudeMachine as cluster-api creates it from its template.
NewMachine ==
    [exists |-> TRUE, deleting |-> FALSE, paused |-> FALSE,
     owned |-> "lateOwner" \notin Events, finalizer |-> FALSE,
     providerID |-> None,
     status |-> [ready |-> FALSE, failed |-> FALSE, address |-> FALSE,
                 serverID |-> None, userDataID |-> None, condition |-> "none"]]

\* deleted by the controller, or lost to somebody else.
Server == [st : {"unused", "off", "on", "deleted", "lost"},
           owner : Machines \union {None},
           userData : UserData \union {None},
           address : BOOLEAN, vlan : BOOLEAN]

Datum == [st : {"unused", "live", "deleted"}, owner : Machines \union {None},
          vlan : BOOLEAN]

Infra == [spec : {"absent", "incomplete", "complete"},
          vlan : {"unset", "pending", "up"}]

PCs == {"idle", "reconcileNormal", "reconcileServer", "createServer", "attach",
        "reconcileDelete", "deleteUserData", "patchObject", "patchStatus"}

ApiOK ==
    /\ stored \in [Machines -> Object]
    /\ cached \in [Machines -> Object]
    /\ queue \subseteq Machines

WorkerOK ==
    /\ pc \in PCs
    /\ key \in Machines \union {None}
    /\ (pc = "idle") <=> (key = None)
    /\ before \in Object
    /\ obj \in Object
    /\ then \in {"createServer", "attach", "return"}
    /\ again \in BOOLEAN

CloudOK ==
    /\ servers \in [Servers -> Server]
    /\ userData \in [UserData -> Datum]

EnvOK ==
    /\ infra \in [Clusters -> Infra]
    /\ bootstrap \subseteq Machines
    /\ refused \subseteq Machines

\* Every variable keeps its type, and the worker has a key exactly while it is
\* at work.
TypeOK == ApiOK /\ WorkerOK /\ CloudOK /\ EnvOK

\* The controller starts, nothing has happened at Latitude.sh.
ControllerInit ==
    /\ stored = [m \in Machines |-> NewMachine]
    /\ cached = stored
    /\ queue = Machines
    /\ pc = "idle"
    /\ key = None
    /\ before = NewMachine
    /\ obj = NewMachine
    /\ then = "return"
    /\ again = FALSE
    /\ servers = [s \in Servers |-> [st |-> "unused", owner |-> None,
                    userData |-> None, address |-> FALSE, vlan |-> FALSE]]
    /\ userData = [u \in UserData |-> [st |-> "unused", owner |-> None,
                    vlan |-> FALSE]]
    /\ bootstrap = {}
    /\ refused = {}

Init ==
    /\ ControllerInit
    /\ infra = [c \in Clusters |->
         [spec |-> IF "lateCluster" \in Events THEN "absent" ELSE "complete",
          vlan |-> IF "vlan" \in Events THEN "pending" ELSE "unset"]]
-----------------------------------------------------------------------------
\* The steps every handler is made of.

Settled(o) == o.status.ready \/ o.status.failed

Live(s) == servers[s].st \in {"off", "on"}

Existing == {m \in Machines : stored[m].exists}

\* The handler returns with the object edited to o; the deferred patch runs.
Return(o, requeue) ==
    /\ obj' = o
    /\ again' = requeue
    /\ then' = "return"
    /\ pc' = "patchObject"
    /\ UNCHANGED <<key, before>>

\* reconcileServer persists o and goes on at next, whatever the patch does.
Persist(o, next) ==
    /\ obj' = o
    /\ then' = next
    /\ pc' = "patchObject"
    /\ UNCHANGED <<key, before, again>>

GoTo(next) ==
    /\ pc' = next
    /\ UNCHANGED <<key, before, obj, then, again>>

\* Variant of Rest: the worker does not let go of its key.
RestKeepsKey ==
    /\ pc' = "idle"
    /\ before' = NewMachine
    /\ obj' = NewMachine
    /\ then' = "return"
    /\ again' = FALSE
    /\ UNCHANGED key

\* The worker is done; what its variables hold is of no account.
Rest ==
    /\ pc' = "idle"
    /\ key' = None
    /\ before' = NewMachine
    /\ obj' = NewMachine
    /\ then' = "return"
    /\ again' = FALSE

\* setCondition: InstanceReady with the given reason.
SetCondition(o, reason) == [o EXCEPT !.status.condition = reason]

\* setMachineFailed, and the condition both its callers set after it.
SetMachineFailed(o) ==
    SetCondition([o EXCEPT !.status.ready = FALSE, !.status.failed = TRUE],
                 "ProvisionFailed")
-----------------------------------------------------------------------------
\* Reconcile.

\* The object is gone from the cache: nothing to do.
ReconcileGone(m) ==
    /\ pc = "idle"
    /\ m \in queue
    /\ ~cached[m].exists
    /\ queue' = queue \ {m}
    /\ UNCHANGED <<api, worker, cloud, env, refused>>

Reconcile(m) ==
    /\ pc = "idle"
    /\ m \in queue
    /\ cached[m].exists
    /\ "staleCache" \in Events \/ cached[m] = stored[m]
    /\ queue' = queue \ {m}
    /\ key' = m
    /\ before' = cached[m]
    /\ obj' = cached[m]
    /\ then' = "return"
    /\ again' = FALSE
    /\ pc' = CASE cached[m].paused -> "patchObject"
               [] ~cached[m].paused /\ cached[m].deleting -> "reconcileDelete"
               [] OTHER -> "reconcileNormal"
    /\ UNCHANGED <<api, cloud, env, refused>>
-----------------------------------------------------------------------------
\* reconcileNormal, up to the call of reconcileServer.

AddFinalizer ==
    /\ pc = "reconcileNormal"
    /\ ~obj.finalizer
    /\ Return([obj EXCEPT !.finalizer = TRUE], FALSE)
    /\ UNCHANGED <<api, queue, cloud, env, refused>>

\* Ready or failed for good: nothing to do.
SkipSettled ==
    /\ pc = "reconcileNormal"
    /\ obj.finalizer
    /\ Settled(obj)
    /\ Return(obj, FALSE)
    /\ UNCHANGED <<api, queue, cloud, env, refused>>

\* Variants of Unsettled: a guard of reconcileNormal forgotten.
UnsettledButFailed ==
    pc = "reconcileNormal" /\ obj.finalizer /\ ~obj.status.ready
UnsettledButReady ==
    pc = "reconcileNormal" /\ obj.finalizer /\ ~obj.status.failed

Unsettled == pc = "reconcileNormal" /\ obj.finalizer /\ ~Settled(obj)

ReadFails == "readError" \in Events

\* No owner reference yet, or the owner Machine cannot be read.
WaitForOwner ==
    /\ Unsettled
    /\ ~obj.owned \/ ReadFails
    /\ Return(obj, TRUE)
    /\ UNCHANGED <<api, queue, cloud, env, refused>>

\* Variant of ControlPlaneFailed: the list is not limited to the namespace.
ControlPlaneFailedAnywhere(m) ==
    /\ infra[ClusterOf[m]].spec # "absent"
    /\ \E n \in ControlPlanes :
         cached[n].exists /\ cached[n].owned /\ cached[n].status.failed

\* checkControlPlaneFailed: any failed control plane machine of the namespace,
\* as the cache has it; FALSE without a LatitudeCluster.
ControlPlaneFailed(m) ==
    /\ infra[ClusterOf[m]].spec # "absent"
    /\ \E n \in ControlPlanes :
         /\ NamespaceOf[ClusterOf[n]] = NamespaceOf[ClusterOf[m]]
         /\ cached[n].exists
         /\ cached[n].owned
         /\ cached[n].status.failed

RejectedWorker(m) == m \notin ControlPlanes /\ ControlPlaneFailed(m)

RejectWorker ==
    /\ Unsettled
    /\ obj.owned
    /\ RejectedWorker(key)
    /\ Return(SetMachineFailed(obj), FALSE)
    /\ UNCHANGED <<api, queue, cloud, env, refused>>

\* A control plane machine has no check to pass; for the others, an error of the
\* check is only logged and counts as passed.
PassesCheck == ~RejectedWorker(key) \/ ReadFails

\* getProjectID and getSite find nothing, or cannot read: they answer the same.
NothingFound == infra[ClusterOf[key]].spec # "complete" \/ ReadFails

\* validateMachineSpec: no project or no site for the machine.  Neither an error
\* nor a requeue follows.
RejectSpec ==
    /\ Unsettled
    /\ obj.owned
    /\ PassesCheck
    /\ NothingFound
    /\ Return(SetCondition(obj, "InvalidSpec"), FALSE)
    /\ UNCHANGED <<api, queue, cloud, env, refused>>

StartServer ==
    /\ Unsettled
    /\ obj.owned
    /\ PassesCheck
    /\ infra[ClusterOf[key]].spec = "complete"
    /\ GoTo("reconcileServer")
    /\ UNCHANGED <<api, queue, cloud, env, refused>>
-----------------------------------------------------------------------------
\* reconcileServer.

AtServer == pc = "reconcileServer"

Known == AtServer /\ obj.status.serverID # None

\* Variant of ServerRunning: a provider ID, once set, is kept.
ServerRunningKeepsProviderID ==
    /\ Known
    /\ servers[obj.status.serverID].st = "on"
    /\ Return([obj EXCEPT
            !.providerID = IF @ = None THEN obj.status.serverID ELSE @,
            !.status = [@ EXCEPT
                !.ready = TRUE,
                !.address = servers[obj.status.serverID].address,
                !.condition = "Ready"]],
          FALSE)
    /\ UNCHANGED <<api, queue, cloud, env, refused>>

\* GetServer finds the recorded server running: the machine is ready.
ServerRunning ==
    /\ Known
    /\ servers[obj.status.serverID].st = "on"
    /\ Return([obj EXCEPT
            !.providerID = obj.status.serverID,
            !.status = [@ EXCEPT
                !.ready = TRUE,
                !.address = servers[obj.status.serverID].address,
                !.condition = "Ready"]],
          FALSE)
    /\ UNCHANGED <<api, queue, cloud, env, refused>>

ServerStarting ==
    /\ Known
    /\ servers[obj.status.serverID].st = "off"
    /\ Return(SetCondition(obj, "NotReady"), TRUE)
    /\ UNCHANGED <<api, queue, cloud, env, refused>>

\* Variant of ServerLost: a server that is not running counts as lost.
ServerLostUnlessRunning ==
    /\ Known
    /\ servers[obj.status.serverID].st # "on"
    /\ obj' = [obj EXCEPT !.status.serverID = None]
    /\ UNCHANGED <<pc, key, before, then, again>>
    /\ UNCHANGED <<api, queue, cloud, env, refused>>

\* GetServer fails, whatever the error: the record of the server is dropped.
ServerLost ==
    /\ Known
    /\ ~Live(obj.status.serverID) \/ "getError" \in Events
    /\ obj' = [obj EXCEPT !.status.serverID = None]
    /\ UNCHANGED <<pc, key, before, then, again>>
    /\ UNCHANGED <<api, queue, cloud, env, refused>>

Creating == AtServer /\ obj.status.serverID = None

\* Variant of WaitForBootstrap: without the requeue.
WaitForBootstrapOnce ==
    /\ Creating
    /\ key \notin bootstrap
    /\ Return(SetCondition(obj, "NotReady"), FALSE)
    /\ UNCHANGED <<api, queue, cloud, env, refused>>

WaitForBootstrap ==
    /\ Creating
    /\ key \notin bootstrap
    /\ Return(SetCondition(obj, "NotReady"), TRUE)
    /\ UNCHANGED <<api, queue, cloud, env, refused>>

ReuseUserData ==
    /\ Creating
    /\ key \in bootstrap
    /\ obj.status.userDataID # None
    /\ GoTo("createServer")
    /\ UNCHANGED <<api, queue, cloud, env, refused>>

\* Variant of NeedsUserData: user data that is already recorded is not reused.
NeedsUserDataAlways == Creating /\ key \in bootstrap

NeedsUserData ==
    Creating /\ key \in bootstrap /\ obj.status.userDataID = None

\* injectVLANConfig: an error is only logged, and the user data goes without.
InjectionFails == ReadFails \/ "badSubnet" \in Events

\* Whether the VLAN's netplan file gets into the user data: it does when the
\* cluster already has its VLAN.
Injected(c) ==
    {vlan \in BOOLEAN : \/ vlan = (infra[c].vlan = "up")
                        \/ ~vlan /\ InjectionFails}

StoreUserData(u) ==
    /\ userData[u].st = "unused"
    /\ \E vlan \in Injected(ClusterOf[key]) :
         userData' = [userData EXCEPT ![u] =
                        [st |-> "live", owner |-> key, vlan |-> vlan]]
    /\ UNCHANGED servers

CreateUserData(u) ==
    /\ NeedsUserData
    /\ StoreUserData(u)
    /\ \/ Persist([obj EXCEPT !.status.userDataID = u], "createServer")
       \/ "emptyReply" \in Events /\ Persist(obj, "createServer")
    /\ UNCHANGED <<api, queue, env, refused>>

\* Variant of RetryLater: every error counts as permanent.
FailAtOnce == Return(SetMachineFailed(obj), TRUE)

\* Any error of reconcileServer but the permanent one.
RetryLater == Return(SetCondition(obj, "ProvisionFailed"), TRUE)

CreateUserDataReplyLost(u) ==
    /\ "lostReply" \in Events
    /\ NeedsUserData
    /\ StoreUserData(u)
    /\ RetryLater
    /\ UNCHANGED <<api, queue, env, refused>>

\* The bootstrap secret, or the SSH keys, cannot be read; the project or the site
\* cannot, so that the request lacks it; Latitude.sh fails or has no ID left.
RequestFails ==
    /\ \/ /\ Creating
          /\ key \in bootstrap
          /\ \/ "apiError" \in Events
             \/ /\ NeedsUserData
                /\ \A u \in UserData : userData[u].st # "unused"
       \/ /\ pc = "createServer"
          /\ \/ "apiError" \in Events \/ ReadFails
             \/ \A s \in Servers : servers[s].st # "unused"
    /\ RetryLater
    /\ UNCHANGED <<api, queue, cloud, env, refused>>

StartNewServer(s) ==
    /\ servers[s].st = "unused"
    /\ servers' = [servers EXCEPT ![s] =
         [st |-> "off", owner |-> key, userData |-> obj.status.userDataID,
          address |-> FALSE, vlan |-> FALSE]]
    /\ UNCHANGED userData

CreateServer(s) ==
    /\ pc = "createServer"
    /\ StartNewServer(s)
    /\ Persist([obj EXCEPT !.status.serverID = s], "attach")
    /\ UNCHANGED <<api, queue, env, refused>>

CreateServerReplyLost(s) ==
    /\ "lostReply" \in Events
    /\ pc = "createServer"
    /\ StartNewServer(s)
    /\ RetryLater
    /\ UNCHANGED <<api, queue, env, refused>>

\* isPermanentError: the machine has failed for good.
CreateServerOutOfStock ==
    /\ "outOfStock" \in Events
    /\ pc = "createServer"
    /\ Return(SetMachineFailed(obj), TRUE)
    /\ refused' = refused \union {key}
    /\ UNCHANGED <<api, queue, cloud, env>>

\* attachServerToVLAN, whose every failure is only logged.
AttachServer ==
    /\ pc = "attach"
    /\ LET s == obj.status.serverID
           attachable == infra[ClusterOf[key]].vlan = "up" /\ Live(s)
       IN  \/ attachable /\ servers' = [servers EXCEPT ![s].vlan = TRUE]
           \/ ~attachable /\ UNCHANGED servers
           \/ ("apiError" \in Events \/ ReadFails) /\ UNCHANGED servers
    /\ Return(SetCondition(obj, "NotReady"), TRUE)
    /\ UNCHANGED <<api, queue, userData, env, refused>>
-----------------------------------------------------------------------------
\* reconcileDelete.

\* Variant of NoServerToDelete: only a ready machine is taken to have a server.
NoServerToDeleteUnlessReady ==
    /\ pc = "reconcileDelete"
    /\ obj.status.serverID = None \/ ~obj.status.ready
    /\ GoTo("deleteUserData")
    /\ UNCHANGED <<api, queue, cloud, env, refused>>

NoServerToDelete ==
    /\ pc = "reconcileDelete"
    /\ obj.status.serverID = None
    /\ GoTo("deleteUserData")
    /\ UNCHANGED <<api, queue, cloud, env, refused>>

\* The request reaches Latitude.sh and removes the server.
RemoveServer ==
    /\ pc = "reconcileDelete"
    /\ obj.status.serverID # None
    /\ Live(obj.status.serverID)
    /\ servers' = [servers EXCEPT ![obj.status.serverID].st = "deleted"]
    /\ UNCHANGED userData

\* Variants of DeletionFails: without the requeue, and going on after the error.
DeletionFailsOnce == Return(SetCondition(obj, "DeletionFailed"), FALSE)
DeletionFailsOpen == Return([obj EXCEPT !.finalizer = FALSE], FALSE)

DeletionFails == Return(SetCondition(obj, "DeletionFailed"), TRUE)

DeleteServer ==
    /\ RemoveServer
    /\ GoTo("deleteUserData")
    /\ UNCHANGED <<api, queue, env, refused>>

DeleteServerReplyLost ==
    /\ "lostReply" \in Events
    /\ RemoveServer
    /\ DeletionFails
    /\ UNCHANGED <<api, queue, env, refused>>

\* A server that is already gone is an error too.
DeleteServerFails ==
    /\ pc = "reconcileDelete"
    /\ obj.status.serverID # None
    /\ "apiError" \in Events \/ ~Live(obj.status.serverID)
    /\ DeletionFails
    /\ UNCHANGED <<api, queue, cloud, env, refused>>

\* An error is only recorded; the finalizer goes in any case.
DeleteUserData ==
    /\ pc = "deleteUserData"
    /\ LET u == obj.status.userDataID
       IN  \/ /\ u # None
              /\ userData' = [userData EXCEPT ![u].st = "deleted"]
           \/ u = None /\ UNCHANGED userData
           \/ "apiError" \in Events /\ UNCHANGED userData
    /\ Return([obj EXCEPT !.finalizer = FALSE], FALSE)
    /\ UNCHANGED <<api, queue, servers, env, refused>>
-----------------------------------------------------------------------------
\* patchHelper.Patch: the object first, then its status.

SpecChanged == \/ obj.finalizer # before.finalizer
               \/ obj.providerID # before.providerID

\* An object that is being deleted goes when its last finalizer does.
MergeSpec(b, a, c) ==
    LET finalizer == Merged(b.finalizer, a.finalizer, c.finalizer)
    IN  [c EXCEPT !.finalizer = finalizer,
                  !.providerID = Merged(b.providerID, a.providerID, c.providerID),
                  !.exists = c.exists /\ (c.deleting => finalizer)]

PatchObject ==
    /\ pc = "patchObject"
    /\ SpecChanged
    /\ stored[key].exists
    /\ stored' = [stored EXCEPT ![key] = MergeSpec(before, obj, @)]
    /\ GoTo("patchStatus")
    /\ UNCHANGED <<cached, queue, cloud, env, refused>>

SkipPatchObject ==
    /\ pc = "patchObject"
    /\ ~SpecChanged
    /\ GoTo("patchStatus")
    /\ UNCHANGED <<api, queue, cloud, env, refused>>

\* The status is patched all the same; an error asks for a retry only when the
\* handler has returned.
PatchObjectFails ==
    /\ pc = "patchObject"
    /\ SpecChanged
    /\ "patchError" \in Events \/ ~stored[key].exists
    /\ again' = (again \/ then = "return")
    /\ pc' = "patchStatus"
    /\ UNCHANGED <<key, before, obj, then>>
    /\ UNCHANGED <<api, queue, cloud, env, refused>>

StatusChanged == obj.status # before.status

MergeStatus(b, a, c) ==
    [ready |-> Merged(b.ready, a.ready, c.ready),
     failed |-> Merged(b.failed, a.failed, c.failed),
     address |-> Merged(b.address, a.address, c.address),
     serverID |-> Merged(b.serverID, a.serverID, c.serverID),
     userDataID |-> Merged(b.userDataID, a.userDataID, c.userDataID),
     condition |-> Merged(b.condition, a.condition, c.condition)]

\* Variant of Patched: the helper forgets the object as it was read.
PatchedRefreshing(failed) ==
    \/ /\ then # "return"
       /\ pc' = then
       /\ before' = obj
       /\ UNCHANGED <<key, obj, then, again, queue>>
    \/ /\ then = "return"
       /\ Rest
       /\ queue' = IF again \/ failed THEN queue \union {key} ELSE queue

\* Variant of Patched: a failed patch is only logged.
PatchedLoggingErrors(failed) ==
    \/ /\ then # "return"
       /\ GoTo(then)
       /\ UNCHANGED queue
    \/ /\ then = "return"
       /\ Rest
       /\ queue' = IF again THEN queue \union {key} ELSE queue

\* Patch returns: reconcileServer goes on, or the reconciliation ends.
Patched(failed) ==
    \/ /\ then # "return"
       /\ GoTo(then)
       /\ UNCHANGED queue
    \/ /\ then = "return"
       /\ Rest
       /\ queue' = IF again \/ failed THEN queue \union {key} ELSE queue

PatchStatus ==
    /\ pc = "patchStatus"
    /\ StatusChanged
    /\ stored[key].exists
    /\ stored' = [stored EXCEPT ![key].status =
                    MergeStatus(before.status, obj.status, @)]
    /\ Patched(FALSE)
    /\ UNCHANGED <<cached, cloud, env, refused>>

SkipPatchStatus ==
    /\ pc = "patchStatus"
    /\ ~StatusChanged
    /\ Patched(FALSE)
    /\ UNCHANGED <<api, cloud, env, refused>>

\* Not found is no error for an object whose last finalizer was removed.
PatchStatusFails ==
    /\ pc = "patchStatus"
    /\ StatusChanged
    /\ \/ "patchError" \in Events /\ Patched(TRUE)
       \/ ~stored[key].exists /\ Patched(~obj.deleting \/ obj.finalizer)
    /\ UNCHANGED <<api, cloud, env, refused>>
-----------------------------------------------------------------------------
\* The watch, the manager, and everybody else.

\* The watch delivers the latest object; the event handler enqueues it.
CacheSync(m) ==
    /\ cached[m] # stored[m]
    /\ cached' = [cached EXCEPT ![m] = stored[m]]
    /\ queue' = queue \union {m}
    /\ UNCHANGED <<stored, worker, cloud, env, refused>>

\* The manager comes back: it lists everything and enqueues what exists.
CrashRestart ==
    /\ "crash" \in Events
    /\ cached' = stored
    /\ queue' = Existing
    /\ Rest
    /\ UNCHANGED <<stored, cloud, env, refused>>

EditMachine(m, edited) ==
    /\ stored[m].exists
    /\ stored' = [stored EXCEPT ![m] = edited]
    /\ UNCHANGED <<cached, queue, worker, cloud, env, refused>>

\* A deletion request: the object stays while it has a finalizer.
DeleteMachine(m) ==
    /\ "delete" \in Events
    /\ ~stored[m].deleting
    /\ EditMachine(m, [stored[m] EXCEPT !.deleting = TRUE,
                                        !.exists = stored[m].finalizer])

SetPaused(m) ==
    /\ "pause" \in Events
    /\ EditMachine(m, [stored[m] EXCEPT !.paused = ~@])

\* cluster-api's Machine controller adopts the LatitudeMachine.
SetOwner(m) ==
    /\ ~stored[m].owned
    /\ EditMachine(m, [stored[m] EXCEPT !.owned = TRUE])

\* The bootstrap provider waits for the cluster's infrastructure.
PublishBootstrap(m) ==
    /\ m \notin bootstrap
    /\ infra[ClusterOf[m]].spec = "complete"
    /\ infra[ClusterOf[m]].vlan # "pending"
    /\ bootstrap' = bootstrap \union {m}
    /\ UNCHANGED <<api, queue, worker, cloud, infra, refused>>

\* The LatitudeCluster is created, then gets its project and its location.
AdvanceCluster(c) ==
    /\ \/ /\ infra[c].spec = "absent"
          /\ infra' = [infra EXCEPT ![c].spec = "incomplete"]
       \/ /\ infra[c].spec = "incomplete"
          /\ infra' = [infra EXCEPT ![c].spec = "complete"]
    /\ UNCHANGED <<api, queue, worker, cloud, bootstrap, refused>>

\* The LatitudeCluster controller records its VLAN.
RecordVLAN(c) ==
    /\ infra[c].spec = "complete"
    /\ infra[c].vlan = "pending"
    /\ infra' = [infra EXCEPT ![c].vlan = "up"]
    /\ UNCHANGED <<api, queue, worker, cloud, bootstrap, refused>>

PowerOn(s) ==
    /\ servers[s].st = "off"
    /\ \E a \in IF "noAddress" \in Events THEN BOOLEAN ELSE {TRUE} :
         servers' = [servers EXCEPT ![s].st = "on", ![s].address = a]
    /\ UNCHANGED <<api, queue, worker, userData, env, refused>>

RemoveExternally(s) ==
    /\ "externalDelete" \in Events
    /\ Live(s)
    /\ servers' = [servers EXCEPT ![s].st = "lost"]
    /\ UNCHANGED <<api, queue, worker, userData, env, refused>>
-----------------------------------------------------------------------------
ReconcileNormal ==
    \/ AddFinalizer
    \/ SkipSettled
    \/ WaitForOwner
    \/ RejectWorker
    \/ RejectSpec
    \/ StartServer

ReconcileServer ==
    \/ ServerRunning
    \/ ServerStarting
    \/ ServerLost
    \/ WaitForBootstrap
    \/ ReuseUserData
    \/ \E u \in UserData : CreateUserData(u) \/ CreateUserDataReplyLost(u)
    \/ \E s \in Servers : CreateServer(s) \/ CreateServerReplyLost(s)
    \/ CreateServerOutOfStock
    \/ RequestFails
    \/ AttachServer

ReconcileDelete ==
    \/ NoServerToDelete
    \/ DeleteServer
    \/ DeleteServerReplyLost
    \/ DeleteServerFails
    \/ DeleteUserData

Patch ==
    \/ PatchObject
    \/ SkipPatchObject
    \/ PatchObjectFails
    \/ PatchStatus
    \/ SkipPatchStatus
    \/ PatchStatusFails

\* A reconciliation that has started goes on.
Continue == ReconcileNormal \/ ReconcileServer \/ ReconcileDelete \/ Patch

Environment ==
    \/ CrashRestart
    \/ \E m \in Machines : \/ DeleteMachine(m)
                           \/ SetPaused(m)
                           \/ SetOwner(m)
                           \/ PublishBootstrap(m)
    \/ \E c \in Clusters : AdvanceCluster(c) \/ RecordVLAN(c)
    \/ \E s \in Servers : PowerOn(s) \/ RemoveExternally(s)

Next ==
    \/ \E m \in Machines : ReconcileGone(m) \/ Reconcile(m) \/ CacheSync(m)
    \/ Continue
    \/ Environment

Spec == Init /\ [][Next]_vars

(***************************************************************************)
(* Fairness.  A started reconciliation goes on to its end, the work queue  *)
(* is FIFO and hands out every key in it, and the watch catches up.  A     *)
(* request that is retried for ever succeeds once in a while: the reads    *)
(* before the creation, the two creations, the deletion.  (Nothing is      *)
(* assumed of patches: where they may fail, liveness is not claimed.)      *)
(* cluster-api adopts the machine, completes the cluster and publishes the *)
(* bootstrap data, and Latitude.sh powers a server on.                     *)
(***************************************************************************)
Fairness ==
    /\ WF_vars(Continue)
    /\ SF_vars(StartServer)
    /\ SF_vars(ReuseUserData)
    /\ SF_vars(\E u \in UserData : CreateUserData(u))
    /\ SF_vars(\E s \in Servers : CreateServer(s))
    /\ SF_vars(DeleteServer)
    /\ \A m \in Machines : SF_vars(Reconcile(m)) /\ WF_vars(CacheSync(m))
    /\ WF_vars(\E m \in Machines : SetOwner(m))
    /\ WF_vars(\E m \in Machines : PublishBootstrap(m))
    /\ WF_vars(\E c \in Clusters : AdvanceCluster(c) \/ RecordVLAN(c))
    /\ WF_vars(\E s \in Servers : PowerOn(s))

FairSpec == Spec /\ Fairness
-----------------------------------------------------------------------------
(***************************************************************************)
(* Safety.                                                                 *)
(***************************************************************************)

ServerOf(m) == stored[m].status.serverID

\* The failures that may fail m: its own, and for a worker that of a control
\* plane machine of its namespace.
Causes(m) ==
    {m} \union IF m \in ControlPlanes THEN {}
               ELSE {n \in ControlPlanes :
                       NamespaceOf[ClusterOf[n]] = NamespaceOf[ClusterOf[m]]}

\* A ready machine's spec.providerID, by which cluster-api finds the node,
\* names the server in its status, however reconciliations were cut short and
\* servers replaced: the object is patched before its status.
ReadyHasProviderID ==
    \A m \in Machines :
        stored[m].status.ready =>
            /\ stored[m].providerID # None
            /\ stored[m].providerID = ServerOf(m)

\* When the object of a machine goes, the server in its status is gone too:
\* the finalizer outlives every failed or repeated deletion.
ReleasedServer ==
    \A m \in Machines :
        ~stored[m].exists /\ ServerOf(m) # None => ~Live(ServerOf(m))

\* A live server is in the status of an existing machine, or on its way there:
\* the worker that created it has it in hand.
NoOrphan ==
    \A s \in Servers :
        Live(s) =>
            LET m == servers[s].owner
            IN  /\ stored[m].exists
                /\ \/ ServerOf(m) = s
                   \/ key = m /\ obj.status.serverID = s

\* A machine's server boots the user data its status names, which is what the
\* deletion will remove, even when the first of the two patches is lost.
ServerBootsRecordedUserData ==
    \A m \in Machines :
        ServerOf(m) # None =>
            servers[ServerOf(m)].userData = stored[m].status.userDataID

\* A machine that still has something to do, and is not paused, is in the
\* queue, in the worker's hands, or about to be enqueued by the watch: no
\* return path forgets it, except the one that says in the machine's condition
\* that no project or site was found for it.
NoLostWakeup ==
    \A m \in Machines :
        /\ stored[m].exists
        /\ ~stored[m].paused
        /\ \/ stored[m].deleting
           \/ /\ ~Settled(stored[m])
              /\ stored[m].status.condition # "InvalidSpec"
        => m \in queue \/ key = m \/ cached[m] # stored[m]

\* A failed worker has a failed control plane machine of its own cluster, or
\* was refused itself: what "control plane has failed" says.
FailedByOwnCluster ==
    \A m \in Machines :
        stored[m].status.failed =>
            \E n \in Causes(m) \intersect refused : ClusterOf[n] = ClusterOf[m]

\* The user data of a machine is created once and reused on retry, as long as
\* its record is patched and read back before the retry.
UserDataCreatedOnce ==
    \A u, v \in UserData :
        /\ userData[u].st = "live"
        /\ userData[v].st = "live"
        /\ userData[u].owner = userData[v].owner
        => u = v
-----------------------------------------------------------------------------
(***************************************************************************)
(* What a step may never do.                                               *)
(***************************************************************************)

\* No server is created for a machine that is ready or has failed.
SettledGetsNoServer ==
    [][\A s \in Servers :
         servers[s].st = "unused" /\ servers'[s].st # "unused" =>
             ~Settled(stored[servers'[s].owner])]_vars

\* A machine that is ready, or has failed for good, keeps the server it has on
\* record, whatever GetServer says of it and wherever reconciliations that
\* began before were cut short: its deletion will find it.
SettledKeepsServer ==
    [][\A m \in Machines :
         Settled(stored[m]) => ServerOf(m)' = ServerOf(m)]_vars

\* A server is dropped from a status only once it is gone.
DroppedServerIsGone ==
    [][\A m \in Machines :
         ServerOf(m) # None /\ ServerOf(m)' # ServerOf(m) =>
             ~Live(ServerOf(m))]_vars
-----------------------------------------------------------------------------
(***************************************************************************)
(* Liveness.                                                               *)
(***************************************************************************)

\* A machine that is not paused again and again becomes ready, fails for good,
\* or is deleted.
Settles ==
    \A m \in Machines :
        []<>(Settled(stored[m]) \/ stored[m].deleting \/ stored[m].paused)

\* A machine whose deletion was requested, and is not paused, goes.
DeletionCompletes ==
    \A m \in Machines :
        stored[m].deleting ~> (~stored[m].exists \/ stored[m].paused)
-----------------------------------------------------------------------------
(***************************************************************************)
(* The contract.  A machine's phase is what its status says, its claim the *)
(* server there; a server is released when Latitude.sh has deleted it.     *)
(***************************************************************************)

Phase(m) == CASE ~stored[m].exists -> "gone"
              [] stored[m].exists /\ stored[m].status.failed -> "failed"
              [] stored[m].exists /\ ~stored[m].status.failed
                                  /\ stored[m].status.ready -> "ready"
              [] OTHER -> "pending"

Contract == INSTANCE MachineContract WITH
    phase <- [m \in Machines |-> Phase(m)],
    leaving <- {m \in Machines : stored[m].deleting},
    claim <- [m \in Machines |-> ServerOf(m)],
    released <- {s \in Servers : servers[s].st = "deleted"},
    lost <- {s \in Servers : servers[s].st = "lost"}

\* The controller keeps the contract, as long as it reads what it wrote and
\* every error of GetServer means that the server is gone.
KeepsContract == Contract!Spec
=============================================================================
