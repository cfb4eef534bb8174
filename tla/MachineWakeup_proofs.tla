------------------------ MODULE MachineWakeup_proofs ------------------------
(***************************************************************************)
(* No return path of the LatitudeMachine controller forgets a machine but  *)
(* one, which says so in the machine's condition: for every set of         *)
(* machines, clusters and IDs and every set of Events, stale caches and    *)
(* failing reads included.                                                 *)
(***************************************************************************)
EXTENDS LatitudeMachine_proofs

\* An object the controller has something to do for, and has not given up on for
\* want of a project or a site.
Asks(o) ==
    /\ o.exists
    /\ ~o.paused
    /\ o.deleting \/ (~Settled(o) /\ o.status.condition # "InvalidSpec")

\* The fields only the controller writes: when the cache is behind on one of
\* them, the watch has an event to deliver.
Written(o) == <<o.finalizer, o.providerID, o.status>>

\* The cache shows no machine that asks and is neither queued, nor worked on,
\* nor about to be enqueued; and it shows the worker's machine as it was read,
\* unless the watch has enqueued that again.
Noticed ==
    /\ \A m \in Machines :
         Asks(cached[m]) =>
           m \in queue \/ key = m \/ Written(stored[m]) # Written(cached[m])
    /\ key # None /\ key \notin queue => cached[key] = before

\* A finalizer keeps an object that is being deleted, and goes with it.
Finalized(o) == (o.exists /\ o.deleting => o.finalizer) /\ (~o.exists => ~o.finalizer)

AllFinalized == \A m \in Machines : Finalized(stored[m]) /\ Finalized(cached[m])

GoingTo(p) == pc = p \/ (pc \in {"patchObject", "patchStatus"} /\ then = p)

\* A reconciliation that ends without asking for another has changed, or is
\* about to change, what only the controller writes.
HandsBack ==
    then = "return" /\ ~again =>
      /\ pc = "patchObject" => SpecChanged \/ StatusChanged \/ ~Asks(before)
      /\ pc = "patchStatus" =>
           \/ stored[key].finalizer # before.finalizer
           \/ stored[key].providerID # before.providerID
           \/ StatusChanged
           \/ ~Asks(before)

Worked ==
    /\ before.exists /\ Finalized(before)
    /\ obj.deleting = before.deleting
    /\ pc = "reconcileNormal" => obj = before /\ ~before.deleting
    /\ pc \in {"reconcileDelete", "deleteUserData"} =>
         obj = before /\ before.deleting
    /\ GoingTo("reconcileServer") \/ GoingTo("createServer") \/ GoingTo("attach") =>
         ~Settled(before) /\ ~SpecChanged
    /\ HandsBack

Inv == AllFinalized /\ Noticed /\ (key # None => Worked)

-----------------------------------------------------------------------------
(***************************************************************************)
(* The handlers.                                                           *)
(***************************************************************************)

\* A handler leaves the API server, the cache and the queue alone: what it has
\* to answer for is the worker's object.
LEMMA HandlerStep ==
    ASSUME Inv, key # None, Worked', UNCHANGED <<api, queue, key, before>>
    PROVE  Inv'
BY DEF Inv, AllFinalized, Noticed, api

LEMMA ReturnStep ==
    ASSUME Inv, key # None, NEW o, NEW r \in BOOLEAN, Return(o, r),
           o.deleting = obj.deleting,
           \/ r
           \/ o.finalizer # before.finalizer
           \/ o.providerID # before.providerID
           \/ o.status # before.status
           \/ ~Asks(before),
           UNCHANGED <<api, queue>>
    PROVE  Inv'
<1>1. /\ obj' = o /\ again' = r
      /\ then' = "return" /\ pc' = "patchObject"
      /\ UNCHANGED <<key, before>>
  BY DEF Return
<1>2. HandsBack'
  BY <1>1 DEF HandsBack, SpecChanged, StatusChanged
<1>3. Worked'
  BY <1>1, <1>2 DEF Inv, Worked, GoingTo
<1> QED BY <1>1, <1>3, HandlerStep

\* The handler goes on towards a server, or towards it through a patch.
LEMMA ProvisionStep ==
    ASSUME Inv, key # None, UNCHANGED <<api, queue, key, before>>,
           obj'.deleting = obj.deleting,
           obj'.finalizer = before.finalizer,
           obj'.providerID = before.providerID,
           ~Settled(before),
           \/ pc' \in {"reconcileServer", "createServer"}
           \/ pc' = "patchObject" /\ then' \in {"createServer", "attach"}
    PROVE  Inv'
<1>1. HandsBack'
  BY DEF HandsBack
<1>2. ~SpecChanged'
  BY DEF SpecChanged
<1>3. Worked'
  BY <1>1, <1>2 DEF Inv, Worked
<1> QED BY <1>3, HandlerStep

\* Setting the condition leaves the rest of the object.
LEMMA ConditionKeeps ==
    ASSUME NEW o \in Object, NEW c
    PROVE  LET p == SetCondition(o, c)
           IN  /\ p.deleting = o.deleting
               /\ p.finalizer = o.finalizer
               /\ p.providerID = o.providerID
BY DEF SetCondition, Object

LEMMA ReconcileNormalWakes ==
    ASSUME TypeOK, Inv, ReconcileNormal
    PROVE  Inv'
<1>1. pc = "reconcileNormal" /\ key # None
  BY DEF TypeOK, WorkerOK, ReconcileNormal, AddFinalizer, SkipSettled,
         WaitForOwner, RejectWorker, RejectSpec, StartServer, Unsettled
<1>2. /\ obj = before /\ ~before.deleting
      /\ obj \in Object /\ obj.status \in Status
  BY <1>1 DEF Inv, Worked, TypeOK, WorkerOK, Object
<1>3. UNCHANGED <<api, queue>>
  BY DEF ReconcileNormal, AddFinalizer, SkipSettled, WaitForOwner, RejectWorker,
         RejectSpec, StartServer
<1>4. CASE AddFinalizer
  <2> DEFINE o == [obj EXCEPT !.finalizer = TRUE]
  <2>1. o.deleting = obj.deleting /\ o.finalizer # before.finalizer
    BY <1>2, <1>4 DEF AddFinalizer, Object
  <2>2. Return(o, FALSE)
    BY <1>4 DEF AddFinalizer
  <2> HIDE DEF o
  <2> QED BY <1>1, <1>3, <2>1, <2>2, ReturnStep
<1>5. CASE SkipSettled
  <2>1. Return(obj, FALSE) /\ ~Asks(before)
    BY <1>2, <1>5 DEF SkipSettled, Asks
  <2> QED BY <1>1, <1>3, <2>1, ReturnStep
<1>6. CASE WaitForOwner
  <2>1. Return(obj, TRUE)
    BY <1>6 DEF WaitForOwner
  <2> QED BY <1>1, <1>3, <2>1, ReturnStep
<1>7. CASE RejectWorker
  <2> DEFINE o == SetMachineFailed(obj)
  <2>1. o.deleting = obj.deleting /\ o.status.failed = TRUE
    BY <1>2 DEF SetMachineFailed, SetCondition, Object, Status
  <2>2. before.status.failed = FALSE
    BY <1>2, <1>7 DEF RejectWorker, Unsettled, Settled, Status
  <2>3. Return(o, FALSE)
    BY <1>7 DEF RejectWorker
  <2> HIDE DEF o
  <2> QED BY <1>1, <1>3, <2>1, <2>2, <2>3, ReturnStep
<1>8. CASE RejectSpec
  <2> DEFINE o == SetCondition(obj, "InvalidSpec")
  <2>1. o.deleting = obj.deleting /\ o.status.condition = "InvalidSpec"
    BY <1>2 DEF SetCondition, Object, Status
  <2>2. before.status.condition = "InvalidSpec" => ~Asks(before)
    BY <1>2 DEF Asks
  <2>3. Return(o, FALSE)
    BY <1>8 DEF RejectSpec
  <2> HIDE DEF o
  <2> QED BY <1>1, <1>3, <2>1, <2>2, <2>3, ReturnStep
<1>9. CASE StartServer
  <2>1. /\ pc' = "reconcileServer" /\ UNCHANGED <<key, before, obj>>
        /\ ~Settled(before)
    BY <1>2, <1>9 DEF StartServer, Unsettled, GoTo
  <2> QED BY <1>1, <1>2, <1>3, <2>1, ProvisionStep
<1> QED BY <1>4, <1>5, <1>6, <1>7, <1>8, <1>9 DEF ReconcileNormal

\* An answer that asks for another reconciliation.
LEMMA AskAgainStep ==
    ASSUME TypeOK, Inv, key # None, NEW c, Return(SetCondition(obj, c), TRUE),
           UNCHANGED <<api, queue>>
    PROVE  Inv'
<1>1. SetCondition(obj, c).deleting = obj.deleting
  BY ConditionKeeps DEF TypeOK, WorkerOK
<1> QED BY <1>1, ReturnStep

LEMMA ReconcileServerWakes ==
    ASSUME TypeOK, Inv, ReconcileServer
    PROVE  Inv'
<1>1. /\ key # None
      /\ GoingTo("reconcileServer") \/ GoingTo("createServer") \/ GoingTo("attach")
  BY DEF TypeOK, WorkerOK, ReconcileServer, ServerRunning, ServerStarting,
         ServerLost, WaitForBootstrap, ReuseUserData, CreateUserData,
         CreateUserDataReplyLost, CreateServer, CreateServerReplyLost,
         CreateServerOutOfStock, RequestFails, AttachServer, NeedsUserData, Known,
         Creating, AtServer, GoingTo
<1>2. /\ obj \in Object /\ obj.status \in Status
      /\ before \in Object /\ before.status \in Status
  BY DEF TypeOK, WorkerOK, Object
<1>3. ~Settled(before) /\ ~SpecChanged
  BY <1>1 DEF Inv, Worked
<1>4. UNCHANGED <<api, queue>>
  BY DEF ReconcileServer, ServerRunning, ServerStarting, ServerLost,
         WaitForBootstrap, ReuseUserData, CreateUserData,
         CreateUserDataReplyLost, CreateServer, CreateServerReplyLost,
         CreateServerOutOfStock, RequestFails, AttachServer
<1>5. CASE ServerRunning
  <2> DEFINE status == [obj.status EXCEPT
                          !.ready = TRUE,
                          !.address = servers[obj.status.serverID].address,
                          !.condition = "Ready"]
             o == [obj EXCEPT !.providerID = obj.status.serverID,
                              !.status = status]
  <2>1. status.ready = TRUE /\ before.status.ready = FALSE
    BY <1>2, <1>3 DEF Settled, Status
  <2>2. o.deleting = obj.deleting /\ o.status = status
    BY <1>2 DEF Object
  <2>3. Return(o, FALSE)
    BY <1>5 DEF ServerRunning
  <2> HIDE DEF status, o
  <2> QED BY <1>1, <1>4, <2>1, <2>2, <2>3, ReturnStep
<1>6. CASE ServerStarting \/ WaitForBootstrap \/ RequestFails \/ AttachServer
  <2>1. PICK c : Return(SetCondition(obj, c), TRUE)
    BY <1>6 DEF ServerStarting, WaitForBootstrap, RequestFails, AttachServer,
                RetryLater
  <2> QED BY <1>1, <1>4, <2>1, AskAgainStep
<1>7. CASE ServerLost
  <2>1. /\ obj' = [obj EXCEPT !.status.serverID = None]
        /\ pc' = "reconcileServer" /\ UNCHANGED <<key, before>>
    BY <1>7 DEF ServerLost, Known, AtServer
  <2>2. /\ obj'.deleting = obj.deleting
        /\ obj'.finalizer = before.finalizer
        /\ obj'.providerID = before.providerID
    BY <1>2, <1>3, <2>1 DEF SpecChanged, Object
  <2> QED BY <1>1, <1>3, <1>4, <2>1, <2>2, ProvisionStep
<1>8. CASE ReuseUserData
  <2>1. pc' = "createServer" /\ UNCHANGED <<key, before, obj>>
    BY <1>8 DEF ReuseUserData, GoTo
  <2> QED BY <1>1, <1>3, <1>4, <2>1, ProvisionStep DEF SpecChanged
<1>9. ASSUME NEW u \in UserData, CreateUserData(u) \/ CreateUserDataReplyLost(u)
      PROVE  Inv'
  <2>1. CASE CreateUserData(u)
    <3>1. /\ obj' \in {obj, [obj EXCEPT !.status.userDataID = u]}
          /\ pc' = "patchObject" /\ then' = "createServer"
          /\ UNCHANGED <<key, before>>
      BY <2>1 DEF CreateUserData, Persist
    <3>2. /\ obj'.deleting = obj.deleting
          /\ obj'.finalizer = before.finalizer
          /\ obj'.providerID = before.providerID
      BY <1>2, <1>3, <3>1 DEF SpecChanged, Object
    <3> QED BY <1>1, <1>3, <1>4, <3>1, <3>2, ProvisionStep
  <2>2. CASE CreateUserDataReplyLost(u)
    BY <1>1, <1>4, <2>2, AskAgainStep DEF CreateUserDataReplyLost, RetryLater
  <2> QED BY <1>9, <2>1, <2>2
<1>10. ASSUME NEW s \in Servers, CreateServer(s) \/ CreateServerReplyLost(s)
       PROVE  Inv'
  <2>1. CASE CreateServer(s)
    <3>1. /\ obj' = [obj EXCEPT !.status.serverID = s]
          /\ pc' = "patchObject" /\ then' = "attach"
          /\ UNCHANGED <<key, before>>
      BY <2>1 DEF CreateServer, Persist
    <3>2. /\ obj'.deleting = obj.deleting
          /\ obj'.finalizer = before.finalizer
          /\ obj'.providerID = before.providerID
      BY <1>2, <1>3, <3>1 DEF SpecChanged, Object
    <3> QED BY <1>1, <1>3, <1>4, <3>1, <3>2, ProvisionStep
  <2>2. CASE CreateServerReplyLost(s)
    BY <1>1, <1>4, <2>2, AskAgainStep DEF CreateServerReplyLost, RetryLater
  <2> QED BY <1>10, <2>1, <2>2
<1>11. CASE CreateServerOutOfStock
  <2> DEFINE o == SetMachineFailed(obj)
  <2>1. o.deleting = obj.deleting
    BY <1>2 DEF SetMachineFailed, SetCondition, Object
  <2>2. Return(o, TRUE)
    BY <1>11 DEF CreateServerOutOfStock
  <2> HIDE DEF o
  <2> QED BY <1>1, <1>4, <2>1, <2>2, ReturnStep
<1> QED BY <1>5, <1>6, <1>7, <1>8, <1>9, <1>10, <1>11 DEF ReconcileServer

LEMMA ReconcileDeleteWakes ==
    ASSUME TypeOK, Inv, ReconcileDelete
    PROVE  Inv'
<1>1. key # None /\ pc \in {"reconcileDelete", "deleteUserData"}
  BY DEF TypeOK, WorkerOK, ReconcileDelete, NoServerToDelete, DeleteServer,
         RemoveServer, DeleteServerReplyLost, DeleteServerFails, DeleteUserData
<1>2. obj = before /\ before.deleting /\ before.finalizer /\ obj \in Object
  BY <1>1 DEF Inv, Worked, Finalized, TypeOK, WorkerOK
<1>3. UNCHANGED <<api, queue>>
  BY DEF ReconcileDelete, NoServerToDelete, DeleteServer, DeleteServerReplyLost,
         DeleteServerFails, DeleteUserData
<1>4. CASE NoServerToDelete \/ DeleteServer
  <2>1. pc' = "deleteUserData" /\ UNCHANGED <<key, before, obj, then, again>>
    BY <1>4 DEF NoServerToDelete, DeleteServer, GoTo
  <2>2. Worked'
    BY <1>1, <1>2, <2>1 DEF Inv, Worked, HandsBack, GoingTo
  <2> QED BY <1>1, <1>3, <2>1, <2>2, HandlerStep
<1>5. CASE DeleteServerReplyLost \/ DeleteServerFails
  BY <1>1, <1>3, <1>5, AskAgainStep
     DEF DeleteServerReplyLost, DeleteServerFails, DeletionFails
<1>6. CASE DeleteUserData
  <2> DEFINE o == [obj EXCEPT !.finalizer = FALSE]
  <2>1. o.deleting = obj.deleting /\ o.finalizer # before.finalizer
    BY <1>2 DEF Object
  <2>2. Return(o, FALSE)
    BY <1>6 DEF DeleteUserData
  <2> HIDE DEF o
  <2> QED BY <1>1, <1>3, <2>1, <2>2, ReturnStep
<1> QED BY <1>4, <1>5, <1>6 DEF ReconcileDelete

-----------------------------------------------------------------------------
(***************************************************************************)
(* The patch helper.                                                       *)
(***************************************************************************)

LEMMA PatchObjectWakes ==
    ASSUME TypeOK, Inv, PatchObject
    PROVE  Inv'
<1>1. /\ pc = "patchObject" /\ pc' = "patchStatus"
      /\ SpecChanged /\ stored[key].exists
      /\ stored' = [stored EXCEPT ![key] = MergeSpec(before, obj, stored[key])]
      /\ UNCHANGED <<cached, queue, key, before, obj, then, again>>
  BY DEF PatchObject, GoTo
<1>2. /\ key # None /\ key \in Machines
      /\ stored \in [Machines -> Object] /\ stored[key] \in Object
      /\ before \in Object /\ obj \in Object
  BY <1>1 DEF TypeOK, ApiOK, WorkerOK
<1>3. /\ \A m \in Machines : m # key => stored'[m] = stored[m]
      /\ stored'[key] = MergeSpec(before, obj, stored[key])
  BY <1>1, <1>2
<1>4. Worked
  BY <1>2 DEF Inv
<1>5. Finalized(stored'[key])
  BY <1>1, <1>2, <1>3 DEF MergeSpec, Finalized, Object
<1>6. AllFinalized'
  <2> SUFFICES ASSUME NEW m \in Machines
               PROVE  Finalized(stored'[m]) /\ Finalized(cached'[m])
    BY DEF AllFinalized
  <2>1. Finalized(stored[m]) /\ Finalized(cached[m])
    BY DEF Inv, AllFinalized
  <2> QED BY <1>1, <1>3, <1>5, <2>1
<1>7. Noticed'
  BY <1>1, <1>3 DEF Inv, Noticed
<1>8. \/ stored'[key].finalizer # before.finalizer
      \/ stored'[key].providerID # before.providerID
  <2>1. /\ stored'[key].finalizer =
             Merged(before.finalizer, obj.finalizer, stored[key].finalizer)
        /\ stored'[key].providerID =
             Merged(before.providerID, obj.providerID, stored[key].providerID)
    BY <1>2, <1>3 DEF MergeSpec, Object
  <2> QED BY <1>1, <2>1 DEF SpecChanged, Merged
<1>9. HandsBack'
  BY <1>1, <1>8 DEF HandsBack
<1>10. Worked'
  BY <1>1, <1>4, <1>9 DEF Worked, GoingTo, SpecChanged
<1> QED BY <1>1, <1>2, <1>6, <1>7, <1>10 DEF Inv

LEMMA KeepObjectWakes ==
    ASSUME TypeOK, Inv, SkipPatchObject \/ PatchObjectFails
    PROVE  Inv'
<1>1. /\ pc = "patchObject" /\ pc' = "patchStatus"
      /\ UNCHANGED <<api, queue, key, before, obj, then>>
  BY DEF SkipPatchObject, PatchObjectFails, GoTo
<1>2. key # None
  BY <1>1 DEF TypeOK, WorkerOK
<1>3. then = "return" /\ ~again' => ~again /\ ~SpecChanged
  BY DEF SkipPatchObject, PatchObjectFails, GoTo
<1>4. HandsBack'
  BY <1>1, <1>2, <1>3 DEF Inv, Worked, HandsBack, StatusChanged
<1>5. Worked'
  BY <1>1, <1>2, <1>4 DEF Inv, Worked, GoingTo, SpecChanged
<1> QED BY <1>1, <1>2, <1>5, HandlerStep

\* The second patch is done or given up.  If the reconciliation ends there, the
\* machine is queued, has changed since it was read, or asks for nothing.
LEMMA PatchedWakes ==
    ASSUME TypeOK, Inv, pc = "patchStatus", NEW failed \in BOOLEAN, Patched(failed),
           UNCHANGED cached,
           \A m \in Machines : m # key => stored'[m] = stored[m],
           Finalized(stored'[key]),
           then = "return" /\ ~again /\ ~failed =>
             Written(stored'[key]) # Written(before) \/ ~Asks(before)
    PROVE  Inv'
<1>1. key \in Machines /\ key # None
  BY DEF TypeOK, WorkerOK
<1>2. AllFinalized'
  BY DEF Inv, AllFinalized
<1>3. CASE then # "return" /\ GoTo(then) /\ UNCHANGED queue
  <2>1. /\ UNCHANGED <<key, before, obj, then, again>>
        /\ pc' = then /\ then \in {"createServer", "attach"}
    BY <1>3 DEF GoTo, TypeOK, WorkerOK
  <2>2. Noticed'
    BY <1>1, <1>3, <2>1 DEF Inv, Noticed
  <2>3. HandsBack'
    BY <2>1 DEF HandsBack
  <2>4. Worked'
    BY <1>1, <2>1, <2>3 DEF Inv, Worked, GoingTo, SpecChanged
  <2> QED BY <1>2, <2>2, <2>4 DEF Inv
<1>4. CASE /\ then = "return" /\ Rest
           /\ queue' = IF again \/ failed THEN queue \union {key} ELSE queue
  <2>1. key' = None
    BY <1>4 DEF Rest
  <2>2. \A m \in Machines : 
          Asks(cached[m]) => m \in queue' \/ Written(stored'[m]) # Written(cached[m])
    <3> SUFFICES ASSUME NEW m \in Machines, Asks(cached[m]), m \notin queue'
                 PROVE  Written(stored'[m]) # Written(cached[m])
      OBVIOUS
    <3>1. m \notin queue /\ (m = key => ~again /\ ~failed)
      BY <1>4
    <3>2. CASE m # key
      BY <3>1, <3>2 DEF Inv, Noticed
    <3>3. CASE m = key
      <4>1. cached[key] = before
        BY <1>1, <3>1, <3>3 DEF Inv, Noticed
      <4> QED BY <1>4, <3>1, <3>3, <4>1
    <3> QED BY <3>2, <3>3
  <2> QED BY <1>2, <2>1, <2>2 DEF Inv, Noticed
<1> QED BY <1>3, <1>4 DEF Patched

LEMMA PatchStatusWakes ==
    ASSUME TypeOK, Inv, PatchStatus \/ SkipPatchStatus \/ PatchStatusFails
    PROVE  Inv'
<1>1. /\ pc = "patchStatus" /\ UNCHANGED cached
      /\ key # None /\ key \in Machines
      /\ stored \in [Machines -> Object] /\ stored[key] \in Object
      /\ before \in Object /\ obj \in Object
  BY DEF PatchStatus, SkipPatchStatus, PatchStatusFails, api, TypeOK, ApiOK,
         WorkerOK
<1>2. Worked /\ Finalized(stored[key])
  BY <1>1 DEF Inv, AllFinalized
<1>3. then = "return" /\ ~again =>
        \/ Written(stored[key]) # Written(before)
        \/ StatusChanged
        \/ ~Asks(before)
  BY <1>1, <1>2 DEF Worked, HandsBack, Written
<1>4. CASE PatchStatus
  <2> DEFINE status == MergeStatus(before.status, obj.status, stored[key].status)
  <2>1. /\ StatusChanged /\ Patched(FALSE)
        /\ stored' = [stored EXCEPT ![key].status = status]
    BY <1>4 DEF PatchStatus
  <2>2. status # before.status
    <3>1. before.status \in Status /\ obj.status \in Status
      BY <1>1 DEF Object
    <3>2. SUFFICES ASSUME status = before.status
                   PROVE  obj.status = before.status
      BY <2>1 DEF StatusChanged
    <3>3. /\ obj.status.ready = before.status.ready
          /\ obj.status.failed = before.status.failed
          /\ obj.status.address = before.status.address
          /\ obj.status.serverID = before.status.serverID
          /\ obj.status.userDataID = before.status.userDataID
          /\ obj.status.condition = before.status.condition
      BY <3>2 DEF MergeStatus, Merged
    <3> QED BY <3>1, <3>3 DEF Status
  <2> HIDE DEF status
  <2>3. /\ \A m \in Machines : m # key => stored'[m] = stored[m]
        /\ stored'[key].status = status
        /\ stored'[key].exists = stored[key].exists
        /\ stored'[key].deleting = stored[key].deleting
        /\ stored'[key].finalizer = stored[key].finalizer
    BY <1>1, <2>1 DEF Object
  <2>4. Finalized(stored'[key])
    BY <1>2, <2>3 DEF Finalized
  <2>5. Written(stored'[key]) # Written(before)
    BY <2>2, <2>3 DEF Written
  <2> QED BY <1>1, <2>1, <2>3, <2>4, <2>5, PatchedWakes
<1>5. CASE SkipPatchStatus
  BY <1>1, <1>2, <1>3, <1>5, PatchedWakes DEF SkipPatchStatus, api
<1>6. CASE PatchStatusFails
  <2>1. CASE Patched(TRUE)
    BY <1>1, <1>2, <1>6, <2>1, PatchedWakes DEF PatchStatusFails, api
  <2>2. CASE ~stored[key].exists /\ Patched(~obj.deleting \/ obj.finalizer)
    <3> DEFINE failed == ~obj.deleting \/ obj.finalizer
    <3>1. failed \in BOOLEAN
      BY <1>1 DEF Object
    <3>2. ~failed => Written(stored[key]) # Written(before)
      <4>1. ~failed => before.deleting /\ before.finalizer
        BY <1>2 DEF Worked, Finalized
      <4> QED BY <1>1, <1>2, <2>2, <4>1 DEF Finalized, Written, Object
    <3>3. UNCHANGED stored /\ Patched(failed)
      BY <1>6, <2>2 DEF PatchStatusFails, api
    <3> HIDE DEF failed
    <3> QED BY <1>1, <1>2, <3>1, <3>2, <3>3, PatchedWakes
  <2> QED BY <1>6, <2>1, <2>2 DEF PatchStatusFails
<1> QED BY <1>4, <1>5, <1>6

LEMMA PatchWakes ==
    ASSUME TypeOK, Inv, Patch
    PROVE  Inv'
BY PatchObjectWakes, KeepObjectWakes, PatchStatusWakes DEF Patch

-----------------------------------------------------------------------------
(***************************************************************************)
(* The queue, the watch, and everybody else.                               *)
(***************************************************************************)

LEMMA ReconcileWakes ==
    ASSUME TypeOK, Inv, NEW m \in Machines, ReconcileGone(m) \/ Reconcile(m)
    PROVE  Inv'
<1>1. pc = "idle" /\ key = None /\ m # None /\ UNCHANGED api
  BY MachineAssumption DEF ReconcileGone, Reconcile, TypeOK, WorkerOK
<1>2. AllFinalized'
  BY <1>1 DEF Inv, AllFinalized, api
<1>3. \A n \in Machines :
        Asks(cached[n]) => n \in queue \/ Written(stored[n]) # Written(cached[n])
  BY <1>1, MachineAssumption DEF Inv, Noticed
<1>4. CASE ReconcileGone(m)
  <2>1. UNCHANGED key /\ queue' = queue \ {m} /\ ~Asks(cached[m])
    BY <1>4 DEF ReconcileGone, worker, Asks
  <2> QED BY <1>1, <1>2, <1>3, <2>1 DEF Inv, Noticed, api
<1>5. CASE Reconcile(m)
  <2>1. /\ key' = m /\ queue' = queue \ {m}
        /\ before' = cached[m] /\ obj' = cached[m]
        /\ cached[m].exists
        /\ then' = "return" /\ again' = FALSE
    BY <1>5 DEF Reconcile
  <2>2. Noticed'
    BY <1>1, <1>3, <2>1 DEF Noticed, api
  <2>3. \/ pc' = "patchObject" /\ cached[m].paused
        \/ pc' = "reconcileDelete" /\ cached[m].deleting
        \/ pc' = "reconcileNormal" /\ ~cached[m].deleting
    BY <1>5 DEF Reconcile, TypeOK, ApiOK, Object
  <2>4. Finalized(cached[m])
    BY DEF Inv, AllFinalized
  <2>5. Worked'
    BY <2>1, <2>3, <2>4 DEF Worked, HandsBack, GoingTo, Asks
  <2> QED BY <1>2, <2>2, <2>5 DEF Inv
<1> QED BY <1>4, <1>5

LEMMA CacheSyncWakes ==
    ASSUME TypeOK, Inv, NEW m \in Machines, CacheSync(m)
    PROVE  Inv'
<1>1. /\ cached' = [cached EXCEPT ![m] = stored[m]]
      /\ cached \in [Machines -> Object]
      /\ queue' = queue \union {m}
      /\ UNCHANGED <<stored, pc, key, before, obj, then, again>>
  BY DEF CacheSync, worker, TypeOK, ApiOK
<1>2. cached'[m] = stored[m] /\ \A n \in Machines : n # m => cached'[n] = cached[n]
  BY <1>1
<1>3. AllFinalized'
  BY <1>1, <1>2 DEF Inv, AllFinalized
<1>4. Noticed'
  <2>1. ASSUME NEW n \in Machines, Asks(cached'[n]), n \notin queue', key # n
        PROVE  Written(stored[n]) # Written(cached'[n])
    BY <1>1, <1>2, <2>1 DEF Inv, Noticed
  <2>2. key # None /\ key \notin queue' => cached'[key] = before
    <3>1. key # None => key \in Machines
      BY DEF TypeOK, WorkerOK
    <3> QED BY <1>1, <1>2, <3>1 DEF Inv, Noticed
  <2> QED BY <1>1, <2>1, <2>2 DEF Noticed
<1>5. key # None => Worked'
  BY <1>1 DEF Inv, Worked, HandsBack, GoingTo, SpecChanged, StatusChanged
<1> QED BY <1>1, <1>3, <1>4, <1>5 DEF Inv

LEMMA CrashRestartWakes ==
    ASSUME TypeOK, Inv, CrashRestart
    PROVE  Inv'
<1>1. /\ cached' = stored /\ queue' = Existing /\ key' = None
      /\ UNCHANGED stored
  BY DEF CrashRestart, Rest
<1> QED BY <1>1
        DEF Inv, AllFinalized, Noticed, Asks, Existing

\* A user, or cluster-api, changes what the controller never writes.
LEMMA EditMachineWakes ==
    ASSUME TypeOK, Inv, NEW m \in Machines, NEW o, EditMachine(m, o),
           Written(o) = Written(stored[m]), Finalized(o)
    PROVE  Inv'
<1>1. /\ stored' = [stored EXCEPT ![m] = o]
      /\ stored \in [Machines -> Object]
      /\ UNCHANGED <<cached, queue, pc, key, before, obj, then, again>>
  BY DEF EditMachine, worker, TypeOK, ApiOK
<1>2. /\ stored'[m] = o
      /\ \A n \in Machines : n # m => stored'[n] = stored[n]
  BY <1>1
<1>3. \A n \in Machines : Written(stored'[n]) = Written(stored[n])
  BY <1>2
<1>4. AllFinalized'
  <2> SUFFICES ASSUME NEW n \in Machines
               PROVE  Finalized(stored'[n]) /\ Finalized(cached[n])
    BY <1>1 DEF AllFinalized
  <2>1. Finalized(stored[n]) /\ Finalized(cached[n])
    BY DEF Inv, AllFinalized
  <2> QED BY <1>2, <2>1
<1>5. Noticed'
  BY <1>1, <1>3 DEF Inv, Noticed
<1>6. ASSUME key # None
      PROVE  Worked'
  <2>1. /\ stored'[key].finalizer = stored[key].finalizer
        /\ stored'[key].providerID = stored[key].providerID
    BY <1>3, <1>6 DEF Written, TypeOK, WorkerOK
  <2>2. Worked
    BY <1>6 DEF Inv
  <2>3. HandsBack'
    BY <1>1, <2>1, <2>2 DEF Worked, HandsBack, SpecChanged, StatusChanged
  <2> QED BY <1>1, <2>2, <2>3 DEF Worked, GoingTo, SpecChanged
<1> QED BY <1>1, <1>4, <1>5, <1>6 DEF Inv

LEMMA EditWakes ==
    ASSUME TypeOK, Inv, NEW m \in Machines,
           DeleteMachine(m) \/ SetPaused(m) \/ SetOwner(m)
    PROVE  Inv'
<1>1. stored[m] \in Object /\ Finalized(stored[m])
  BY DEF TypeOK, ApiOK, Inv, AllFinalized
<1>2. PICK o : /\ EditMachine(m, o)
               /\ o \in {[stored[m] EXCEPT !.deleting = TRUE,
                                           !.exists = stored[m].finalizer],
                         [stored[m] EXCEPT !.paused = ~@],
                         [stored[m] EXCEPT !.owned = TRUE]}
  BY DEF DeleteMachine, SetPaused, SetOwner
<1>3. stored[m].exists
  BY <1>2 DEF EditMachine
<1>4. Written(o) = Written(stored[m])
  BY <1>1, <1>2 DEF Written, Object
<1>5. Finalized(o)
  BY <1>1, <1>2, <1>3 DEF Finalized, Object
<1> QED BY <1>2, <1>4, <1>5, EditMachineWakes

\* Steps that concern neither the objects nor the worker.
LEMMA OtherWakes ==
    ASSUME Inv, UNCHANGED <<api, queue, worker>>
    PROVE  Inv'
BY DEF Inv, AllFinalized, Noticed, Worked, HandsBack, GoingTo, SpecChanged,
       StatusChanged, api, worker

LEMMA NextWakes == TypeOK /\ Inv /\ [Next]_vars => Inv'
<1> SUFFICES ASSUME TypeOK, Inv, [Next]_vars
             PROVE  Inv'
  OBVIOUS
<1>2. CASE UNCHANGED vars
  BY <1>2, OtherWakes DEF vars
<1>3. ASSUME NEW m \in Machines, ReconcileGone(m) \/ Reconcile(m)
      PROVE  Inv'
  BY <1>3, ReconcileWakes
<1>4. ASSUME NEW m \in Machines, CacheSync(m)
      PROVE  Inv'
  BY <1>4, CacheSyncWakes
<1>5. CASE Continue
  BY <1>5, ReconcileNormalWakes, ReconcileServerWakes, ReconcileDeleteWakes,
     PatchWakes DEF Continue
<1>6. CASE Environment
  <2>1. CASE CrashRestart
    BY <2>1, CrashRestartWakes
  <2>2. ASSUME NEW m \in Machines, DeleteMachine(m) \/ SetPaused(m) \/ SetOwner(m)
        PROVE  Inv'
    BY <2>2, EditWakes
  <2>3. ASSUME NEW m \in Machines, PublishBootstrap(m)
        PROVE  Inv'
    BY <2>3, OtherWakes DEF PublishBootstrap
  <2>4. ASSUME NEW c \in Clusters, AdvanceCluster(c) \/ RecordVLAN(c)
        PROVE  Inv'
    BY <2>4, OtherWakes DEF AdvanceCluster, RecordVLAN
  <2>5. ASSUME NEW s \in Servers, PowerOn(s) \/ RemoveExternally(s)
        PROVE  Inv'
    BY <2>5, OtherWakes DEF PowerOn, RemoveExternally
  <2> QED BY <1>6, <2>1, <2>2, <2>3, <2>4, <2>5 DEF Environment
<1> QED BY <1>2, <1>3, <1>4, <1>5, <1>6 DEF Next

LEMMA InitWakes == Init => Inv
<1> SUFFICES ASSUME Init
             PROVE  Inv
  OBVIOUS
<1>1. AllFinalized
  BY DEF Init, ControllerInit, AllFinalized, Finalized, NewMachine
<1>2. Noticed /\ key = None
  BY DEF Init, ControllerInit, Noticed
<1> QED BY <1>1, <1>2 DEF Inv

\* Every way out of a reconciliation, and every error on the way, either asks for
\* another one or writes something the watch will deliver, even of a
\* reconciliation that read a stale cache or was cut short by a crash: a machine
\* with work left is forgotten only where validateMachineSpec has said, in the
\* condition the machine still has, that it finds no project or no site for it.
THEOREM NoMachineForgotten == Spec => []NoLostWakeup
<1>1. Inv => NoLostWakeup
  BY DEF Inv, Noticed, Asks, NoLostWakeup
<1> QED BY <1>1, InitWakes, TypeCorrect, NextWakes, PTL DEF Spec
=============================================================================
