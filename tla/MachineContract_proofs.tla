----------------------- MODULE MachineContract_proofs -----------------------
(***************************************************************************)
(* The LatitudeMachine controller implements MachineContract, for every    *)
(* set of machines, clusters and IDs and every set of Events that lets it  *)
(* read what it has written and GetServer fail only for a server that is   *)
(* gone.  The refinement mapping is that of Contract in LatitudeMachine.   *)
(***************************************************************************)
EXTENDS MachineRecords_proofs

\* What the contract sees, under the mapping.
phase == [m \in Machines |-> Phase(m)]
leaving == {m \in Machines : stored[m].deleting}
claim == [m \in Machines |-> ServerOf(m)]
released == {s \in Servers : servers[s].st = "deleted"}
lost == {s \in Servers : servers[s].st = "lost"}

Stutter == UNCHANGED <<phase, leaving, claim, released, lost>>

LEMMA StutterAllowed == Stutter => [Contract!Next]_(Contract!vars)
BY DEF Stutter, Contract!vars, phase, leaving, claim, released, lost

LEMMA PhaseValues ==
    \A m \in Machines :
        /\ ~stored[m].exists => Phase(m) = "gone"
        /\ stored[m].exists /\ stored[m].status.failed => Phase(m) = "failed"
        /\ stored[m].exists /\ ~stored[m].status.failed /\ stored[m].status.ready
             => Phase(m) = "ready"
        /\ stored[m].exists /\ ~stored[m].status.failed /\ ~stored[m].status.ready
             => Phase(m) = "pending"
BY DEF Phase

\* Creating, starting or attaching a server is none of the contract's business.
LEMMA ServersStutter ==
    ASSUME UNCHANGED stored,
           \A s \in Servers : Deleted(s)' = Deleted(s) /\ Lost(s)' = Lost(s)
    PROVE  Stutter
<1>1. UNCHANGED <<phase, leaving, claim>>
  BY DEF phase, leaving, claim, Phase, ServerOf
<1>2. UNCHANGED <<released, lost>>
  BY DEF released, lost, Deleted, Lost
<1> QED BY <1>1, <1>2 DEF Stutter

LEMMA RemoveServerReleases ==
    ASSUME TypeOK, Inv, NEW m \in Machines, m = key, RemoveServer,
           UNCHANGED stored
    PROVE  Contract!Release(m)
<1> DEFINE s == obj.status.serverID
<1>1. /\ key # None
      /\ s # None /\ s \in Servers
      /\ servers \in [Servers -> Server]
      /\ servers' = [servers EXCEPT ![s].st = "deleted"]
      /\ servers[s].st \in {"off", "on"}
  BY TypesAtWork DEF RemoveServer, Live, TypeOK, WorkerOK, CloudOK
<1>2. ServerOf(m) = s /\ stored[m].deleting
  BY <1>1 DEF Inv, AtWork, Placed, Unshared, RemoveServer, ServerOf
<1> HIDE DEF s
<1>3. \A r \in Servers :
        servers'[r].st = IF r = s THEN "deleted" ELSE servers[r].st
  BY <1>1 DEF Server
<1>4. UNCHANGED <<phase, leaving, claim>>
  BY DEF phase, leaving, claim, Phase, ServerOf
<1>5. released' = released \union {claim[m]} /\ UNCHANGED lost
  BY <1>1, <1>2, <1>3 DEF released, lost, claim
<1>6. m \in leaving /\ claim[m] # None
  BY <1>1, <1>2 DEF leaving, claim
<1> QED BY <1>4, <1>5, <1>6
        DEF Contract!Release, phase, leaving, claim, released, lost

LEMMA RemoveExternallyLoses ==
    ASSUME TypeOK, NEW s \in Servers, RemoveExternally(s)
    PROVE  Contract!Lose(s)
<1>1. /\ servers[s].st \in {"off", "on"}
      /\ UNCHANGED stored
      /\ \A r \in Servers :
           servers'[r].st = IF r = s THEN "lost" ELSE servers[r].st
  BY DEF RemoveExternally, Live, TypeOK, CloudOK, Server, api
<1>2. UNCHANGED <<phase, leaving, claim>>
  BY <1>1 DEF phase, leaving, claim, Phase, ServerOf
<1>3. lost' = lost \union {s} /\ UNCHANGED released
  BY <1>1 DEF released, lost
<1> QED BY <1>2, <1>3 DEF Contract!Lose, phase, leaving, claim, released, lost

\* A deletion request takes a machine without a finalizer away at once: it has no
\* server then.
LEMMA DeleteMachineRequests ==
    ASSUME TypeOK, Inv, NEW m \in Machines, DeleteMachine(m)
    PROVE  Contract!RequestDeletion(m)
<1> DEFINE o == [stored[m] EXCEPT !.deleting = TRUE, !.exists = stored[m].finalizer]
<1>1. /\ stored[m].exists
      /\ stored' = [stored EXCEPT ![m] = o]
      /\ stored \in [Machines -> Object]
      /\ stored[m] \in Object
      /\ UNCHANGED servers
  BY DEF DeleteMachine, EditMachine, cloud, TypeOK, ApiOK
<1>2. /\ o.status = stored[m].status
      /\ o.exists = stored[m].finalizer
      /\ o.deleting
  BY <1>1 DEF Object
<1> HIDE DEF o
<1>3. stored'[m] = o /\ \A n \in Machines : n # m => stored'[n] = stored[n]
  BY <1>1
<1>4. UNCHANGED <<claim, released, lost>>
  BY <1>1, <1>2, <1>3 DEF claim, ServerOf, released, lost
<1>5. leaving' = leaving \union {m}
  BY <1>2, <1>3 DEF leaving
<1>6. phase[m] # "gone"
  BY <1>1, PhaseValues, <1>1 DEF phase
<1>7. CASE stored[m].finalizer
  <2>1. \A n \in Machines : Phase(n)' = Phase(n)
    BY <1>1, <1>2, <1>3, <1>7 DEF Phase, Object
  <2>2. UNCHANGED phase
    BY <2>1 DEF phase
  <2> QED BY <1>4, <1>5, <1>6, <2>2
          DEF Contract!RequestDeletion, phase, leaving, claim, released, lost
<1>8. CASE ~stored[m].finalizer
  <2>1. \A n \in Machines : Phase(n)' = IF n = m THEN "gone" ELSE Phase(n)
    BY <1>2, <1>3, <1>8 DEF Phase
  <2>2. phase' = [phase EXCEPT ![m] = "gone"]
    BY <2>1 DEF phase
  <2>3. claim[m] = None
    BY <1>1, <1>8 DEF Inv, Records, Recorded, claim
  <2> QED BY <1>4, <1>5, <1>6, <2>2, <2>3
          DEF Contract!RequestDeletion, phase, leaving, claim, released, lost
<1> QED BY <1>7, <1>8

\* The object goes with its last finalizer, which the worker takes away only
\* when the server is released.
LEMMA PatchObjectLeaves ==
    ASSUME TypeOK, Inv, NEW m \in Machines, m = key, PatchObject
    PROVE  Stutter \/ Contract!Leave(m)
<1>1. /\ key # None
      /\ SpecChanged /\ stored[m].exists
      /\ stored' = [stored EXCEPT ![m] = MergeSpec(before, obj, stored[m])]
      /\ stored \in [Machines -> Object] /\ stored[m] \in Object
      /\ UNCHANGED servers
  BY DEF PatchObject, TypeOK, ApiOK, WorkerOK, cloud
<1>2. Edited /\ Unshared(m)
  BY <1>1 DEF Inv, AtWork
<1>3. /\ \A n \in Machines : n # m => stored'[n] = stored[n]
      /\ stored'[m].status = stored[m].status
      /\ stored'[m].deleting = stored[m].deleting
      /\ stored'[m].exists = (stored[m].deleting => obj.finalizer)
  BY <1>1, <1>2, MachineAssumption DEF Unshared, MergeSpec, Merged, Object
<1>4. UNCHANGED <<leaving, claim, released, lost>>
  BY <1>1, <1>3 DEF leaving, claim, ServerOf, released, lost
<1>5. CASE stored[m].deleting => obj.finalizer
  <2>1. \A n \in Machines : Phase(n)' = Phase(n)
    BY <1>1, <1>3, <1>5 DEF Phase
  <2>2. UNCHANGED phase
    BY <2>1 DEF phase
  <2> QED BY <1>4, <2>2 DEF Stutter
<1>6. CASE stored[m].deleting /\ ~obj.finalizer
  <2>1. \A n \in Machines : Phase(n)' = IF n = m THEN "gone" ELSE Phase(n)
    BY <1>3, <1>6 DEF Phase
  <2>2. phase' = [phase EXCEPT ![m] = "gone"]
    BY <2>1 DEF phase
  <2>3. /\ before.deleting
        /\ claim[m] = obj.status.serverID
        /\ obj.status.serverID = None \/ Deleted(obj.status.serverID)
    BY <1>1, <1>2, <1>6 DEF Edited, Unshared, claim, ServerOf
  <2>4. claim[m] \in Servers \union {None}
    BY <1>1, <2>3, TypesAtWork
  <2>5. m \in leaving /\ (claim[m] # None => claim[m] \in released)
    BY <1>6, <2>3, <2>4 DEF leaving, released, Deleted
  <2> QED BY <1>4, <2>2, <2>5
          DEF Contract!Leave, phase, leaving, claim, released, lost
<1> QED BY <1>5, <1>6

\* A patch of the status may claim a server, drop one that is lost, and settle
\* the machine.
LEMMA PatchStatusAllowed ==
    ASSUME "getError" \notin Events,
           TypeOK, Inv, NEW m \in Machines, m = key, PatchStatus
    PROVE  \/ Stutter
           \/ \E s \in Servers : Contract!Claim(m, s)
           \/ Contract!Drop(m)
           \/ Contract!BecomeReady(m)
           \/ Contract!Fail(m)
<1> DEFINE new == MergeStatus(before.status, obj.status, stored[m].status)
           old == stored[m].status
<1>1. /\ key # None
      /\ stored[m].exists
      /\ stored' = [stored EXCEPT ![m].status = new]
      /\ stored \in [Machines -> Object] /\ stored[m] \in Object
      /\ UNCHANGED servers
  BY DEF PatchStatus, TypeOK, ApiOK, WorkerOK, cloud
<1>2. /\ Edited /\ Unshared(m) /\ InHand(m) /\ Records
      /\ before \in Object /\ obj \in Object
      /\ before.status \in Status /\ obj.status \in Status /\ old \in Status
  BY <1>1, TypesAtWork DEF Inv, AtWork, Object
<1>3. SameProgress(new, obj.status) /\ new.serverID = obj.status.serverID
  BY <1>1, MergedIsInHand
<1> HIDE DEF new
<1>4. /\ \A n \in Machines : n # m => stored'[n] = stored[n]
      /\ stored'[m].status = new
      /\ stored'[m].deleting = stored[m].deleting
      /\ stored'[m].exists = stored[m].exists
  BY <1>1 DEF Object
<1>5. UNCHANGED <<leaving, released, lost>>
  BY <1>1, <1>4 DEF leaving, released, lost
<1>6. /\ \A n \in Machines : Phase(n)' = IF n = m THEN Phase(m)' ELSE Phase(n)
      /\ phase' = [phase EXCEPT ![m] = Phase(m)']
      /\ claim' = [claim EXCEPT ![m] = obj.status.serverID]
  <2>1. \A n \in Machines : n # m => Phase(n)' = Phase(n)
    BY <1>4 DEF Phase
  <2>2. \A n \in Machines :
          ServerOf(n)' = IF n = m THEN obj.status.serverID ELSE ServerOf(n)
    BY <1>3, <1>4 DEF ServerOf
  <2> QED BY <2>1, <2>2 DEF phase, claim
<1>7. /\ old.ready = before.status.ready
      /\ old.failed = before.status.failed
      /\ new.ready = obj.status.ready
      /\ new.failed = obj.status.failed
  BY <1>2, <1>3 DEF Unshared, SameProgress
<1>8. old.serverID # obj.status.serverID =>
        /\ obj.status.serverID # before.status.serverID
        /\ old.serverID = None \/ (old.serverID \in Servers /\ Lost(old.serverID))
  BY <1>2 DEF Unshared, Status
<1>9. claim[m] = old.serverID /\ (old.serverID # obj.status.serverID => Contract!Free(m))
  BY <1>8 DEF claim, ServerOf, Contract!Free, lost, Lost
<1>10. obj.status.serverID = old.serverID => UNCHANGED claim
  BY <1>6, <1>9 DEF claim
<1>11. Phase(m)' = CASE new.failed -> "failed"
                     [] ~new.failed /\ new.ready -> "ready"
                     [] OTHER -> "pending"
  BY <1>1, <1>4 DEF Phase
<1>12. CASE old.failed \/ old.ready
  <2>1. /\ obj.status.serverID = old.serverID
        /\ new.failed = old.failed /\ new.ready = old.ready
    BY <1>2, <1>7, <1>8, <1>12 DEF Edited, Settled, Status
  <2>2. Phase(m)' = Phase(m)
    BY <1>1, <1>4, <2>1 DEF Phase
  <2>3. UNCHANGED phase
    BY <1>6, <2>2 DEF phase
  <2> QED BY <1>5, <1>10, <2>1, <2>3 DEF Stutter
<1>13. CASE ~old.failed /\ ~old.ready
  <2>1. phase[m] = "pending"
    BY <1>1, <1>13, PhaseValues DEF phase
  <2>2. CASE new.failed
    <3>1. phase' = [phase EXCEPT ![m] = "failed"]
      BY <1>6, <1>11, <2>2
    <3>2. obj.status.serverID \in {old.serverID, None}
      BY <1>2, <1>7, <1>13, <2>2 DEF Edited, Unshared
    <3>3. \/ UNCHANGED claim
          \/ Contract!Free(m) /\ claim' = [claim EXCEPT ![m] = None]
      BY <1>6, <1>9, <1>10, <3>2
    <3> QED BY <1>5, <2>1, <3>1, <3>3
            DEF Contract!Fail, phase, leaving, claim, released, lost
  <2>3. CASE ~new.failed /\ new.ready
    <3>1. phase' = [phase EXCEPT ![m] = "ready"]
      BY <1>6, <1>11, <2>3
    <3>2. obj.status.serverID = old.serverID /\ old.serverID # None
      BY <1>2, <1>7, <1>8, <1>13, <2>3 DEF Edited, Unshared
    <3> QED BY <1>5, <1>9, <1>10, <2>1, <3>1, <3>2
            DEF Contract!BecomeReady, phase, leaving, claim, released, lost
  <2>4. CASE ~new.failed /\ ~new.ready
    <3>1. UNCHANGED phase
      <4>1. phase' = [phase EXCEPT ![m] = phase[m]]
        BY <1>6, <1>11, <2>1, <2>4
      <4> QED BY <4>1 DEF phase
    <3>2. CASE obj.status.serverID = old.serverID
      BY <1>5, <1>10, <3>1, <3>2 DEF Stutter
    <3>3. CASE obj.status.serverID # old.serverID /\ obj.status.serverID = None
      BY <1>5, <1>6, <1>9, <2>1, <3>1, <3>3
         DEF Contract!Drop, phase, leaving, claim, released, lost
    <3>4. CASE obj.status.serverID # old.serverID /\ obj.status.serverID # None
      <4>1. PICK s \in Servers : s = obj.status.serverID
        BY <1>2, <3>4 DEF Status
      <4>2. /\ servers[s].owner = m
            /\ ~Deleted(s)
        BY <1>2, <1>8, <3>4, <4>1 DEF InHand, Edited
      <4>3. \A n \in Machines : claim[n] # s
        BY <1>2, <1>9, <3>4, <4>1, <4>2, MachineAssumption
           DEF Records, Recorded, claim
      <4>4. s \notin Contract!Claims \union released
        BY <4>2, <4>3 DEF Contract!Claims, claim, released, Deleted
      <4> QED BY <1>5, <1>6, <1>9, <2>1, <3>1, <3>4, <4>1, <4>4
              DEF Contract!Claim, phase, leaving, claim, released, lost
    <3> QED BY <3>2, <3>3, <3>4
  <2> QED BY <2>2, <2>3, <2>4
<1> QED BY <1>12, <1>13

LEMMA EditStutters ==
    ASSUME TypeOK, NEW m \in Machines, SetPaused(m) \/ SetOwner(m)
    PROVE  Stutter
<1>1. stored \in [Machines -> Object] /\ stored[m] \in Object
  BY DEF TypeOK, ApiOK
<1> DEFINE paused == [stored[m] EXCEPT !.paused = ~@]
           owned == [stored[m] EXCEPT !.owned = TRUE]
<1>2. /\ paused.exists = stored[m].exists /\ owned.exists = stored[m].exists
      /\ paused.deleting = stored[m].deleting /\ owned.deleting = stored[m].deleting
      /\ paused.status = stored[m].status /\ owned.status = stored[m].status
  BY <1>1 DEF Object
<1>3. \A n \in Machines : /\ stored'[n].exists = stored[n].exists
                         /\ stored'[n].deleting = stored[n].deleting
                         /\ stored'[n].status = stored[n].status
  <2>1. \/ stored' = [stored EXCEPT ![m] = paused]
        \/ stored' = [stored EXCEPT ![m] = owned]
    BY DEF SetPaused, SetOwner, EditMachine
  <2> HIDE DEF paused, owned
  <2> QED BY <1>1, <1>2, <2>1
<1>4. \A n \in Machines : Phase(n)' = Phase(n)
  BY <1>3 DEF Phase
<1>5. UNCHANGED servers
  BY DEF SetPaused, SetOwner, EditMachine, cloud
<1> QED BY <1>3, <1>4, <1>5
        DEF Stutter, phase, leaving, claim, ServerOf, released, lost

LEMMA ServerStepStutters ==
    ASSUME TypeOK, UNCHANGED stored,
           NEW s \in Servers, StartNewServer(s) \/ PowerOn(s)
    PROVE  Stutter
<1>1. servers \in [Servers -> Server]
  BY DEF TypeOK, CloudOK
<1>2. \A r \in Servers : Deleted(r)' = Deleted(r) /\ Lost(r)' = Lost(r)
  <2>1. CASE StartNewServer(s)
    BY <1>1, <2>1 DEF StartNewServer, Deleted, Lost
  <2>2. CASE PowerOn(s)
    <3>1. PICK a : servers' = [servers EXCEPT ![s].st = "on", ![s].address = a]
      BY <2>2 DEF PowerOn
    <3>2. servers[s].st = "off"
      BY <2>2 DEF PowerOn
    <3> QED BY <1>1, <3>1, <3>2 DEF Server, Deleted, Lost
  <2> QED BY <2>1, <2>2
<1> QED BY <1>2, ServersStutter

LEMMA AttachServerStutters ==
    ASSUME TypeOK, AttachServer
    PROVE  Stutter
<1> DEFINE s == obj.status.serverID
<1>1. /\ UNCHANGED servers \/ servers' = [servers EXCEPT ![s].vlan = TRUE]
      /\ UNCHANGED stored
      /\ servers \in [Servers -> Server]
  BY DEF AttachServer, TypeOK, CloudOK, api
<1> HIDE DEF s
<1>2. \A r \in Servers : servers'[r].st = servers[r].st
  BY <1>1 DEF Server
<1> QED BY <1>1, <1>2, ServersStutter DEF Deleted, Lost

LEMMA UnchangedStutters ==
    ASSUME UNCHANGED <<stored, servers>>
    PROVE  Stutter
BY ServersStutter DEF Deleted, Lost

LEMMA InitContract == Init => Contract!Init
BY DEF Init, ControllerInit, NewMachine, Phase, ServerOf, Contract!Init

LEMMA NextContract ==
    ASSUME "getError" \notin Events, TypeOK, Inv, [Next]_vars
    PROVE  [Contract!Next]_(Contract!vars)
<1>1. CASE \E m \in Machines : m = key /\ RemoveServer /\ UNCHANGED stored
  BY <1>1, RemoveServerReleases DEF Contract!Next
<1>2. ASSUME NEW s \in Servers, RemoveExternally(s)
      PROVE  Contract!Next
  BY <1>2, RemoveExternallyLoses DEF Contract!Next
<1>3. ASSUME NEW m \in Machines, DeleteMachine(m)
      PROVE  Contract!Next
  BY <1>3, DeleteMachineRequests DEF Contract!Next
<1>4. CASE \E m \in Machines : m = key /\ PatchObject
  BY <1>4, PatchObjectLeaves, StutterAllowed DEF Contract!Next
<1>5. CASE \E m \in Machines : m = key /\ PatchStatus
  BY <1>5, PatchStatusAllowed, StutterAllowed DEF Contract!Next
<1>6. ASSUME NEW m \in Machines, SetPaused(m) \/ SetOwner(m)
      PROVE  Stutter
  BY <1>6, EditStutters
<1>7. ASSUME NEW s \in Servers,
             CreateServer(s) \/ CreateServerReplyLost(s) \/ PowerOn(s)
      PROVE  Stutter
  BY <1>7, ServerStepStutters DEF CreateServer, CreateServerReplyLost, PowerOn, api
<1>8. CASE AttachServer
  BY <1>8, AttachServerStutters, StutterAllowed
<1>9. CASE UNCHANGED <<stored, servers>>
  BY <1>9, UnchangedStutters, StutterAllowed
<1>10. ASSUME PatchObject \/ PatchStatus \/ RemoveServer
       PROVE  key \in Machines
  BY <1>10 DEF PatchObject, PatchStatus, RemoveServer, TypeOK, WorkerOK
<1>11. CASE DeleteServer \/ DeleteServerReplyLost
  BY <1>1, <1>10, <1>11 DEF DeleteServer, DeleteServerReplyLost, api
<1>12. CASE UNCHANGED vars
  BY <1>9, <1>12 DEF vars, api, cloud
<1>13. CASE Next
  BY <1>2, <1>3, <1>4, <1>5, <1>6, <1>7, <1>8, <1>9, <1>10, <1>11, <1>13,
     StutterAllowed
     DEF Next, ReconcileGone, Reconcile, CacheSync, Continue, ReconcileNormal,
         AddFinalizer, SkipSettled, WaitForOwner, RejectWorker, RejectSpec,
         StartServer, ReconcileServer, ServerRunning, ServerStarting, ServerLost,
         WaitForBootstrap, ReuseUserData, CreateUserData, CreateUserDataReplyLost,
         StoreUserData, CreateServerOutOfStock, RequestFails, ReconcileDelete,
         NoServerToDelete, DeleteServerFails, DeleteUserData, Patch,
         SkipPatchObject, PatchObjectFails, SkipPatchStatus, PatchStatusFails,
         Environment, CrashRestart, PublishBootstrap, AdvanceCluster,
         RecordVLAN, api, cloud
<1> QED BY <1>12, <1>13

\* The controller keeps its contract: whatever crashes, is lost, retried, edited
\* or removed by others, a machine is provisioned once, on a server of its own,
\* which nothing but its deletion releases.
THEOREM KeepsItsContract ==
    ASSUME "staleCache" \notin Events, "getError" \notin Events
    PROVE  Spec => KeepsContract
<1>1. TypeOK /\ Inv /\ [Next]_vars => [Contract!Next]_(Contract!vars)
  BY NextContract
<1> QED
  BY <1>1, InitContract, RecordsInvariant, PTL
     DEF Spec, KeepsContract, Contract!Spec
=============================================================================
