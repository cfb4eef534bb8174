------------------------ MODULE MachineRecords_proofs ------------------------
(***************************************************************************)
(* Theorems about what a LatitudeMachine's status records of its server,   *)
(* for every set of machines, clusters and IDs and every set of Events     *)
(* that does not let a reconciliation read a stale cache.                  *)
(***************************************************************************)
EXTENDS LatitudeMachine_proofs

Used(s) == servers[s].st # "unused"
Deleted(s) == servers[s].st = "deleted"
Lost(s) == servers[s].st = "lost"

\* The server in the status of m was created for m, boots the user data there,
\* and is deleted only on behalf of m's deletion.
Recorded(m) ==
    LET s == ServerOf(m)
    IN  /\ s # None => /\ Used(s)
                       /\ servers[s].owner = m
                       /\ servers[s].userData = stored[m].status.userDataID
                       /\ Deleted(s) => stored[m].deleting
        /\ stored[m].exists /\ ~stored[m].finalizer => s = None
        /\ ~stored[m].exists => s = None \/ Deleted(s)

Records == \A m \in Machines : Recorded(m)

SameProgress(p, q) == p.ready = q.ready /\ p.failed = q.failed

\* Nobody but the worker writes what it works on: a field it has not changed is
\* stored as it was read, and one it has changed was good to be changed.
Unshared(m) ==
    LET read == before.status
        now == obj.status
        known == stored[m].status
    IN  /\ before.deleting => stored[m].deleting
        /\ SameProgress(known, read)
        /\ obj.finalizer = before.finalizer =>
             stored[m].finalizer = before.finalizer
        /\ now.userDataID = read.userDataID => known.userDataID = read.userDataID
        /\ now.serverID = read.serverID => known.serverID = read.serverID
        /\ now.serverID # read.serverID =>
             \/ known.serverID \in {None, now.serverID}
             \/ Lost(known.serverID)
             \/ "getError" \in Events
        /\ known.serverID # None /\ Deleted(known.serverID) => before.deleting

\* The server in the worker's hands is one of the machine it works on.
InHand(m) ==
    LET s == obj.status.serverID
    IN  /\ s # None => /\ Used(s)
                       /\ servers[s].owner = m
                       /\ servers[s].userData = obj.status.userDataID
                       /\ Deleted(s) => before.deleting
        /\ before.status.serverID # None => Used(before.status.serverID)

\* What a reconciliation may make of the object it has read.
Edited ==
    LET read == before.status
        now == obj.status
    IN  /\ now.userDataID # read.userDataID => read.userDataID = None
        /\ now.serverID # read.serverID =>
             /\ ~before.deleting /\ before.finalizer /\ obj.finalizer
             /\ ~Settled(before)
             /\ ~now.ready
        /\ now.ready # read.ready =>
             now.ready /\ ~read.failed /\ ~now.failed /\ now.serverID # None
        /\ now.failed # read.failed =>
             /\ now.failed /\ ~read.ready /\ ~now.ready
             /\ now.serverID \in {read.serverID, None}
        /\ SpecChanged /\ ~obj.finalizer =>
             before.deleting /\ (now.serverID = None \/ Deleted(now.serverID))

\* The worker is at p, or patches the object on its way there.
GoingTo(p) == pc = p \/ (pc \in {"patchObject", "patchStatus"} /\ then = p)

Provisioning ==
    /\ ~before.deleting /\ before.finalizer /\ obj.finalizer
    /\ ~Settled(before)
    /\ SameProgress(obj.status, before.status)

\* What holds where the worker is.
Placed ==
    /\ pc = "reconcileNormal" => obj = before /\ ~before.deleting
    /\ pc = "reconcileServer" =>
         Provisioning /\ obj.status.serverID \in {before.status.serverID, None}
    /\ GoingTo("createServer") => Provisioning /\ obj.status.serverID = None
    /\ GoingTo("attach") => Provisioning /\ obj.status.serverID # None
    /\ pc \in {"reconcileDelete", "deleteUserData"} =>
         obj = before /\ before.deleting
    /\ pc = "deleteUserData" =>
         obj.status.serverID = None \/ Deleted(obj.status.serverID)

AtWork(m) == Unshared(m) /\ InHand(m) /\ Edited /\ Placed

Inv == Records /\ (key # None => AtWork(key))

-----------------------------------------------------------------------------
(***************************************************************************)
(* Steps that leave the worker's object as it was, but for its condition.  *)
(***************************************************************************)

\* Latitude.sh may go on with a server that is in use, but not undo anything.
Kept(s) ==
    /\ Used(s)'
    /\ UNCHANGED <<servers[s].owner, servers[s].userData>>
    /\ Deleted(s)' = Deleted(s)
    /\ Lost(s) => Lost(s)'

ServersKept == \A s \in Servers : Used(s) => Kept(s)

\* The parts of an object the invariant is about.
Agree(o, p) ==
    /\ o.finalizer = p.finalizer
    /\ o.providerID = p.providerID
    /\ SameProgress(o.status, p.status)
    /\ o.status.serverID = p.status.serverID
    /\ o.status.userDataID = p.status.userDataID

LEMMA ConditionAgrees ==
    ASSUME NEW o \in Object, NEW c
    PROVE  Agree(SetCondition(o, c), o)
BY DEF Agree, SetCondition, SameProgress, Object, Status

LEMMA TypesAtWork ==
    ASSUME TypeOK, key # None
    PROVE  /\ key \in Machines
           /\ stored[key] \in Object
           /\ before \in Object
           /\ obj \in Object
           /\ \A o \in {stored[key], before, obj} :
                /\ o.status.serverID \in Servers \union {None}
                /\ o.status.userDataID \in UserData \union {None}
BY DEF TypeOK, ApiOK, WorkerOK, Object, Status

LEMMA RecordsKept ==
    ASSUME TypeOK, Records, UNCHANGED stored, ServersKept
    PROVE  Records'
<1> SUFFICES ASSUME NEW m \in Machines
             PROVE  Recorded(m)'
  BY DEF Records
<1>1. Recorded(m)
  BY DEF Records
<1>2. ServerOf(m) \in Servers \union {None}
  BY DEF ServerOf, TypeOK, ApiOK, Object, Status
<1>3. ServerOf(m)' = ServerOf(m)
  BY DEF ServerOf
<1>4. \A s \in Servers : s # None /\ s = ServerOf(m) => Kept(s)
  BY <1>1, <1>2 DEF Recorded, ServersKept
<1> QED BY <1>1, <1>2, <1>3, <1>4 DEF Recorded, Kept, Used, Deleted

\* A machine nobody touches.
LEMMA UntouchedRecorded ==
    ASSUME NEW m \in Machines, Recorded(m), UNCHANGED <<stored[m], servers>>
    PROVE  Recorded(m)'
BY DEF Recorded, ServerOf, Used, Deleted

LEMMA CoreStep ==
    ASSUME TypeOK, Inv, key # None, UNCHANGED <<stored, key, before>>,
           ServersKept, Agree(obj', obj)
    PROVE  Records' /\ Unshared(key)' /\ InHand(key)' /\ Edited'
<1>1. Records'
  BY RecordsKept DEF Inv
<1>2. Unshared(key) /\ InHand(key) /\ Edited
  BY DEF Inv, AtWork
<1> DEFINE ids == {stored[key].status.serverID, before.status.serverID,
                   obj.status.serverID}
<1>3. ids \subseteq Servers \union {None}
  BY TypesAtWork
<1>4. \A s \in ids : s # None /\ Used(s) => Kept(s)
  BY <1>3 DEF ServersKept
<1>5. /\ stored[key].status.serverID # None => Used(stored[key].status.serverID)
      /\ None \notin Servers
  BY TypesAtWork, MachineAssumption DEF Inv, Records, Recorded, ServerOf
<1>6. Unshared(key)'
  BY <1>2, <1>4, <1>5 DEF Unshared, Agree, SameProgress, Kept, Used, Deleted, Lost
<1>7. InHand(key)'
  BY <1>2, <1>4, <1>5 DEF InHand, Agree, Kept, Used, Deleted
<1>8. Edited'
  BY <1>2, <1>4, <1>5 DEF InHand, Edited, Agree, SameProgress, SpecChanged,
                         Settled, Kept, Used, Deleted
<1> QED BY <1>1, <1>6, <1>7, <1>8

\* A handler returns the object as it was, but for its condition.
LEMMA QuietStep ==
    ASSUME TypeOK, Inv, key # None, UNCHANGED <<stored, key, before>>,
           ServersKept, Agree(obj', obj), pc' = "patchObject", then' = "return"
    PROVE  Inv'
<1>1. Records' /\ Unshared(key)' /\ InHand(key)' /\ Edited'
  BY CoreStep
<1>2. Placed'
  BY DEF Placed, GoingTo
<1> QED BY <1>1, <1>2 DEF Inv, AtWork

\* The handler goes on with the object as it is.
LEMMA GoToStep ==
    ASSUME TypeOK, Inv, key # None, UNCHANGED <<stored, key, before, obj>>,
           ServersKept, Placed'
    PROVE  Inv'
<1>1. Agree(obj', obj)
  BY DEF Agree, SameProgress
<1> QED BY <1>1, CoreStep DEF Inv, AtWork

LEMMA SameServersKept ==
    ASSUME UNCHANGED servers
    PROVE  ServersKept
BY DEF ServersKept, Kept, Used, Deleted, Lost

-----------------------------------------------------------------------------
(***************************************************************************)
(* Reconcile and reconcileNormal.                                          *)
(***************************************************************************)

\* Without a stale cache the worker starts from what is stored.
LEMMA ReconcileRecords ==
    ASSUME "staleCache" \notin Events, TypeOK, Inv,
           NEW m \in Machines, Reconcile(m)
    PROVE  Inv'
<1>1. /\ key' = m /\ before' = stored[m] /\ obj' = stored[m]
      /\ UNCHANGED <<stored, servers>>
  BY DEF Reconcile, api, cloud
<1>2. Recorded(m) /\ stored[m] \in Object
  BY DEF Inv, Records, TypeOK, ApiOK
<1>3. Records'
  BY <1>1, SameServersKept, RecordsKept DEF Inv
<1>4. Unshared(key)' /\ InHand(key)'
  BY <1>1, <1>2 DEF Recorded, ServerOf, Unshared, InHand, SameProgress, Used, Deleted
<1>5. Edited'
  BY <1>1 DEF Edited, SpecChanged
<1>6. Placed'
  <2>1. then' = "return"
    BY DEF Reconcile
  <2>2. \/ pc' = "patchObject"
        \/ pc' = "reconcileDelete" /\ before'.deleting
        \/ pc' = "reconcileNormal" /\ ~before'.deleting
    BY <1>1, <1>2 DEF Reconcile, Object
  <2> QED BY <1>1, <2>1, <2>2 DEF Placed, GoingTo
<1> QED BY <1>3, <1>4, <1>5, <1>6 DEF Inv, AtWork

LEMMA ReconcileNormalRecords ==
    ASSUME TypeOK, Inv, ReconcileNormal
    PROVE  Inv'
<1>1. pc = "reconcileNormal" /\ key # None
  BY DEF TypeOK, WorkerOK, ReconcileNormal, AddFinalizer, SkipSettled,
         WaitForOwner, RejectWorker, RejectSpec, StartServer, Unsettled
<1>2. UNCHANGED <<stored, key, before, servers>>
  BY DEF ReconcileNormal, AddFinalizer, SkipSettled, WaitForOwner, RejectWorker,
         RejectSpec, StartServer, Return, GoTo, api, cloud
<1>3. /\ obj = before /\ ~before.deleting
      /\ obj \in Object /\ obj.status \in Status
      /\ Records /\ Unshared(key) /\ InHand(key)
  BY <1>1, TypesAtWork DEF Inv, AtWork, Placed, Object
<1>4. ServersKept
  BY <1>2, SameServersKept
<1>5. CASE AddFinalizer
  <2>1. /\ ~before.finalizer /\ obj' = [obj EXCEPT !.finalizer = TRUE]
        /\ pc' = "patchObject" /\ then' = "return"
    BY <1>3, <1>5 DEF AddFinalizer, Return
  <2>2. obj'.finalizer /\ obj'.status = before.status
    BY <1>3, <2>1 DEF Object
  <2>3. Records'
    BY <1>2, <1>3, <1>4, RecordsKept
  <2>4. Unshared(key)' /\ InHand(key)'
    BY <1>2, <1>3, <2>1, <2>2
       DEF Unshared, InHand, SameProgress, Used, Deleted, Lost
  <2>5. Edited' /\ Placed'
    BY <1>2, <2>1, <2>2 DEF Edited, Placed, GoingTo
  <2> QED BY <2>3, <2>4, <2>5 DEF Inv, AtWork
<1>6. CASE SkipSettled \/ WaitForOwner \/ RejectSpec
  <2>1. pc' = "patchObject" /\ then' = "return"
    BY <1>6 DEF SkipSettled, WaitForOwner, RejectSpec, Return
  <2>2. obj' = obj \/ \E c \in Conditions : obj' = SetCondition(obj, c)
    BY <1>6 DEF Conditions, SkipSettled, WaitForOwner, RejectSpec, Return
  <2>3. Agree(obj', obj)
    BY <1>3, <2>2, ConditionAgrees DEF Agree, SameProgress
  <2> QED BY <1>1, <1>2, <1>4, <2>1, <2>3, QuietStep
<1>7. CASE RejectWorker
  <2>1. /\ ~Settled(before)
        /\ obj' = SetMachineFailed(obj)
        /\ pc' = "patchObject" /\ then' = "return"
    BY <1>3, <1>7 DEF RejectWorker, Unsettled, Return
  <2>2. /\ obj'.finalizer = before.finalizer
        /\ obj'.providerID = before.providerID
        /\ obj'.status.serverID = before.status.serverID
        /\ obj'.status.userDataID = before.status.userDataID
        /\ obj'.status.failed = TRUE /\ obj'.status.ready = FALSE
    BY <1>3, <2>1 DEF SetMachineFailed, SetCondition, Object, Status
  <2>3. Records'
    BY <1>2, <1>3, <1>4, RecordsKept
  <2>4. Unshared(key)' /\ InHand(key)'
    BY <1>2, <1>3, <2>2 DEF Unshared, InHand, SameProgress, Used, Deleted, Lost
  <2>5. Edited'
    <3>1. before.status.ready = FALSE /\ before.status.failed = FALSE
      BY <1>3, <2>1 DEF Settled, Object, Status
    <3> QED BY <1>2, <2>2, <3>1 DEF Edited, SpecChanged
  <2>6. Placed'
    BY <2>1 DEF Placed, GoingTo
  <2> QED BY <2>3, <2>4, <2>5, <2>6 DEF Inv, AtWork
<1>8. CASE StartServer
  <2>1. /\ ~Settled(before) /\ before.finalizer
        /\ pc' = "reconcileServer" /\ UNCHANGED obj
    BY <1>3, <1>8 DEF StartServer, Unsettled, GoTo
  <2>2. Placed'
    BY <1>2, <1>3, <2>1 DEF Placed, GoingTo, Provisioning, SameProgress, Settled
  <2> QED BY <1>1, <1>2, <1>4, <2>1, <2>2, GoToStep
<1> QED BY <1>5, <1>6, <1>7, <1>8 DEF ReconcileNormal

-----------------------------------------------------------------------------
(***************************************************************************)
(* reconcileServer.                                                        *)
(***************************************************************************)

LEMMA StoreUserDataKept ==
    ASSUME NEW u \in UserData, StoreUserData(u)
    PROVE  ServersKept
BY SameServersKept DEF StoreUserData

LEMMA StartNewServerKept ==
    ASSUME TypeOK, NEW s \in Servers, StartNewServer(s)
    PROVE  ServersKept /\ \A r \in Servers : r # s => servers'[r] = servers[r]
<1>1. /\ servers \in [Servers -> Server]
      /\ servers[s].st = "unused"
      /\ \A r \in Servers : r # s => servers'[r] = servers[r]
  BY DEF TypeOK, CloudOK, StartNewServer
<1> QED BY <1>1 DEF ServersKept, Kept, Used, Deleted, Lost

\* An error of reconcileServer.
LEMMA RetryLaterStep ==
    ASSUME TypeOK, Inv, key # None, UNCHANGED stored, ServersKept, RetryLater
    PROVE  Inv'
<1>1. /\ obj' = SetCondition(obj, "ProvisionFailed")
      /\ pc' = "patchObject" /\ then' = "return"
      /\ UNCHANGED <<key, before>>
  BY DEF RetryLater, Return
<1>2. Agree(obj', obj)
  BY <1>1, TypesAtWork, ConditionAgrees
<1> QED BY <1>1, <1>2, QuietStep

\* The branches with a known server, which only GetServer is called for.
LEMMA KnownServerRecords ==
    ASSUME TypeOK, Inv, ServerRunning \/ ServerStarting \/ ServerLost
    PROVE  Inv'
<1>1. /\ pc = "reconcileServer" /\ key # None
      /\ obj.status.serverID # None
      /\ UNCHANGED <<stored, key, before, servers>>
  BY DEF TypeOK, WorkerOK, ServerRunning, ServerStarting, ServerLost, Known,
         AtServer, Return, api, cloud
<1>2. /\ obj \in Object /\ obj.status \in Status
      /\ obj.status.serverID \in Servers
      /\ before \in Object /\ before.status \in Status
  BY <1>1, TypesAtWork DEF Object
<1>3. /\ Records /\ Unshared(key) /\ InHand(key) /\ Edited
      /\ Provisioning /\ obj.status.serverID = before.status.serverID
  BY <1>1 DEF Inv, AtWork, Placed
<1>4. ServersKept
  BY <1>1, SameServersKept
<1>5. Records'
  BY <1>1, <1>3, <1>4, RecordsKept
<1>6. /\ ~before.deleting /\ before.finalizer = TRUE /\ obj.finalizer = TRUE
      /\ before.status.ready = FALSE /\ before.status.failed = FALSE
      /\ obj.status.ready = FALSE /\ obj.status.failed = FALSE
  BY <1>2, <1>3 DEF Provisioning, Settled, SameProgress, Object, Status
<1>7. CASE ServerRunning
  <2> DEFINE status == [obj.status EXCEPT
                          !.ready = TRUE,
                          !.address = servers[obj.status.serverID].address,
                          !.condition = "Ready"]
             o == [obj EXCEPT !.providerID = obj.status.serverID,
                              !.status = status]
  <2>1. obj' = o /\ pc' = "patchObject" /\ then' = "return"
    BY <1>7 DEF ServerRunning, Return
  <2>2. /\ status.ready = TRUE /\ status.failed = FALSE
        /\ status.serverID = obj.status.serverID
        /\ status.userDataID = obj.status.userDataID
    BY <1>2, <1>6 DEF Status
  <2>3. o.finalizer = TRUE /\ o.status = status
    BY <1>2, <1>6 DEF Object
  <2> HIDE DEF status, o
  <2>4. Unshared(key)' /\ InHand(key)'
    BY <1>1, <1>3, <1>6, <2>1, <2>2, <2>3
       DEF Unshared, InHand, SameProgress, Used, Deleted, Lost
  <2>5. Edited' /\ Placed'
    BY <1>1, <1>3, <1>6, <2>1, <2>2, <2>3 DEF Edited, Placed, GoingTo
  <2> QED BY <1>5, <2>4, <2>5 DEF Inv, AtWork
<1>8. CASE ServerStarting
  <2>1. /\ obj' = SetCondition(obj, "NotReady")
        /\ pc' = "patchObject" /\ then' = "return"
    BY <1>8 DEF ServerStarting, Return
  <2>2. Agree(obj', obj)
    BY <1>2, <2>1, ConditionAgrees
  <2> QED BY <1>1, <1>4, <2>1, <2>2, QuietStep
<1>9. CASE ServerLost
  <2>1. /\ obj' = [obj EXCEPT !.status.serverID = None]
        /\ UNCHANGED <<pc, then>>
        /\ ~Live(obj.status.serverID) \/ "getError" \in Events
    BY <1>9 DEF ServerLost
  <2>2. /\ obj'.finalizer = TRUE
        /\ obj'.providerID = obj.providerID
        /\ obj'.status.ready = FALSE /\ obj'.status.failed = FALSE
        /\ obj'.status.serverID = None
        /\ obj'.status.userDataID = obj.status.userDataID
    BY <1>2, <1>6, <2>1 DEF Object, Status
  <2>3. Lost(obj.status.serverID) \/ "getError" \in Events
    <3>1. servers[obj.status.serverID].st
            \in {"unused", "off", "on", "deleted", "lost"}
      BY <1>2 DEF TypeOK, CloudOK, Server
    <3> QED BY <1>1, <1>3, <1>6, <2>1, <3>1 DEF InHand, Used, Deleted, Lost, Live
  <2>4. Unshared(key)' /\ InHand(key)'
    BY <1>1, <1>3, <1>6, <2>2, <2>3
       DEF Unshared, InHand, SameProgress, Used, Deleted, Lost
  <2>5. Edited'
    BY <1>1, <1>3, <1>6, <2>2 DEF Edited, Settled, SpecChanged
  <2>6. Placed'
    BY <1>1, <1>6, <2>1, <2>2
       DEF Placed, GoingTo, Provisioning, SameProgress, Settled
  <2> QED BY <1>5, <2>4, <2>5, <2>6 DEF Inv, AtWork
<1> QED BY <1>7, <1>8, <1>9

LEMMA CreateUserDataRecords ==
    ASSUME TypeOK, Inv, NEW u \in UserData, CreateUserData(u)
    PROVE  Inv'
<1>1. /\ pc = "reconcileServer" /\ key # None
      /\ obj.status.serverID = None /\ obj.status.userDataID = None
      /\ UNCHANGED <<stored, key, before, servers>>
      /\ pc' = "patchObject" /\ then' = "createServer"
      /\ \/ obj' = obj
         \/ obj' = [obj EXCEPT !.status.userDataID = u]
  BY DEF TypeOK, WorkerOK, CreateUserData, NeedsUserData, Creating, AtServer,
         StoreUserData, Persist, api
<1>2. obj \in Object /\ obj.status \in Status
  BY <1>1, TypesAtWork DEF Object
<1>3. /\ Records /\ Unshared(key) /\ InHand(key) /\ Edited /\ Provisioning
  BY <1>1 DEF Inv, AtWork, Placed
<1>4. /\ obj'.finalizer = obj.finalizer
      /\ obj'.providerID = obj.providerID
      /\ SameProgress(obj'.status, obj.status)
      /\ obj'.status.serverID = None
      /\ obj'.status.userDataID \in {None, u}
  BY <1>1, <1>2 DEF SameProgress, Object, Status
<1>5. Records'
  BY <1>1, <1>3, SameServersKept, RecordsKept
<1>6. Unshared(key)' /\ InHand(key)'
  BY <1>1, <1>3, <1>4, MachineAssumption
     DEF Unshared, InHand, Edited, SameProgress, Used, Lost, Deleted
<1>7. Edited' /\ Placed'
  BY <1>1, <1>3, <1>4
     DEF Edited, Placed, GoingTo, Provisioning, SameProgress, Settled, SpecChanged
<1> QED BY <1>5, <1>6, <1>7 DEF Inv, AtWork

\* The server is new, so that no record of another one can be taken for it.
LEMMA CreateServerRecords ==
    ASSUME TypeOK, Inv, NEW s \in Servers, CreateServer(s)
    PROVE  Inv'
<1>1. /\ pc = "createServer" /\ key # None
      /\ servers[s].st = "unused"
      /\ UNCHANGED <<stored, key, before>>
      /\ pc' = "patchObject" /\ then' = "attach"
      /\ obj' = [obj EXCEPT !.status.serverID = s]
  BY DEF TypeOK, WorkerOK, CreateServer, StartNewServer, Persist, api
<1>2. /\ obj \in Object /\ obj.status \in Status
      /\ servers \in [Servers -> Server]
      /\ s # None
  BY <1>1, TypesAtWork, MachineAssumption DEF Object, TypeOK, CloudOK
<1>3. /\ Records /\ Recorded(key) /\ Unshared(key) /\ InHand(key) /\ Edited
      /\ Provisioning /\ obj.status.serverID = None
  BY <1>1, TypesAtWork DEF Inv, AtWork, Placed, GoingTo, Records
<1>4. /\ ServersKept
      /\ \A r \in Servers : r # s => servers'[r] = servers[r]
      /\ servers'[s].st = "off"
      /\ servers'[s].owner = key
      /\ servers'[s].userData = obj.status.userDataID
  BY <1>2, StartNewServerKept DEF CreateServer, StartNewServer
<1>5. /\ obj'.finalizer = obj.finalizer
      /\ obj'.providerID = obj.providerID
      /\ SameProgress(obj'.status, obj.status)
      /\ obj'.status.serverID = s
      /\ obj'.status.userDataID = obj.status.userDataID
  BY <1>1, <1>2 DEF SameProgress, Object, Status
<1>6. Records'
  BY <1>1, <1>3, <1>4, RecordsKept
<1>7. InHand(key)'
  <2>1. before.status.serverID # None =>
          before.status.serverID \in Servers /\ Used(before.status.serverID)
    BY <1>1, <1>3, TypesAtWork DEF InHand
  <2> QED BY <1>1, <1>2, <1>4, <1>5, <2>1
          DEF InHand, ServersKept, Kept, Used, Deleted
<1>8. Unshared(key)'
  <2> DEFINE known == stored[key].status.serverID
  <2>1. known # None => known \in Servers /\ Used(known)
    BY <1>1, <1>3, TypesAtWork DEF Recorded, ServerOf
  <2>2. \A r \in Servers : r = known /\ r # None => r # s /\ Kept(r)
    BY <1>1, <1>4, <2>1 DEF ServersKept, Used
  <2>3. before.status.serverID # s
    BY <1>1, <1>2, <1>3 DEF InHand, Used
  <2>4. \/ known = None
        \/ Lost(known)
        \/ "getError" \in Events
    BY <1>3 DEF Unshared
  <2> QED BY <1>1, <1>3, <1>4, <1>5, <2>1, <2>2, <2>3, <2>4
          DEF Unshared, SameProgress, Kept, Deleted, Lost
<1>9. Edited'
  <2>1. before.status.ready = FALSE /\ obj.status.ready = FALSE
        /\ before.status.failed = obj.status.failed
    BY <1>1, <1>2, <1>3, TypesAtWork
       DEF Provisioning, SameProgress, Settled, Object, Status
  <2> QED BY <1>1, <1>3, <1>5, <2>1
          DEF Edited, Provisioning, SameProgress, SpecChanged, Settled
<1>10. Placed'
  BY <1>1, <1>2, <1>3, <1>5
     DEF Placed, GoingTo, Provisioning, SameProgress, Settled
<1> QED BY <1>6, <1>7, <1>8, <1>9, <1>10 DEF Inv, AtWork

LEMMA CreateServerOutOfStockRecords ==
    ASSUME TypeOK, Inv, CreateServerOutOfStock
    PROVE  Inv'
<1>1. /\ pc = "createServer" /\ key # None
      /\ UNCHANGED <<stored, key, before, servers>>
      /\ pc' = "patchObject" /\ then' = "return"
      /\ obj' = SetMachineFailed(obj)
  BY DEF TypeOK, WorkerOK, CreateServerOutOfStock, Return, api, cloud
<1>2. obj \in Object /\ before \in Object
  BY <1>1, TypesAtWork
<1>3. /\ Records /\ Unshared(key) /\ InHand(key) /\ Edited
      /\ Provisioning /\ obj.status.serverID = None
  BY <1>1 DEF Inv, AtWork, Placed, GoingTo
<1>4. /\ obj'.finalizer = obj.finalizer
      /\ obj'.providerID = obj.providerID
      /\ obj'.status.ready = FALSE /\ obj'.status.failed = TRUE
      /\ obj'.status.serverID = None
      /\ obj'.status.userDataID = obj.status.userDataID
  BY <1>1, <1>2, <1>3 DEF SetMachineFailed, SetCondition, Object, Status
<1>5. /\ before.status.ready = FALSE /\ before.status.failed = FALSE
  BY <1>2, <1>3 DEF Provisioning, Settled, Object, Status
<1>6. Records'
  BY <1>1, <1>3, SameServersKept, RecordsKept
<1>7. Unshared(key)' /\ InHand(key)'
  BY <1>1, <1>3, <1>4, <1>5
     DEF Unshared, InHand, SameProgress, Used, Deleted, Lost
<1>8. Edited' /\ Placed'
  BY <1>1, <1>3, <1>4, <1>5
     DEF Edited, Provisioning, Placed, GoingTo, Settled, SpecChanged
<1> QED BY <1>6, <1>7, <1>8 DEF Inv, AtWork

LEMMA AttachServerKept ==
    ASSUME TypeOK, AttachServer
    PROVE  ServersKept
<1> DEFINE s == obj.status.serverID
<1>1. UNCHANGED servers \/ servers' = [servers EXCEPT ![s].vlan = TRUE]
  BY DEF AttachServer
<1> HIDE DEF s
<1>2. \A r \in Servers : /\ servers'[r].st = servers[r].st
                         /\ servers'[r].owner = servers[r].owner
                         /\ servers'[r].userData = servers[r].userData
  <2>1. servers \in [Servers -> Server]
    BY DEF TypeOK, CloudOK
  <2> QED BY <1>1, <2>1 DEF Server
<1> QED BY <1>2 DEF ServersKept, Kept, Used, Deleted, Lost

LEMMA ReconcileServerRecords ==
    ASSUME TypeOK, Inv, ReconcileServer
    PROVE  Inv'
<1>1. CASE ServerRunning \/ ServerStarting \/ ServerLost
  BY <1>1, KnownServerRecords
<1>2. CASE WaitForBootstrap \/ AttachServer
  <2>1. /\ key # None
        /\ UNCHANGED <<stored, key, before>>
        /\ obj' = SetCondition(obj, "NotReady")
        /\ pc' = "patchObject" /\ then' = "return"
    BY <1>2 DEF TypeOK, WorkerOK, WaitForBootstrap, AttachServer, Creating,
                AtServer, Return, api
  <2>2. Agree(obj', obj)
    BY <2>1, TypesAtWork, ConditionAgrees
  <2>3. ServersKept
    BY <1>2, AttachServerKept, SameServersKept DEF WaitForBootstrap, cloud
  <2> QED BY <2>1, <2>2, <2>3, QuietStep
<1>3. CASE ReuseUserData
  <2>1. /\ pc = "reconcileServer" /\ key # None
        /\ obj.status.serverID = None
        /\ pc' = "createServer"
        /\ UNCHANGED <<stored, key, before, obj, servers>>
    BY <1>3 DEF TypeOK, WorkerOK, ReuseUserData, Creating, AtServer, GoTo, api, cloud
  <2>2. Provisioning
    BY <2>1 DEF Inv, AtWork, Placed
  <2>3. Placed'
    BY <2>1, <2>2 DEF Placed, GoingTo, Provisioning, SameProgress, Settled
  <2> QED BY <2>1, <2>3, SameServersKept, GoToStep
<1>4. ASSUME NEW u \in UserData, CreateUserData(u)
      PROVE  Inv'
  BY <1>4, CreateUserDataRecords
<1>5. ASSUME NEW s \in Servers, CreateServer(s)
      PROVE  Inv'
  BY <1>5, CreateServerRecords
<1>6. CASE CreateServerOutOfStock
  BY <1>6, CreateServerOutOfStockRecords
<1>7. ASSUME NEW u \in UserData, CreateUserDataReplyLost(u)
      PROVE  Inv'
  BY <1>7, StoreUserDataKept, RetryLaterStep
     DEF CreateUserDataReplyLost, NeedsUserData, Creating, AtServer, TypeOK,
         WorkerOK, api
<1>8. ASSUME NEW s \in Servers, CreateServerReplyLost(s)
      PROVE  Inv'
  BY <1>8, StartNewServerKept, RetryLaterStep
     DEF CreateServerReplyLost, TypeOK, WorkerOK, api
<1>9. CASE RequestFails
  BY <1>9, SameServersKept, RetryLaterStep
     DEF RequestFails, Creating, AtServer, TypeOK, WorkerOK, api, cloud
<1> QED
  BY <1>1, <1>2, <1>3, <1>4, <1>5, <1>6, <1>7, <1>8, <1>9 DEF ReconcileServer

-----------------------------------------------------------------------------
(***************************************************************************)
(* reconcileDelete.                                                        *)
(***************************************************************************)

\* Only the server in hand is deleted, and the deletion of its machine, which
\* is stored by now, was what the worker had read.
LEMMA RemoveServerRecords ==
    ASSUME TypeOK, Inv, key # None, RemoveServer,
           UNCHANGED <<stored, key, before>>, Agree(obj', obj), Placed'
    PROVE  Inv'
<1> DEFINE s == obj.status.serverID
<1>1. /\ s \in Servers /\ servers[s].st \in {"off", "on"}
      /\ servers \in [Servers -> Server]
      /\ servers' = [servers EXCEPT ![s].st = "deleted"]
  BY TypesAtWork DEF RemoveServer, Live, TypeOK, CloudOK
<1>2. /\ Records /\ Unshared(key) /\ InHand(key) /\ Edited
      /\ obj = before /\ before.deleting
  BY DEF Inv, AtWork, Placed, RemoveServer
<1>3. stored[key].deleting /\ key \in Machines /\ s # None
  BY <1>1, <1>2, TypesAtWork, MachineAssumption DEF Unshared
<1>4. servers[s].owner = key
  BY <1>2, <1>3 DEF InHand
<1> HIDE DEF s
<1>5. \A r \in Servers :
        /\ servers'[r].owner = servers[r].owner
        /\ servers'[r].userData = servers[r].userData
        /\ servers'[r].st = IF r = s THEN "deleted" ELSE servers[r].st
  BY <1>1 DEF Server
<1>6. Records'
  <2> SUFFICES ASSUME NEW m \in Machines
               PROVE  Recorded(m)'
    BY DEF Records
  <2>1. Recorded(m) /\ ServerOf(m) \in Servers \union {None}
    BY <1>2 DEF Records, ServerOf, TypeOK, ApiOK, Object, Status
  <2>2. ServerOf(m) = s => stored[m].deleting
    BY <1>3, <1>4, <2>1 DEF Recorded
  <2> QED BY <1>5, <2>1, <2>2 DEF Recorded, ServerOf, Used, Deleted
<1>7. /\ stored[key].status.serverID \in Servers \union {None}
      /\ before.status.serverID \in Servers \union {None}
      /\ obj.status.serverID \in Servers \union {None}
      /\ None \notin Servers
  BY TypesAtWork, MachineAssumption
<1>8. Unshared(key)' /\ InHand(key)'
  BY <1>2, <1>5, <1>7
     DEF Unshared, InHand, Agree, SameProgress, Used, Deleted, Lost
<1>9. Edited'
  BY <1>2 DEF Edited, Agree, SameProgress, SpecChanged
<1> QED BY <1>6, <1>8, <1>9 DEF Inv, AtWork

LEMMA DeletionFailsStep ==
    ASSUME TypeOK, key # None, DeletionFails
    PROVE  /\ Agree(obj', obj)
           /\ pc' = "patchObject" /\ then' = "return"
           /\ UNCHANGED <<key, before>>
BY TypesAtWork, ConditionAgrees DEF DeletionFails, Return

LEMMA ReconcileDeleteRecords ==
    ASSUME TypeOK, Inv, ReconcileDelete
    PROVE  Inv'
<1>1. /\ key # None /\ UNCHANGED stored
      /\ pc \in {"reconcileDelete", "deleteUserData"}
  BY DEF TypeOK, WorkerOK, ReconcileDelete, NoServerToDelete, DeleteServer,
         RemoveServer, DeleteServerReplyLost, DeleteServerFails, DeleteUserData, api
<1>2. obj = before /\ before.deleting /\ obj \in Object
  BY <1>1, TypesAtWork DEF Inv, AtWork, Placed
<1>3. CASE NoServerToDelete
  <2>1. /\ obj.status.serverID = None /\ pc' = "deleteUserData"
        /\ UNCHANGED <<key, before, obj, servers>>
    BY <1>3 DEF NoServerToDelete, GoTo, cloud
  <2>2. Placed'
    BY <1>2, <2>1 DEF Placed, GoingTo
  <2> QED BY <1>1, <2>1, <2>2, SameServersKept, GoToStep
<1>4. CASE DeleteServer
  <2>1. /\ RemoveServer /\ pc' = "deleteUserData"
        /\ UNCHANGED <<key, before, obj>>
    BY <1>4 DEF DeleteServer, GoTo
  <2>2. Deleted(obj.status.serverID)'
    BY <1>1, <2>1, TypesAtWork DEF RemoveServer, Deleted, TypeOK, CloudOK, Server
  <2>3. Placed'
    BY <1>2, <2>1, <2>2 DEF Placed, GoingTo
  <2>4. Agree(obj', obj)
    BY <2>1 DEF Agree, SameProgress
  <2> QED BY <1>1, <2>1, <2>3, <2>4, RemoveServerRecords
<1>5. CASE DeleteServerReplyLost
  <2>1. RemoveServer /\ DeletionFails
    BY <1>5 DEF DeleteServerReplyLost
  <2>2. Placed'
    BY <1>1, <2>1, DeletionFailsStep DEF Placed, GoingTo
  <2> QED BY <1>1, <2>1, <2>2, DeletionFailsStep, RemoveServerRecords
<1>6. CASE DeleteServerFails
  BY <1>1, <1>6, DeletionFailsStep, SameServersKept, QuietStep
     DEF DeleteServerFails, cloud
<1>7. CASE DeleteUserData
  <2>1. /\ pc = "deleteUserData"
        /\ obj' = [obj EXCEPT !.finalizer = FALSE]
        /\ pc' = "patchObject" /\ then' = "return"
        /\ UNCHANGED <<key, before, servers>>
    BY <1>7 DEF DeleteUserData, Return
  <2>2. /\ Records /\ Unshared(key) /\ InHand(key)
        /\ obj.status.serverID = None \/ Deleted(obj.status.serverID)
    BY <1>1, <2>1 DEF Inv, AtWork, Placed
  <2>3. /\ obj'.finalizer = FALSE
        /\ obj'.providerID = obj.providerID
        /\ obj'.status = obj.status
    BY <1>2, <2>1 DEF Object
  <2>4. Records'
    BY <1>1, <2>1, <2>2, SameServersKept, RecordsKept
  <2>5. Unshared(key)' /\ InHand(key)'
    BY <1>1, <1>2, <2>1, <2>2, <2>3
       DEF Unshared, InHand, SameProgress, Used, Deleted, Lost
  <2>6. Edited' /\ Placed'
    BY <1>2, <2>1, <2>2, <2>3 DEF Edited, Deleted, Placed, GoingTo
  <2> QED BY <2>4, <2>5, <2>6 DEF Inv, AtWork
<1> QED BY <1>3, <1>4, <1>5, <1>6, <1>7 DEF ReconcileDelete

-----------------------------------------------------------------------------
(***************************************************************************)
(* The patch helper.                                                       *)
(***************************************************************************)

\* A reconciliation that has ended leaves nothing to account for.
LEMMA RestRecords ==
    ASSUME Rest, Records'
    PROVE  Inv'
BY DEF Rest, Inv

LEMMA PatchObjectRecords ==
    ASSUME TypeOK, Inv, PatchObject
    PROVE  Inv'
<1>1. /\ pc = "patchObject" /\ pc' = "patchStatus" /\ key # None
      /\ SpecChanged
      /\ stored' = [stored EXCEPT ![key] = MergeSpec(before, obj, stored[key])]
      /\ UNCHANGED <<key, before, obj, then, servers>>
  BY DEF TypeOK, WorkerOK, PatchObject, GoTo, cloud
<1>2. /\ key \in Machines
      /\ stored \in [Machines -> Object]
      /\ stored[key] \in Object /\ before \in Object /\ obj \in Object
  BY <1>1, TypesAtWork DEF TypeOK, ApiOK
<1>3. /\ Records /\ Unshared(key) /\ InHand(key) /\ Edited /\ Placed
  BY <1>1 DEF Inv, AtWork
<1>4. /\ \A m \in Machines : m # key => stored'[m] = stored[m]
      /\ stored'[key] = MergeSpec(before, obj, stored[key])
  BY <1>1, <1>2
<1>5. /\ stored'[key].status = stored[key].status
      /\ stored'[key].deleting = stored[key].deleting
      /\ stored'[key].finalizer = obj.finalizer
      /\ stored'[key].exists =
           (stored[key].exists /\ (stored[key].deleting => obj.finalizer))
  BY <1>2, <1>3, <1>4 DEF Unshared, MergeSpec, Merged, Object
<1>6. Records'
  <2> SUFFICES ASSUME NEW m \in Machines
               PROVE  Recorded(m)'
    BY DEF Records
  <2>1. Recorded(m)
    BY <1>3 DEF Records
  <2>2. CASE m # key
    BY <1>1, <1>4, <2>1, <2>2, UntouchedRecorded
  <2>3. CASE m = key /\ obj.finalizer
    <3>1. /\ UNCHANGED <<servers, stored[m].status, stored[m].deleting>>
          /\ stored'[m].finalizer
          /\ ~stored'[m].exists => ~stored[m].exists
      BY <1>1, <1>5, <2>3
    <3> QED BY <2>1, <3>1 DEF Recorded, ServerOf, Used, Deleted
  <2>4. CASE m = key /\ ~obj.finalizer
    <3>1. /\ before.deleting /\ stored[m].deleting
          /\ stored[m].status.serverID = obj.status.serverID
          /\ obj.status.serverID = None \/ Deleted(obj.status.serverID)
      BY <1>1, <1>3, <2>4 DEF Edited, Unshared
    <3>2. /\ UNCHANGED <<servers, stored[m].status, stored[m].deleting>>
          /\ ~stored'[m].exists
      BY <1>1, <1>5, <2>4, <3>1
    <3>3. ServerOf(m) = None \/ Deleted(ServerOf(m))
      BY <2>4, <3>1 DEF ServerOf
    <3> QED BY <2>1, <3>2, <3>3 DEF Recorded, ServerOf, Used, Deleted
  <2> QED BY <2>2, <2>3, <2>4
<1>7. Unshared(key)'
  BY <1>1, <1>3, <1>5 DEF Unshared, SameProgress, Deleted, Lost
<1>8. InHand(key)' /\ Edited'
  BY <1>1, <1>3 DEF InHand, Edited, Used, Deleted, SpecChanged, Settled
<1>9. Placed'
  BY <1>1, <1>3 DEF Placed, GoingTo, Provisioning, SameProgress, Settled
<1> QED BY <1>6, <1>7, <1>8, <1>9 DEF Inv, AtWork

\* What the status patch stores is the status the worker has in hand: nothing
\* was written since the object was read that a merge could bring back.
LEMMA MergedIsInHand ==
    ASSUME TypeOK, Inv, key # None
    PROVE  LET known == MergeStatus(before.status, obj.status, stored[key].status)
           IN  /\ SameProgress(known, obj.status)
               /\ known.serverID = obj.status.serverID
               /\ known.userDataID = obj.status.userDataID
BY DEF Inv, AtWork, Unshared, MergeStatus, Merged, SameProgress

LEMMA PatchStatusRecords ==
    ASSUME TypeOK, Inv, PatchStatus
    PROVE  Inv'
<1> DEFINE known == MergeStatus(before.status, obj.status, stored[key].status)
<1>1. /\ pc = "patchStatus" /\ key # None
      /\ stored[key].exists
      /\ stored' = [stored EXCEPT ![key].status = known]
      /\ Patched(FALSE) /\ UNCHANGED servers
  BY DEF TypeOK, WorkerOK, PatchStatus, cloud
<1>2. /\ key \in Machines
      /\ stored \in [Machines -> Object] /\ stored[key] \in Object
      /\ before \in Object /\ obj \in Object
  BY <1>1, TypesAtWork DEF TypeOK, ApiOK
<1>3. /\ Records /\ Recorded(key) /\ Unshared(key) /\ InHand(key) /\ Edited
      /\ Placed
  BY <1>1, <1>2 DEF Inv, AtWork, Records
<1>4. /\ SameProgress(known, obj.status)
      /\ known.serverID = obj.status.serverID
      /\ known.userDataID = obj.status.userDataID
  BY <1>1, MergedIsInHand
<1> HIDE DEF known
<1>5. /\ \A m \in Machines : m # key => stored'[m] = stored[m]
      /\ stored'[key].status = known
      /\ stored'[key].exists = stored[key].exists
      /\ stored'[key].deleting = stored[key].deleting
      /\ stored'[key].finalizer = stored[key].finalizer
  BY <1>1, <1>2 DEF Object
<1>6. obj.status.serverID # None => stored[key].finalizer
  <2>1. CASE obj.status.serverID = before.status.serverID
    BY <1>1, <1>3, <2>1 DEF Recorded, Unshared, ServerOf
  <2>2. CASE obj.status.serverID # before.status.serverID
    BY <1>2, <1>3, <2>2 DEF Edited, Unshared, Object
  <2> QED BY <2>1, <2>2
<1>7. Records'
  <2> SUFFICES ASSUME NEW m \in Machines
               PROVE  Recorded(m)'
    BY DEF Records
  <2>1. CASE m # key
    <3>1. Recorded(m)
      BY <1>3 DEF Records
    <3> QED BY <1>1, <1>5, <2>1, <3>1, UntouchedRecorded
  <2>2. CASE m = key
    <3> DEFINE s == obj.status.serverID
    <3>1. /\ ServerOf(m)' = s
          /\ stored'[m].status.userDataID = obj.status.userDataID
      BY <1>4, <1>5, <2>2 DEF ServerOf
    <3>2. s # None => /\ Used(s)
                      /\ servers[s].owner = m
                      /\ servers[s].userData = obj.status.userDataID
                      /\ Deleted(s) => stored[m].deleting
      BY <1>3, <2>2 DEF InHand, Unshared
    <3> HIDE DEF s
    <3> QED BY <1>1, <1>5, <1>6, <2>2, <3>1, <3>2 DEF Recorded, Used, Deleted, s
  <2> QED BY <2>1, <2>2
<1>8. CASE then = "return"
  BY <1>1, <1>7, <1>8, RestRecords DEF Patched
<1>9. CASE then # "return"
  <2>1. /\ GoTo(then)
        /\ then \in {"createServer", "attach"}
    BY <1>1, <1>9 DEF Patched, TypeOK, WorkerOK
  <2>2. /\ UNCHANGED <<key, before, obj, then>>
        /\ pc' = then
    BY <2>1 DEF GoTo
  <2>3. Provisioning
    BY <1>1, <1>3, <2>1 DEF Placed, GoingTo
  <2>4. Unshared(key)'
    <3>1. SameProgress(known, before.status)
      BY <1>4, <2>3 DEF Provisioning, SameProgress
    <3>2. known.serverID # None /\ Deleted(known.serverID) => before.deleting
      BY <1>3, <1>4 DEF InHand
    <3>3. /\ before.deleting => stored'[key].deleting
          /\ obj.finalizer = before.finalizer =>
               stored'[key].finalizer = before.finalizer
      BY <1>3, <1>5 DEF Unshared
    <3> QED BY <1>1, <1>4, <1>5, <2>2, <3>1, <3>2, <3>3
            DEF Unshared, SameProgress, Deleted, Lost
  <2>5. InHand(key)' /\ Edited'
    BY <1>1, <1>3, <2>2 DEF InHand, Edited, Used, Deleted, SpecChanged, Settled
  <2>6. Placed'
    BY <1>1, <1>3, <2>1, <2>2
       DEF Placed, GoingTo, Provisioning, SameProgress, Settled
  <2> QED BY <1>7, <2>4, <2>5, <2>6 DEF Inv, AtWork
<1> QED BY <1>8, <1>9

LEMMA PatchRecords ==
    ASSUME TypeOK, Inv, Patch
    PROVE  Inv'
<1>1. key # None
  BY DEF TypeOK, WorkerOK, Patch, PatchObject, SkipPatchObject,
         PatchObjectFails, PatchStatus, SkipPatchStatus, PatchStatusFails
<1>2. CASE PatchObject
  BY <1>2, PatchObjectRecords
<1>3. CASE SkipPatchObject \/ PatchObjectFails
  <2>1. /\ UNCHANGED <<stored, key, before, obj, then, servers>>
        /\ pc = "patchObject" /\ pc' = "patchStatus"
    BY <1>3 DEF SkipPatchObject, PatchObjectFails, GoTo, api, cloud
  <2>2. Placed'
    BY <1>1, <2>1 DEF Inv, AtWork, Placed, GoingTo, Provisioning, SameProgress,
                      Settled
  <2> QED BY <1>1, <2>1, <2>2, SameServersKept, GoToStep
<1>4. CASE PatchStatus
  BY <1>4, PatchStatusRecords
<1>5. CASE SkipPatchStatus \/ PatchStatusFails
  <2>1. /\ pc = "patchStatus" /\ UNCHANGED <<stored, servers>>
        /\ \/ Rest
           \/ then # "return" /\ GoTo(then)
    BY <1>5 DEF SkipPatchStatus, PatchStatusFails, Patched, api, cloud
  <2>2. CASE Rest
    BY <2>1, <2>2, SameServersKept, RecordsKept, RestRecords DEF Inv
  <2>3. CASE then # "return" /\ GoTo(then)
    <3>1. /\ then \in {"createServer", "attach"} /\ pc' = then
          /\ UNCHANGED <<key, before, obj, then>>
      BY <2>3 DEF TypeOK, WorkerOK, GoTo
    <3>2. Placed'
      BY <1>1, <2>1, <3>1 DEF Inv, AtWork, Placed, GoingTo, Provisioning,
                              SameProgress, Settled
    <3> QED BY <1>1, <2>1, <3>1, <3>2, SameServersKept, GoToStep
  <2> QED BY <2>1, <2>2, <2>3
<1> QED BY <1>2, <1>3, <1>4, <1>5 DEF Patch

-----------------------------------------------------------------------------
(***************************************************************************)
(* The watch, the manager, and everybody else.                             *)
(***************************************************************************)

\* A step of somebody else that Latitude.sh takes, or does not notice.
LEMMA OtherStep ==
    ASSUME TypeOK, Inv, UNCHANGED <<stored, worker>>, ServersKept
    PROVE  Inv'
<1>1. Records'
  BY RecordsKept DEF Inv
<1>2. CASE key # None
  <2>1. Placed
    BY <1>2 DEF Inv, AtWork
  <2>2. obj.status.serverID \in Servers \union {None} /\ InHand(key)
    BY <1>2, TypesAtWork DEF Inv, AtWork
  <2>3. Placed'
    BY <2>1, <2>2 DEF worker, Placed, GoingTo, Provisioning, SameProgress,
                      Settled, InHand, ServersKept, Kept, Used, Deleted
  <2> QED BY <1>2, <2>3, GoToStep DEF worker
<1>3. CASE key = None
  BY <1>1, <1>3 DEF Inv, worker
<1> QED BY <1>2, <1>3

\* A user, cluster-api or the API server changes an object, but not what the
\* controller has written there.
LEMMA EditMachineRecords ==
    ASSUME TypeOK, Inv, NEW m \in Machines, NEW o \in Object,
           o.status = stored[m].status,
           o.finalizer = stored[m].finalizer,
           stored[m].deleting => o.deleting,
           o.exists = stored[m].exists \/ ~o.finalizer,
           EditMachine(m, o)
    PROVE  Inv'
<1>1. /\ stored[m].exists
      /\ stored' = [stored EXCEPT ![m] = o]
      /\ stored \in [Machines -> Object]
      /\ UNCHANGED <<pc, key, before, obj, then, servers>>
  BY DEF EditMachine, worker, cloud, TypeOK, ApiOK
<1>2. /\ stored'[m] = o
      /\ \A n \in Machines : n # m => stored'[n] = stored[n]
  BY <1>1
<1>3. Records'
  <2> SUFFICES ASSUME NEW n \in Machines
               PROVE  Recorded(n)'
    BY DEF Records
  <2>1. Recorded(n)
    BY DEF Inv, Records
  <2>2. CASE n # m
    BY <1>1, <1>2, <2>1, <2>2, UntouchedRecorded
  <2>3. CASE n = m
    BY <1>1, <1>2, <2>1, <2>3 DEF Recorded, ServerOf, Used, Deleted
  <2> QED BY <2>2, <2>3
<1>4. ASSUME key # None
      PROVE  AtWork(key)'
  <2>1. AtWork(key)
    BY <1>4 DEF Inv
  <2>2. Unshared(key)'
    BY <1>1, <1>2, <1>4, <2>1, TypesAtWork
       DEF AtWork, Unshared, SameProgress, Deleted, Lost
  <2>3. InHand(key)' /\ Edited'
    BY <1>1, <2>1 DEF AtWork, InHand, Edited, Used, Deleted, SpecChanged, Settled
  <2>4. Placed'
    BY <1>1, <2>1 DEF AtWork, Placed, GoingTo, Provisioning, SameProgress,
                      Settled, Deleted
  <2> QED BY <2>2, <2>3, <2>4 DEF AtWork
<1> QED BY <1>1, <1>3, <1>4 DEF Inv

LEMMA PowerOnKept ==
    ASSUME TypeOK, NEW s \in Servers, PowerOn(s) \/ RemoveExternally(s)
    PROVE  ServersKept
<1>1. servers \in [Servers -> Server]
  BY DEF TypeOK, CloudOK
<1>2. \A r \in Servers :
        /\ servers'[r].owner = servers[r].owner
        /\ servers'[r].userData = servers[r].userData
        /\ \/ servers'[r].st = servers[r].st
           \/ servers[r].st = "off" /\ servers'[r].st = "on"
           \/ servers[r].st \in {"off", "on"} /\ servers'[r].st = "lost"
  <2>1. CASE PowerOn(s)
    <3>1. PICK a : servers' = [servers EXCEPT ![s].st = "on", ![s].address = a]
      BY <2>1 DEF PowerOn
    <3>2. servers[s].st = "off"
      BY <2>1 DEF PowerOn
    <3> QED BY <1>1, <3>1, <3>2 DEF Server
  <2>2. CASE RemoveExternally(s)
    BY <1>1, <2>2 DEF RemoveExternally, Live, Server
  <2> QED BY <2>1, <2>2
<1> QED BY <1>2 DEF ServersKept, Kept, Used, Deleted, Lost

LEMMA EnvironmentRecords ==
    ASSUME TypeOK, Inv, Environment
    PROVE  Inv'
<1>1. CASE CrashRestart
  BY <1>1, SameServersKept, RecordsKept, RestRecords
     DEF CrashRestart, cloud, Inv
<1>2. ASSUME NEW m \in Machines, DeleteMachine(m) \/ SetPaused(m) \/ SetOwner(m)
      PROVE  Inv'
  <2>1. stored[m] \in Object
    BY DEF TypeOK, ApiOK
  <2>2. CASE DeleteMachine(m)
    <3> DEFINE o == [stored[m] EXCEPT !.deleting = TRUE,
                                      !.exists = stored[m].finalizer]
    <3>1. EditMachine(m, o) /\ stored[m].exists
      BY <2>2 DEF DeleteMachine, EditMachine
    <3>2. /\ o \in Object
          /\ o.status = stored[m].status
          /\ o.finalizer = stored[m].finalizer
          /\ o.deleting
          /\ o.exists = stored[m].finalizer
      BY <2>1 DEF Object
    <3>3. o.exists = stored[m].exists \/ ~o.finalizer
      BY <2>1, <3>1, <3>2 DEF Object
    <3> HIDE DEF o
    <3> QED BY <3>1, <3>2, <3>3, EditMachineRecords
  <2>3. CASE SetPaused(m)
    <3> DEFINE o == [stored[m] EXCEPT !.paused = ~@]
    <3>1. EditMachine(m, o)
      BY <2>3 DEF SetPaused
    <3>2. /\ o \in Object
          /\ o.status = stored[m].status
          /\ o.finalizer = stored[m].finalizer
          /\ o.deleting = stored[m].deleting
          /\ o.exists = stored[m].exists
      BY <2>1 DEF Object
    <3> HIDE DEF o
    <3> QED BY <3>1, <3>2, EditMachineRecords
  <2>4. CASE SetOwner(m)
    <3> DEFINE o == [stored[m] EXCEPT !.owned = TRUE]
    <3>1. EditMachine(m, o)
      BY <2>4 DEF SetOwner
    <3>2. /\ o \in Object
          /\ o.status = stored[m].status
          /\ o.finalizer = stored[m].finalizer
          /\ o.deleting = stored[m].deleting
          /\ o.exists = stored[m].exists
      BY <2>1 DEF Object
    <3> HIDE DEF o
    <3> QED BY <3>1, <3>2, EditMachineRecords
  <2> QED BY <1>2, <2>2, <2>3, <2>4
<1>3. CASE UNCHANGED <<stored, worker, servers>>
  BY <1>3, SameServersKept, OtherStep
<1>4. ASSUME NEW s \in Servers, PowerOn(s) \/ RemoveExternally(s)
      PROVE  Inv'
  <2>1. UNCHANGED <<stored, worker>>
    BY <1>4 DEF PowerOn, RemoveExternally, api
  <2> QED BY <1>4, <2>1, PowerOnKept, OtherStep
<1> QED
  BY <1>1, <1>2, <1>3, <1>4
     DEF Environment, PublishBootstrap, AdvanceCluster, RecordVLAN, api, cloud

-----------------------------------------------------------------------------
(***************************************************************************)
(* The invariant, and what it implies.                                     *)
(***************************************************************************)

LEMMA StartRecords == ControllerInit => Inv
BY DEF ControllerInit, NewMachine, Inv, Records, Recorded, ServerOf

LEMMA InitRecords == Init => Inv
BY StartRecords DEF Init

LEMMA NextRecords ==
    ASSUME "staleCache" \notin Events
    PROVE  TypeOK /\ Inv /\ [Next]_vars => Inv'
<1> SUFFICES ASSUME TypeOK, Inv, [Next]_vars
             PROVE  Inv'
  OBVIOUS
<1>1. ASSUME NEW m \in Machines, ReconcileGone(m) \/ CacheSync(m)
      PROVE  Inv'
  BY <1>1, SameServersKept, OtherStep DEF ReconcileGone, CacheSync, api, cloud
<1>2. ASSUME NEW m \in Machines, Reconcile(m)
      PROVE  Inv'
  BY <1>2, ReconcileRecords
<1>3. CASE Continue
  BY <1>3, ReconcileNormalRecords, ReconcileServerRecords,
     ReconcileDeleteRecords, PatchRecords DEF Continue
<1>4. CASE Environment
  BY <1>4, EnvironmentRecords
<1>5. CASE UNCHANGED vars
  BY <1>5, SameServersKept, OtherStep DEF vars, api, cloud
<1> QED BY <1>1, <1>2, <1>3, <1>4, <1>5 DEF Next

LEMMA RecordsInvariant ==
    ASSUME "staleCache" \notin Events
    PROVE  Spec => [](TypeOK /\ Inv)
<1>1. TypeOK /\ Inv /\ [Next]_vars => Inv'
  BY NextRecords
<1> QED BY <1>1, InitType, InitRecords, NextType, PTL DEF Spec

\* When the object of a machine is gone, so is the server in its status: the
\* finalizer outlives every failed, repeated or interrupted deletion.
THEOREM ServerReleased ==
    ASSUME "staleCache" \notin Events
    PROVE  Spec => []ReleasedServer
<1>1. TypeOK /\ Inv => ReleasedServer
  BY DEF Inv, Records, Recorded, ReleasedServer, Deleted, Live
<1> QED BY <1>1, RecordsInvariant, PTL

\* A machine's server boots the user data that its status names and its deletion
\* will remove, whichever of the two patches of the creation is lost.
THEOREM UserDataRecorded ==
    ASSUME "staleCache" \notin Events
    PROVE  Spec => []ServerBootsRecordedUserData
<1>1. TypeOK /\ Inv => ServerBootsRecordedUserData
  BY DEF Inv, Records, Recorded, ServerBootsRecordedUserData
<1> QED BY <1>1, RecordsInvariant, PTL

-----------------------------------------------------------------------------
(***************************************************************************)
(* What a step may never do.                                               *)
(***************************************************************************)

\* Only the two creations bring a server into use.
LEMMA OnlyCreationStartsServer ==
    ASSUME TypeOK, Next, NEW s \in Servers, ~Used(s), Used(s)'
    PROVE  pc = "createServer" /\ StartNewServer(s)
<1>1. servers \in [Servers -> Server]
  BY DEF TypeOK, CloudOK
<1>2. CASE \E r \in Servers : CreateServer(r) \/ CreateServerReplyLost(r)
  <2>1. PICK r \in Servers : pc = "createServer" /\ StartNewServer(r)
    BY <1>2 DEF CreateServer, CreateServerReplyLost
  <2>2. r = s
    BY <1>1, <2>1 DEF StartNewServer, Used
  <2> QED BY <2>1, <2>2
<1>3. CASE AttachServer \/ RemoveServer
             \/ \E r \in Servers : PowerOn(r) \/ RemoveExternally(r)
  <2>1. CASE AttachServer
    <3> DEFINE r == obj.status.serverID
    <3>1. UNCHANGED servers \/ servers' = [servers EXCEPT ![r].vlan = TRUE]
      BY <2>1 DEF AttachServer
    <3> HIDE DEF r
    <3>2. servers'[s].st = servers[s].st
      BY <1>1, <3>1 DEF Server
    <3> QED BY <3>2 DEF Used
  <2>2. CASE RemoveServer
    <3> DEFINE r == obj.status.serverID
    <3>1. servers' = [servers EXCEPT ![r].st = "deleted"] /\ Used(r)
      BY <2>2 DEF RemoveServer, Live, Used
    <3> HIDE DEF r
    <3>2. servers'[s].st = servers[s].st
      BY <1>1, <3>1 DEF Server, Used
    <3> QED BY <3>2 DEF Used
  <2>3. ASSUME NEW r \in Servers, PowerOn(r) \/ RemoveExternally(r)
        PROVE  servers'[s].st = servers[s].st
    <3>1. Used(r)
      BY <2>3 DEF PowerOn, RemoveExternally, Live, Used
    <3>2. r # s
      BY <3>1
    <3> QED BY <1>1, <2>3, <3>2 DEF PowerOn, RemoveExternally
  <2> QED BY <1>3, <2>1, <2>2, <2>3 DEF Used
<1>4. CASE UNCHANGED servers
  BY <1>4 DEF Used
<1> QED
  BY <1>2, <1>3, <1>4
     DEF Next, ReconcileGone, Reconcile, CacheSync, Continue, ReconcileNormal,
         AddFinalizer, SkipSettled, WaitForOwner, RejectWorker, RejectSpec,
         StartServer, ReconcileServer, ServerRunning, ServerStarting, ServerLost,
         WaitForBootstrap, ReuseUserData, CreateUserData, CreateUserDataReplyLost,
         StoreUserData, CreateServerOutOfStock, RequestFails, ReconcileDelete,
         NoServerToDelete, DeleteServer, DeleteServerReplyLost,
         DeleteServerFails, DeleteUserData, Patch, PatchObject, SkipPatchObject,
         PatchObjectFails, PatchStatus, SkipPatchStatus, PatchStatusFails,
         Environment, CrashRestart, DeleteMachine, SetPaused, SetOwner,
         EditMachine, PublishBootstrap, AdvanceCluster, RecordVLAN, cloud

\* No server is created for a machine that is ready or has failed: the worker
\* reads the status it has itself written last.
THEOREM NoServerOnceSettled ==
    ASSUME "staleCache" \notin Events
    PROVE  Spec => SettledGetsNoServer
<1> DEFINE Step ==
      \A s \in Servers :
        servers[s].st = "unused" /\ servers'[s].st # "unused" =>
            ~Settled(stored[servers'[s].owner])
<1>1. TypeOK /\ Inv /\ [Next]_vars => [Step]_vars
  <2> SUFFICES ASSUME TypeOK, Inv, Next, NEW s \in Servers,
                      servers[s].st = "unused", servers'[s].st # "unused"
               PROVE  ~Settled(stored[servers'[s].owner])
    OBVIOUS
  <2>1. pc = "createServer" /\ StartNewServer(s)
    BY OnlyCreationStartsServer DEF Used
  <2>2. key # None
    BY <2>1 DEF TypeOK, WorkerOK
  <2>3. servers'[s].owner = key
    BY <2>1 DEF StartNewServer, TypeOK, CloudOK
  <2>4. Provisioning /\ Unshared(key)
    BY <2>1, <2>2 DEF Inv, AtWork, Placed, GoingTo
  <2> QED BY <2>3, <2>4 DEF Provisioning, Unshared, SameProgress, Settled
<1>2. Spec => [][Step]_vars
  BY <1>1, RecordsInvariant, PTL DEF Spec
<1> QED BY <1>2 DEF SettledGetsNoServer

\* Only a patch of the status changes what is stored there.
LEMMA OnlyPatchWritesStatus ==
    ASSUME TypeOK, Next, NEW m \in Machines, stored'[m].status # stored[m].status
    PROVE  PatchStatus /\ m = key
<1>1. stored \in [Machines -> Object]
  BY DEF TypeOK, ApiOK
<1>2. CASE PatchStatus
  BY <1>1, <1>2 DEF PatchStatus
<1>3. CASE PatchObject
  BY <1>1, <1>3 DEF PatchObject, MergeSpec, Object
<1>4. ASSUME NEW n \in Machines, DeleteMachine(n) \/ SetPaused(n) \/ SetOwner(n)
      PROVE  stored'[m].status = stored[m].status
  <2>1. PICK o : o.status = stored[n].status /\ EditMachine(n, o)
    <3>1. stored[n] \in Object
      BY <1>1
    <3>2. CASE DeleteMachine(n)
      BY <3>1, <3>2 DEF DeleteMachine, Object
    <3>3. CASE SetPaused(n)
      BY <3>1, <3>3 DEF SetPaused, Object
    <3>4. CASE SetOwner(n)
      BY <3>1, <3>4 DEF SetOwner, Object
    <3> QED BY <1>4, <3>2, <3>3, <3>4
  <2> QED BY <1>1, <2>1 DEF EditMachine
<1>5. CASE UNCHANGED stored
  BY <1>5
<1> QED
  BY <1>2, <1>3, <1>4, <1>5
     DEF Next, ReconcileGone, Reconcile, CacheSync, Continue, ReconcileNormal,
         AddFinalizer, SkipSettled, WaitForOwner, RejectWorker, RejectSpec,
         StartServer, ReconcileServer, ServerRunning, ServerStarting, ServerLost,
         WaitForBootstrap, ReuseUserData, CreateUserData, CreateUserDataReplyLost,
         CreateServer, CreateServerReplyLost, CreateServerOutOfStock,
         RequestFails, AttachServer, ReconcileDelete, NoServerToDelete,
         DeleteServer, DeleteServerReplyLost, DeleteServerFails, DeleteUserData,
         Patch, SkipPatchObject, PatchObjectFails, SkipPatchStatus,
         PatchStatusFails, Environment, CrashRestart, PublishBootstrap,
         AdvanceCluster, RecordVLAN, PowerOn, RemoveExternally, api

\* A machine that is ready, or has failed for good, keeps the server it has on
\* record, whatever fails: the worker reads the status it has itself written
\* last, so a reconciliation that forgets a server has read neither ready nor
\* failed, and nobody else has written them since.
THEOREM SettledMachineKeepsServer ==
    ASSUME "staleCache" \notin Events
    PROVE  Spec => SettledKeepsServer
<1> DEFINE Step ==
      \A m \in Machines : Settled(stored[m]) => ServerOf(m)' = ServerOf(m)
<1>1. TypeOK /\ Inv /\ [Next]_vars => [Step]_vars
  <2> SUFFICES ASSUME TypeOK, Inv, Next, NEW m \in Machines,
                      Settled(stored[m]), ServerOf(m)' # ServerOf(m)
               PROVE  FALSE
    OBVIOUS
  <2>1. PatchStatus /\ m = key
    BY OnlyPatchWritesStatus DEF ServerOf
  <2>2. key # None
    BY <2>1, MachineAssumption
  <2>3. Unshared(key) /\ Edited
    BY <2>2 DEF Inv, AtWork
  <2>4. ServerOf(m)' = obj.status.serverID
    <3>1. stored'[key].status =
            MergeStatus(before.status, obj.status, stored[key].status)
      BY <2>1 DEF PatchStatus, TypeOK, ApiOK, Object
    <3> QED BY <2>1, <2>2, <3>1, MergedIsInHand DEF ServerOf
  <2>5. obj.status.serverID # before.status.serverID
    BY <2>1, <2>3, <2>4 DEF Unshared, ServerOf
  <2>6. ~Settled(before)
    BY <2>3, <2>5 DEF Edited
  <2> QED BY <2>1, <2>3, <2>6 DEF Unshared, SameProgress, Settled
<1>2. Spec => [][Step]_vars
  BY <1>1, RecordsInvariant, PTL DEF Spec
<1> QED BY <1>2 DEF SettledKeepsServer

-----------------------------------------------------------------------------
(***************************************************************************)
(* What a step does to the object in hand, to the stored objects, and to   *)
(* what is alive at Latitude.sh: the lemmas the invariants below share.    *)
(***************************************************************************)

Handler == ReconcileNormal \/ ReconcileServer \/ ReconcileDelete

LEMMA HandlerStep ==
    ASSUME TypeOK, Handler
    PROVE  /\ key # None
           /\ pc \notin {"patchObject", "patchStatus"}
           /\ pc' # "patchStatus"
           /\ UNCHANGED <<stored, key, before>>
BY DEF TypeOK, WorkerOK, Handler, ReconcileNormal, AddFinalizer, SkipSettled,
       WaitForOwner, RejectWorker, RejectSpec, StartServer, Unsettled,
       ReconcileServer, ServerRunning, ServerStarting, ServerLost,
       WaitForBootstrap, ReuseUserData, CreateUserData, CreateUserDataReplyLost,
       NeedsUserData, CreateServer, CreateServerReplyLost, CreateServerOutOfStock,
       RequestFails, AttachServer, ReconcileDelete, NoServerToDelete,
       DeleteServer, RemoveServer, DeleteServerReplyLost, DeleteServerFails,
       DeleteUserData, DeletionFails, RetryLater, Known, Creating, AtServer,
       Return, Persist, GoTo, api

\* Most steps of a handler leave the object as it was, but for its condition.
LEMMA HandlerEdits ==
    ASSUME TypeOK, Handler
    PROVE  \/ Agree(obj', obj)
           \/ obj' = SetMachineFailed(obj)
           \/ AddFinalizer
           \/ DeleteUserData
           \/ ServerRunning
           \/ ServerLost
           \/ \E u \in UserData : CreateUserData(u)
           \/ \E s \in Servers : CreateServer(s)
<1>1. obj \in Object
  BY DEF TypeOK, WorkerOK
<1>2. CASE UNCHANGED obj
  BY <1>2 DEF Agree, SameProgress
<1>3. CASE \E c \in Conditions : obj' = SetCondition(obj, c)
  BY <1>1, <1>3, ConditionAgrees
<1>4. CASE ReconcileNormal
  BY <1>2, <1>3, <1>4
     DEF ReconcileNormal, SkipSettled, WaitForOwner, RejectWorker, RejectSpec,
         StartServer, Return, GoTo, Conditions
<1>5. CASE ReconcileServer
  BY <1>2, <1>3, <1>5
     DEF ReconcileServer, ServerStarting, WaitForBootstrap, ReuseUserData,
         CreateUserDataReplyLost, CreateServerReplyLost, CreateServerOutOfStock,
         RequestFails, AttachServer, RetryLater, Return, GoTo, Conditions
<1>6. CASE ReconcileDelete
  BY <1>2, <1>3, <1>6
     DEF ReconcileDelete, NoServerToDelete, DeleteServer, DeleteServerReplyLost,
         DeleteServerFails, DeletionFails, Return, GoTo, Conditions
<1> QED BY <1>4, <1>5, <1>6 DEF Handler

LEMMA FailedAgrees ==
    ASSUME NEW o \in Object
    PROVE  LET f == SetMachineFailed(o)
           IN  /\ f.finalizer = o.finalizer
               /\ f.providerID = o.providerID
               /\ f.status.ready = FALSE
               /\ f.status.serverID = o.status.serverID
               /\ f.status.userDataID = o.status.userDataID
BY DEF SetMachineFailed, SetCondition, Object, Status

\* The steps that are none of the controller's handlers or patches.
Bystander ==
    \/ \E m \in Machines : ReconcileGone(m) \/ CacheSync(m)
    \/ Environment
    \/ UNCHANGED vars

NextCases ==
    \/ \E m \in Machines : Reconcile(m)
    \/ Handler
    \/ Patch
    \/ Bystander

LEMMA NextIsOneOf == [Next]_vars => NextCases
BY DEF Next, NextCases, Continue, Handler, Bystander

\* What the controller writes of an object stays as it is.
Written(m) ==
    /\ stored'[m].status = stored[m].status
    /\ stored'[m].providerID = stored[m].providerID
    /\ stored'[m].finalizer = stored[m].finalizer
    /\ stored'[m].exists => stored[m].exists

LEMMA BystanderEdits ==
    ASSUME TypeOK, Bystander
    PROVE  /\ \A m \in Machines : Written(m)
           /\ UNCHANGED worker \/ CrashRestart
<1>1. stored \in [Machines -> Object]
  BY DEF TypeOK, ApiOK
<1>2. ASSUME NEW n \in Machines, DeleteMachine(n) \/ SetPaused(n) \/ SetOwner(n)
      PROVE  (\A m \in Machines : Written(m)) /\ UNCHANGED worker
  <2>1. PICK o : /\ o.status = stored[n].status
                 /\ o.providerID = stored[n].providerID
                 /\ o.finalizer = stored[n].finalizer
                 /\ EditMachine(n, o)
    <3>1. stored[n] \in Object
      BY <1>1
    <3>2. CASE DeleteMachine(n)
      BY <3>1, <3>2 DEF DeleteMachine, Object
    <3>3. CASE SetPaused(n)
      BY <3>1, <3>3 DEF SetPaused, Object
    <3>4. CASE SetOwner(n)
      BY <3>1, <3>4 DEF SetOwner, Object
    <3> QED BY <1>2, <3>2, <3>3, <3>4
  <2>2. /\ stored[n].exists
        /\ stored' = [stored EXCEPT ![n] = o]
        /\ UNCHANGED worker
    BY <2>1 DEF EditMachine
  <2> QED BY <1>1, <2>1, <2>2 DEF Written
<1>3. CASE CrashRestart
  BY <1>3 DEF CrashRestart, Written
<1>4. CASE UNCHANGED <<stored, worker>>
  BY <1>4 DEF Written
<1> QED
  BY <1>2, <1>3, <1>4
     DEF Bystander, ReconcileGone, CacheSync, Environment, PublishBootstrap,
         AdvanceCluster, RecordVLAN, PowerOn, RemoveExternally, vars, api

\* Only the two creations bring a server to life.
LEMMA OnlyCreationGivesServer ==
    ASSUME TypeOK, NextCases, NEW s \in Servers, Live(s)'
    PROVE  \/ Live(s) /\ servers'[s].owner = servers[s].owner
           \/ CreateServer(s)
           \/ CreateServerReplyLost(s)
<1>1. servers \in [Servers -> Server]
  BY DEF TypeOK, CloudOK
<1>2. ASSUME NEW r \in Servers, CreateServer(r) \/ CreateServerReplyLost(r)
      PROVE  r = s \/ servers'[s] = servers[s]
  BY <1>1, <1>2 DEF CreateServer, CreateServerReplyLost, StartNewServer
<1>3. CASE AttachServer
  <2> DEFINE r == obj.status.serverID
  <2>1. UNCHANGED servers \/ servers' = [servers EXCEPT ![r].vlan = TRUE]
    BY <1>3 DEF AttachServer
  <2> HIDE DEF r
  <2>2. servers'[s].st = servers[s].st /\ servers'[s].owner = servers[s].owner
    BY <1>1, <2>1 DEF Server
  <2> QED BY <2>2 DEF Live
<1>4. CASE RemoveServer
  <2> DEFINE r == obj.status.serverID
  <2>1. servers' = [servers EXCEPT ![r].st = "deleted"]
    BY <1>4 DEF RemoveServer
  <2> HIDE DEF r
  <2>2. /\ servers'[s].owner = servers[s].owner
        /\ servers'[s].st \in {servers[s].st, "deleted"}
    BY <1>1, <2>1 DEF Server
  <2> QED BY <2>2 DEF Live
<1>5. ASSUME NEW r \in Servers, PowerOn(r) \/ RemoveExternally(r)
      PROVE  Live(s) /\ servers'[s].owner = servers[s].owner
  <2>1. CASE PowerOn(r)
    <3>1. PICK a : servers' = [servers EXCEPT ![r].st = "on", ![r].address = a]
      BY <2>1 DEF PowerOn
    <3>2. servers[r].st = "off"
      BY <2>1 DEF PowerOn
    <3> QED BY <1>1, <3>1, <3>2 DEF Server, Live
  <2>2. CASE RemoveExternally(r)
    BY <1>1, <2>2 DEF RemoveExternally, Live, Server
  <2> QED BY <1>5, <2>1, <2>2
<1>6. CASE UNCHANGED servers
  BY <1>6 DEF Live
<1> QED
  BY <1>2, <1>3, <1>4, <1>5, <1>6
     DEF NextCases, Live, Reconcile, Handler, ReconcileNormal,
         AddFinalizer, SkipSettled, WaitForOwner, RejectWorker, RejectSpec,
         StartServer, ReconcileServer, ServerRunning, ServerStarting, ServerLost,
         WaitForBootstrap, ReuseUserData, CreateUserData, CreateUserDataReplyLost,
         StoreUserData, CreateServerOutOfStock, RequestFails, ReconcileDelete,
         NoServerToDelete, DeleteServer, DeleteServerReplyLost,
         DeleteServerFails, DeleteUserData, Patch, PatchObject, SkipPatchObject,
         PatchObjectFails, PatchStatus, SkipPatchStatus, PatchStatusFails,
         Bystander, ReconcileGone, CacheSync, Environment, CrashRestart,
         DeleteMachine, SetPaused, SetOwner, EditMachine, PublishBootstrap,
         AdvanceCluster, RecordVLAN, cloud, vars

\* Only the two creations bring user data to life.
LEMMA OnlyCreationGivesUserData ==
    ASSUME TypeOK, NextCases, NEW u \in UserData, userData'[u].st = "live"
    PROVE  \/ /\ userData[u].st = "live"
              /\ userData'[u].owner = userData[u].owner
           \/ CreateUserData(u)
           \/ CreateUserDataReplyLost(u)
<1>1. userData \in [UserData -> Datum]
  BY DEF TypeOK, CloudOK
<1>2. ASSUME NEW v \in UserData, CreateUserData(v) \/ CreateUserDataReplyLost(v)
      PROVE  v = u \/ userData'[u] = userData[u]
  BY <1>1, <1>2 DEF CreateUserData, CreateUserDataReplyLost, StoreUserData
<1>3. CASE DeleteUserData
  <2> DEFINE v == obj.status.userDataID
  <2>1. UNCHANGED userData \/ userData' = [userData EXCEPT ![v].st = "deleted"]
    BY <1>3 DEF DeleteUserData
  <2> HIDE DEF v
  <2> QED BY <1>1, <2>1 DEF Datum
<1>4. CASE UNCHANGED userData
  BY <1>4
<1> QED
  BY <1>2, <1>3, <1>4
     DEF NextCases, Reconcile, Handler, ReconcileNormal,
         AddFinalizer, SkipSettled, WaitForOwner, RejectWorker, RejectSpec,
         StartServer, ReconcileServer, ServerRunning, ServerStarting, ServerLost,
         WaitForBootstrap, ReuseUserData, CreateServer, CreateServerReplyLost,
         StartNewServer, CreateServerOutOfStock, RequestFails, AttachServer,
         ReconcileDelete, NoServerToDelete, DeleteServer, RemoveServer,
         DeleteServerReplyLost, DeleteServerFails, Patch, PatchObject,
         SkipPatchObject, PatchObjectFails, PatchStatus, SkipPatchStatus,
         PatchStatusFails, Bystander, ReconcileGone, CacheSync, Environment,
         CrashRestart, DeleteMachine, SetPaused, SetOwner, EditMachine,
         PublishBootstrap, AdvanceCluster, RecordVLAN, PowerOn,
         RemoveExternally, cloud, vars

\* The object's patch.
LEMMA PatchObjectWrites ==
    ASSUME TypeOK, Inv, PatchObject
    PROVE  /\ key \in Machines /\ key # None
           /\ pc' = "patchStatus"
           /\ UNCHANGED <<key, before, obj, then>>
           /\ \A m \in Machines : m # key => stored'[m] = stored[m]
           /\ stored[key].exists
           /\ stored'[key].status = stored[key].status
           /\ stored'[key].finalizer = obj.finalizer
           /\ stored'[key].providerID = Merged(before.providerID, obj.providerID,
                                               stored[key].providerID)
           /\ ~stored'[key].exists => ~obj.finalizer
<1>1. /\ pc' = "patchStatus" /\ key # None
      /\ stored[key].exists
      /\ stored' = [stored EXCEPT ![key] = MergeSpec(before, obj, stored[key])]
      /\ UNCHANGED <<key, before, obj, then>>
  BY DEF TypeOK, WorkerOK, PatchObject, GoTo
<1>2. /\ key \in Machines
      /\ stored \in [Machines -> Object]
      /\ stored[key] \in Object /\ before \in Object /\ obj \in Object
      /\ Unshared(key)
  BY <1>1, TypesAtWork DEF TypeOK, ApiOK, Inv, AtWork
<1>3. /\ \A m \in Machines : m # key => stored'[m] = stored[m]
      /\ stored'[key] = MergeSpec(before, obj, stored[key])
  BY <1>1, <1>2
<1>4. Merged(before.finalizer, obj.finalizer, stored[key].finalizer) = obj.finalizer
  BY <1>2 DEF Unshared, Merged
<1>5. /\ stored'[key].status = stored[key].status
      /\ stored'[key].finalizer = obj.finalizer
      /\ stored'[key].providerID = Merged(before.providerID, obj.providerID,
                                          stored[key].providerID)
      /\ stored'[key].exists =
           (stored[key].exists /\ (stored[key].deleting => obj.finalizer))
  BY <1>2, <1>3, <1>4 DEF MergeSpec, Object
<1> QED BY <1>1, <1>2, <1>3, <1>5

\* The status's patch.
LEMMA PatchStatusWrites ==
    ASSUME TypeOK, Inv, PatchStatus
    PROVE  /\ key \in Machines /\ key # None /\ pc = "patchStatus"
           /\ Patched(FALSE)
           /\ \A m \in Machines : m # key => stored'[m] = stored[m]
           /\ stored[key].exists
           /\ stored'[key].exists = stored[key].exists
           /\ stored'[key].finalizer = stored[key].finalizer
           /\ stored'[key].providerID = stored[key].providerID
           /\ SameProgress(stored'[key].status, obj.status)
           /\ stored'[key].status.serverID = obj.status.serverID
           /\ stored'[key].status.userDataID = obj.status.userDataID
<1> DEFINE known == MergeStatus(before.status, obj.status, stored[key].status)
<1>1. /\ pc = "patchStatus" /\ key # None
      /\ stored[key].exists
      /\ stored' = [stored EXCEPT ![key].status = known]
      /\ Patched(FALSE)
  BY DEF TypeOK, WorkerOK, PatchStatus
<1>2. key \in Machines /\ stored \in [Machines -> Object]
  BY <1>1, TypesAtWork DEF TypeOK, ApiOK
<1>3. /\ SameProgress(known, obj.status)
      /\ known.serverID = obj.status.serverID
      /\ known.userDataID = obj.status.userDataID
  BY <1>1, MergedIsInHand
<1> HIDE DEF known
<1>4. /\ \A m \in Machines : m # key => stored'[m] = stored[m]
      /\ stored'[key].status = known
      /\ stored'[key].exists = stored[key].exists
      /\ stored'[key].finalizer = stored[key].finalizer
      /\ stored'[key].providerID = stored[key].providerID
  BY <1>1, <1>2 DEF Object
<1> QED BY <1>1, <1>2, <1>3, <1>4

\* The patch returns to reconcileServer, or ends the reconciliation.
LEMMA PatchedCases ==
    ASSUME TypeOK, NEW failed, Patched(failed)
    PROVE  \/ Rest
           \/ /\ then \in {"createServer", "attach"}
              /\ pc' = then
              /\ UNCHANGED <<key, before, obj, then>>
BY DEF TypeOK, WorkerOK, Patched, GoTo

\* The patches that write nothing.  Without a refusal by the API server they are
\* those with nothing to write, and those of an object that is gone.
LEMMA PatchWithoutWrite ==
    ASSUME "patchError" \notin Events, TypeOK,
           Patch, ~PatchObject, ~PatchStatus
    PROVE  /\ key \in Machines /\ key # None
           /\ UNCHANGED stored
           /\ \/ /\ pc = "patchObject" /\ pc' = "patchStatus"
                 /\ UNCHANGED <<key, before, obj, then>>
                 /\ ~SpecChanged \/ ~stored[key].exists
              \/ /\ pc = "patchStatus"
                 /\ \E failed : Patched(failed)
                 /\ ~StatusChanged \/ ~stored[key].exists
BY TypesAtWork
   DEF TypeOK, WorkerOK, Patch, SkipPatchObject, PatchObjectFails, SkipPatchStatus,
       PatchStatusFails, GoTo, api

-----------------------------------------------------------------------------
(***************************************************************************)
(* An object that is gone has no finalizer.                                *)
(***************************************************************************)

Gone == \A m \in Machines : ~stored[m].exists => ~stored[m].finalizer

LEMMA NextGone ==
    ASSUME TypeOK, Inv, Gone, NextCases
    PROVE  Gone'
<1> SUFFICES ASSUME NEW m \in Machines, ~stored'[m].exists
             PROVE  ~stored'[m].finalizer
  BY DEF Gone
<1>1. ~stored[m].exists => ~stored[m].finalizer
  BY DEF Gone
<1>2. CASE PatchObject
  BY <1>1, <1>2, PatchObjectWrites
<1>3. CASE PatchStatus
  BY <1>1, <1>3, PatchStatusWrites
<1>4. ASSUME NEW n \in Machines, DeleteMachine(n)
      PROVE  ~stored'[m].finalizer
  <2>1. stored \in [Machines -> Object]
    BY DEF TypeOK, ApiOK
  <2> QED BY <1>1, <1>4, <2>1 DEF DeleteMachine, EditMachine, Object
<1>5. ASSUME NEW n \in Machines, SetPaused(n) \/ SetOwner(n)
      PROVE  ~stored'[m].finalizer
  <2>1. stored \in [Machines -> Object]
    BY DEF TypeOK, ApiOK
  <2> QED BY <1>1, <1>5, <2>1 DEF SetPaused, SetOwner, EditMachine, Object
<1>6. CASE UNCHANGED stored
  BY <1>1, <1>6
<1>7. CASE Handler
  BY <1>6, <1>7, HandlerStep
<1> QED
  BY <1>2, <1>3, <1>4, <1>5, <1>6, <1>7
     DEF NextCases, Reconcile, Patch, SkipPatchObject, PatchObjectFails,
         SkipPatchStatus, PatchStatusFails, Bystander, ReconcileGone, CacheSync,
         Environment, CrashRestart, PublishBootstrap, AdvanceCluster, RecordVLAN,
         PowerOn, RemoveExternally, api, vars

LEMMA StartGone == ControllerInit => Gone
BY DEF ControllerInit, NewMachine, Gone

LEMMA InitGone == Init => Gone
BY StartGone DEF Init

-----------------------------------------------------------------------------
(***************************************************************************)
(* The provider ID of a ready machine.                                     *)
(***************************************************************************)

\* The worker changes a provider ID only on the way to "ready", in the two
\* patches that end the reconciliation, and the first patch has stored it by the
\* time the second one stores "ready".
Naming(m) ==
    /\ obj.providerID = before.providerID =>
         stored[m].providerID = before.providerID
    /\ obj.providerID # before.providerID =>
         obj.status.ready /\ ~before.status.ready
    /\ obj.status.ready /\ ~before.status.ready =>
         /\ obj.providerID = obj.status.serverID
         /\ then = "return" /\ pc \in {"patchObject", "patchStatus"}
    /\ pc = "patchStatus" /\ stored[m].exists =>
         stored[m].providerID = obj.providerID

Names == ReadyHasProviderID /\ (key # None => Naming(key))

\* No handler touches the provider ID but the one that makes the machine ready.
LEMMA HandlerNaming ==
    ASSUME TypeOK, Inv, Handler, Names
    PROVE  Names'
<1>1. /\ key # None /\ pc \notin {"patchObject", "patchStatus"}
      /\ pc' # "patchStatus" /\ UNCHANGED <<stored, key, before>>
  BY HandlerStep
<1>2. Naming(key) /\ Edited /\ Placed
  BY <1>1 DEF Names, Inv, AtWork
<1>3. obj \in Object /\ obj.status \in Status
  BY <1>1, TypesAtWork DEF Object
<1>4. /\ obj.providerID = before.providerID
      /\ stored[key].providerID = before.providerID
      /\ obj.status.ready => before.status.ready
  BY <1>1, <1>2 DEF Naming
<1>5. ReadyHasProviderID'
  BY <1>1 DEF Names, ReadyHasProviderID, ServerOf
<1>6. CASE ServerRunning
  <2>1. /\ pc = "reconcileServer" /\ then' = "return" /\ pc' = "patchObject"
        /\ obj'.providerID = obj.status.serverID
        /\ obj'.status.serverID = obj.status.serverID
        /\ obj'.status.ready
    BY <1>3, <1>6 DEF ServerRunning, Known, AtServer, Return, Object, Status
  <2>2. ~before.status.ready
    BY <1>2, <2>1 DEF Placed, Provisioning, Settled
  <2> QED BY <1>1, <1>4, <1>5, <2>1, <2>2 DEF Names, Naming
<1>7. CASE obj'.providerID = obj.providerID /\ (obj'.status.ready => obj.status.ready)
  BY <1>1, <1>4, <1>5, <1>7 DEF Names, Naming
<1>8. CASE AddFinalizer \/ DeleteUserData
  BY <1>3, <1>7, <1>8 DEF AddFinalizer, DeleteUserData, Return, Object
<1>9. CASE ServerLost
  BY <1>3, <1>7, <1>9 DEF ServerLost, Object, Status
<1>10. ASSUME NEW u \in UserData, CreateUserData(u)
       PROVE  Names'
  BY <1>3, <1>7, <1>10 DEF CreateUserData, Persist, Object, Status
<1>11. ASSUME NEW s \in Servers, CreateServer(s)
       PROVE  Names'
  BY <1>3, <1>7, <1>11 DEF CreateServer, Persist, Object, Status
<1>12. CASE Agree(obj', obj)
  BY <1>7, <1>12 DEF Agree, SameProgress
<1>13. CASE obj' = SetMachineFailed(obj)
  BY <1>3, <1>7, <1>13, FailedAgrees
<1> QED
  BY <1>6, <1>8, <1>9, <1>10, <1>11, <1>12, <1>13, HandlerEdits

\* The object's patch stores the provider ID in hand, and never that of another
\* machine's object; where it is refused for an object that is gone, no status
\* will be stored either.
LEMMA PatchNaming ==
    ASSUME "patchError" \notin Events, TypeOK, Inv, Patch, Names
    PROVE  Names'
<1>1. /\ key \in Machines /\ key # None
      /\ pc = "patchObject" \/ pc = "patchStatus"
  BY TypesAtWork
     DEF TypeOK, WorkerOK, Patch, PatchObject, SkipPatchObject, PatchObjectFails,
         PatchStatus, SkipPatchStatus, PatchStatusFails
<1>2. Naming(key) /\ Edited /\ Unshared(key) /\ Recorded(key)
  BY <1>1 DEF Names, Inv, AtWork, Records
<1>3. \A m \in Machines :
        stored[m].status.ready =>
          stored[m].providerID # None /\ stored[m].providerID = ServerOf(m)
  BY DEF Names, ReadyHasProviderID
<1>4. CASE PatchObject
  <2>1. /\ pc' = "patchStatus"
        /\ UNCHANGED <<key, before, obj, then>>
        /\ \A m \in Machines : m # key => stored'[m] = stored[m]
        /\ stored'[key].status = stored[key].status
        /\ stored'[key].providerID = Merged(before.providerID, obj.providerID,
                                            stored[key].providerID)
    BY <1>4, PatchObjectWrites
  <2>2. stored'[key].providerID = obj.providerID
    BY <1>2, <2>1 DEF Merged, Naming
  <2>3. stored[key].status.ready => stored'[key].providerID = stored[key].providerID
    BY <1>2, <2>1 DEF Merged, Naming, Unshared, SameProgress
  <2>4. ReadyHasProviderID'
    BY <1>3, <2>1, <2>3 DEF ReadyHasProviderID, ServerOf
  <2>5. Naming(key)'
    BY <1>2, <2>1, <2>2 DEF Naming
  <2> QED BY <2>4, <2>5 DEF Names
<1>5. CASE PatchStatus
  <2>1. /\ pc = "patchStatus" /\ Patched(FALSE)
        /\ \A m \in Machines : m # key => stored'[m] = stored[m]
        /\ stored[key].exists
        /\ stored'[key].providerID = stored[key].providerID
        /\ SameProgress(stored'[key].status, obj.status)
        /\ stored'[key].status.serverID = obj.status.serverID
    BY <1>5, PatchStatusWrites
  <2>2. stored[key].providerID = obj.providerID
    BY <1>2, <2>1 DEF Naming
  <2>3. CASE obj.status.ready /\ ~before.status.ready
    <3>1. obj.providerID = obj.status.serverID /\ obj.status.serverID # None
      BY <1>2, <2>3 DEF Naming, Edited
    <3> QED
      <4>1. ReadyHasProviderID'
        BY <1>3, <2>1, <2>2, <3>1 DEF ReadyHasProviderID, ServerOf
      <4>2. then = "return"
        BY <1>2, <2>3 DEF Naming
      <4>3. Rest
        BY <2>1, <4>2 DEF Patched
      <4> QED BY <4>1, <4>3 DEF Names, Rest
  <2>4. CASE obj.status.ready => before.status.ready
    <3>1. obj.status.ready =>
            /\ stored[key].status.ready
            /\ stored[key].status.serverID = obj.status.serverID
      BY <1>2, <2>4 DEF Edited, Unshared, SameProgress, Settled
    <3>2. ReadyHasProviderID'
      BY <1>1, <1>3, <2>1, <3>1 DEF ReadyHasProviderID, ServerOf, SameProgress
    <3>3. CASE Rest
      BY <3>2, <3>3 DEF Names, Rest
    <3>4. CASE /\ then \in {"createServer", "attach"} /\ pc' = then
               /\ UNCHANGED <<key, before, obj, then>>
      BY <1>2, <2>1, <2>2, <2>4, <3>2, <3>4 DEF Names, Naming
    <3> QED BY <2>1, <3>3, <3>4, PatchedCases
  <2> QED BY <2>3, <2>4
<1>6. CASE ~PatchObject /\ ~PatchStatus
  <2>1. UNCHANGED stored
    BY <1>6, PatchWithoutWrite
  <2>2. ReadyHasProviderID'
    BY <2>1 DEF Names, ReadyHasProviderID, ServerOf
  <2>3. CASE /\ pc = "patchObject" /\ pc' = "patchStatus"
             /\ UNCHANGED <<key, before, obj, then>>
             /\ ~SpecChanged \/ ~stored[key].exists
    BY <1>2, <2>1, <2>2, <2>3 DEF Names, Naming, SpecChanged
  <2>4. CASE pc = "patchStatus" /\ \E failed : Patched(failed)
    <3>1. CASE Rest
      BY <2>2, <3>1 DEF Names, Rest
    <3>2. CASE /\ then \in {"createServer", "attach"} /\ pc' = then
               /\ UNCHANGED <<key, before, obj, then>>
      BY <1>2, <2>1, <2>2, <3>2 DEF Names, Naming
    <3> QED BY <2>4, <3>1, <3>2, PatchedCases
  <2> QED BY <1>6, <2>3, <2>4, PatchWithoutWrite
<1> QED BY <1>4, <1>5, <1>6

LEMMA NextNames ==
    ASSUME "staleCache" \notin Events, "patchError" \notin Events,
           TypeOK, Inv, Names, NextCases
    PROVE  Names'
<1>1. ASSUME NEW m \in Machines, Reconcile(m)
      PROVE  Names'
  <2>1. /\ key' = m /\ before' = stored[m] /\ obj' = stored[m]
        /\ UNCHANGED stored /\ pc' # "patchStatus"
    BY <1>1 DEF Reconcile, api
  <2>2. ReadyHasProviderID'
    BY <2>1 DEF Names, ReadyHasProviderID, ServerOf
  <2> QED BY <2>1, <2>2 DEF Names, Naming
<1>2. CASE Handler
  BY <1>2, HandlerNaming
<1>3. CASE Patch
  BY <1>3, PatchNaming
<1>4. CASE Bystander
  <2>1. \A m \in Machines : Written(m)
    BY <1>4, BystanderEdits
  <2>2. ReadyHasProviderID'
    BY <2>1 DEF Names, ReadyHasProviderID, ServerOf, Written
  <2>3. CASE UNCHANGED worker /\ key # None
    <3>1. Naming(key) /\ Written(key)
      BY <2>1, <2>3, TypesAtWork DEF Names
    <3> QED BY <2>2, <2>3, <3>1 DEF Names, Naming, Written, worker
  <2>4. CASE UNCHANGED worker /\ key = None
    BY <2>2, <2>4 DEF Names, worker
  <2>5. CASE CrashRestart
    BY <2>2, <2>5 DEF Names, CrashRestart, Rest
  <2>6. UNCHANGED worker \/ CrashRestart
    BY <1>4, BystanderEdits
  <2> QED BY <2>3, <2>4, <2>5, <2>6
<1> QED BY <1>1, <1>2, <1>3, <1>4 DEF NextCases

LEMMA StartNames == ControllerInit => Names
BY DEF ControllerInit, NewMachine, Names, ReadyHasProviderID

\* A machine that is ready has the provider ID of its server: no crash, lost
\* reply or replaced server brings the status ahead of the object.
THEOREM ProviderIDOfReady ==
    ASSUME "staleCache" \notin Events, "patchError" \notin Events
    PROVE  Spec => []ReadyHasProviderID
<1>1. Init => Names
  BY StartNames DEF Init
<1>2. TypeOK /\ Inv /\ Names /\ [Next]_vars => Names'
  BY NextIsOneOf, NextNames
<1>3. Names => ReadyHasProviderID
  BY DEF Names
<1> QED BY <1>1, <1>2, <1>3, RecordsInvariant, PTL DEF Spec

-----------------------------------------------------------------------------
(***************************************************************************)
(* Every live server is in the record of its machine.                      *)
(***************************************************************************)

\* The server of the machine in hand is in the worker's object, and that of any
\* other machine is stored.
Claimed(s, m) ==
    /\ m # None
    /\ stored[m].finalizer
    /\ s = IF key = m THEN obj.status.serverID ELSE ServerOf(m)

Owned ==
    \A s \in Servers, m \in Machines \union {None} :
        Live(s) /\ servers[s].owner = m => Claimed(s, m)

\* A new server is its machine's only one: the worker had none in hand.
LEMMA CreateServerOwned ==
    ASSUME TypeOK, Inv, Owned, NEW s \in Servers, CreateServer(s)
    PROVE  Owned'
<1>1. /\ pc = "createServer" /\ key # None
      /\ servers[s].st = "unused"
      /\ UNCHANGED <<stored, key, before>>
      /\ obj' = [obj EXCEPT !.status.serverID = s]
  BY DEF TypeOK, WorkerOK, CreateServer, StartNewServer, Persist, api
<1>2. /\ obj'.status.serverID = s
      /\ servers'[s].owner = key
      /\ \A r \in Servers : r # s => servers'[r] = servers[r]
  BY <1>1, TypesAtWork
     DEF CreateServer, StartNewServer, TypeOK, CloudOK, Object, Status
<1>3. /\ obj.status.serverID = None
      /\ before.finalizer /\ obj.finalizer /\ Unshared(key)
  BY <1>1 DEF Inv, AtWork, Placed, GoingTo, Provisioning
<1>4. stored[key].finalizer
  BY <1>1, <1>3, TypesAtWork DEF Unshared, Object
<1> SUFFICES ASSUME NEW r \in Servers, NEW m \in Machines \union {None},
                    Live(r)', servers'[r].owner = m
             PROVE  Claimed(r, m)'
  BY DEF Owned
<1>5. CASE r = s
  BY <1>1, <1>2, <1>4, <1>5 DEF Claimed
<1>6. CASE r # s
  <2>1. servers'[r] = servers[r] /\ Live(r)
    BY <1>2, <1>6 DEF Live
  <2>2. Claimed(r, m)
    BY <2>1 DEF Owned
  <2>3. key # m
    BY <1>3, <2>2, MachineAssumption DEF Claimed
  <2> QED BY <1>1, <2>1, <2>2, <2>3 DEF Claimed, ServerOf
<1> QED BY <1>5, <1>6

\* A step that starts no server keeps the live ones owned, where it keeps what
\* each of their machines claims.
LEMMA OwnedKept ==
    ASSUME Owned,
           \A s \in Servers : Live(s)' => Live(s)
                                /\ servers'[s].owner = servers[s].owner,
           \A s \in Servers, m \in Machines :
             Live(s) /\ servers[s].owner = m /\ Claimed(s, m) => Claimed(s, m)'
    PROVE  Owned'
<1> SUFFICES ASSUME NEW s \in Servers, NEW m \in Machines \union {None},
                    Live(s)', servers'[s].owner = m
             PROVE  Claimed(s, m)'
  BY DEF Owned
<1>1. Live(s) /\ servers[s].owner = m
  OBVIOUS
<1>2. Claimed(s, m)
  BY <1>1 DEF Owned
<1>3. m \in Machines
  BY <1>2 DEF Claimed
<1> QED BY <1>1, <1>2, <1>3

LEMMA HandlerOwned ==
    ASSUME TypeOK, Handler, ~ \E s \in Servers : CreateServer(s),
           "getError" \notin Events,
           NEW s \in Servers, NEW m \in Machines, Live(s), Claimed(s, m)
    PROVE  Claimed(s, m)'
<1>1. key # None /\ UNCHANGED <<stored, key>>
  BY HandlerStep
<1>2. obj \in Object /\ obj.status \in Status
  BY <1>1, TypesAtWork DEF Object
<1>3. obj'.status.serverID = obj.status.serverID
        \/ ~Live(obj.status.serverID)
  <2>1. CASE AddFinalizer \/ DeleteUserData
    BY <1>2, <2>1 DEF AddFinalizer, DeleteUserData, Return, Object
  <2>2. CASE ServerRunning
    BY <1>2, <2>2 DEF ServerRunning, Return, Object, Status
  <2>3. CASE ServerLost
    BY <2>3 DEF ServerLost
  <2>4. ASSUME NEW u \in UserData, CreateUserData(u)
        PROVE  obj'.status.serverID = obj.status.serverID
    BY <1>2, <2>4 DEF CreateUserData, Persist, Object, Status
  <2>5. CASE Agree(obj', obj)
    BY <2>5 DEF Agree
  <2>6. CASE obj' = SetMachineFailed(obj)
    BY <1>2, <2>6, FailedAgrees
  <2> QED BY <2>1, <2>2, <2>3, <2>4, <2>5, <2>6, HandlerEdits
<1> QED BY <1>1, <1>3 DEF Claimed, ServerOf

\* A patch stores what is claimed before the worker lets go of it, and removes a
\* finalizer only for a server that is gone.
LEMMA PatchOwned ==
    ASSUME "patchError" \notin Events, TypeOK, Inv, Gone, Patch,
           NEW s \in Servers, NEW m \in Machines, Live(s), Claimed(s, m)
    PROVE  Claimed(s, m)'
<1>1. key \in Machines /\ key # None
  BY TypesAtWork
     DEF TypeOK, WorkerOK, Patch, PatchObject, SkipPatchObject, PatchObjectFails,
         PatchStatus, SkipPatchStatus, PatchStatusFails
<1>2. Unshared(key) /\ Edited
  BY <1>1 DEF Inv, AtWork
<1>3. s # None /\ m # None
  BY MachineAssumption
<1>4. CASE PatchObject
  <2>1. /\ UNCHANGED <<key, obj>>
        /\ \A n \in Machines : n # key => stored'[n] = stored[n]
        /\ stored'[key].status = stored[key].status
        /\ stored'[key].finalizer = obj.finalizer
    BY <1>4, PatchObjectWrites
  <2>2. m = key => obj.finalizer
    <3>1. CASE m = key /\ ~obj.finalizer
      <4>1. s = obj.status.serverID
        BY <3>1 DEF Claimed
      <4>2. Deleted(s)
        BY <1>2, <1>3, <1>4, <3>1, <4>1 DEF Edited, PatchObject
      <4> QED BY <4>2 DEF Deleted, Live
    <3> QED BY <3>1
  <2> QED BY <2>1, <2>2 DEF Claimed, ServerOf
<1>5. CASE PatchStatus
  <2>1. /\ Patched(FALSE)
        /\ \A n \in Machines : n # key => stored'[n] = stored[n]
        /\ stored'[key].finalizer = stored[key].finalizer
        /\ stored'[key].status.serverID = obj.status.serverID
    BY <1>5, PatchStatusWrites
  <2>2. stored'[m].finalizer /\ (m = key => ServerOf(m)' = obj.status.serverID)
    BY <2>1 DEF ServerOf, Claimed
  <2>3. CASE UNCHANGED <<key, obj>>
    BY <2>1, <2>2, <2>3 DEF Claimed, ServerOf
  <2>4. CASE Rest
    BY <1>1, <1>3, <2>1, <2>2, <2>4 DEF Claimed, ServerOf, Rest
  <2> QED BY <2>1, <2>3, <2>4, PatchedCases
<1>6. CASE ~PatchObject /\ ~PatchStatus
  <2>1. UNCHANGED stored
    BY <1>6, PatchWithoutWrite
  <2>2. CASE UNCHANGED <<key, obj>>
    BY <2>1, <2>2 DEF Claimed, ServerOf
  <2>3. CASE Rest /\ (~StatusChanged \/ ~stored[key].exists)
    <3>1. m = key => stored[key].status.serverID = obj.status.serverID
      BY <1>1, <1>2, <2>3 DEF StatusChanged, Unshared, Gone, Claimed
    <3> QED BY <1>3, <2>1, <2>3, <3>1 DEF Claimed, ServerOf, Rest
  <2> QED BY <1>6, <2>2, <2>3, PatchWithoutWrite, PatchedCases
<1> QED BY <1>4, <1>5, <1>6

\* What the theorem asks of the outside: a reconciliation reads what was written
\* last, is not cut off between a creation and the patch that records it, and
\* gets the replies it is sent.
NoneForgotten ==
    Events \intersect {"staleCache", "crash", "patchError", "lostReply"} = {}

LEMMA NextOwned ==
    ASSUME NoneForgotten, "getError" \notin Events,
           TypeOK, Inv, Gone, Owned, NextCases
    PROVE  Owned'
<1>1. CASE \E s \in Servers : CreateServer(s)
  BY <1>1, CreateServerOwned
<1>2. CASE ~ \E s \in Servers : CreateServer(s)
  <2>1. \A s \in Servers : Live(s)' => Live(s)
                             /\ servers'[s].owner = servers[s].owner
    BY <1>2, OnlyCreationGivesServer DEF CreateServerReplyLost, NoneForgotten
  <2>2. ASSUME NEW s \in Servers, NEW m \in Machines, Live(s), Claimed(s, m)
        PROVE  Claimed(s, m)'
    <3>1. ASSUME NEW n \in Machines, Reconcile(n)
          PROVE  Claimed(s, m)'
      <4>1. /\ key = None /\ key' = n /\ obj' = stored[n]
            /\ UNCHANGED stored
        BY <3>1 DEF Reconcile, TypeOK, WorkerOK, api, NoneForgotten
      <4> QED BY <2>2, <4>1 DEF Claimed, ServerOf
    <3>2. CASE Handler
      BY <1>2, <2>2, <3>2, HandlerOwned
    <3>3. CASE Patch
      BY <2>2, <3>3, PatchOwned DEF NoneForgotten
    <3>4. CASE Bystander
      <4>1. Written(m) /\ UNCHANGED worker
        BY <3>4, BystanderEdits DEF CrashRestart, NoneForgotten
      <4> QED BY <2>2, <4>1 DEF Written, Claimed, ServerOf, worker
    <3> QED BY <3>1, <3>2, <3>3, <3>4 DEF NextCases
  <2> QED BY <2>1, <2>2, OwnedKept
<1> QED BY <1>1, <1>2

\* A live server is in the status of an existing machine or in the worker's
\* hands, and stays so through refused creations, failed and repeated deletions,
\* and deletions and edits by others while a reconciliation runs.
THEOREM NoServerForgotten ==
    ASSUME NoneForgotten, "getError" \notin Events
    PROVE  Spec => []NoOrphan
<1>1. Init => Owned
  BY DEF Init, ControllerInit, Owned, Live
<1>2. TypeOK /\ Inv /\ Gone /\ [Next]_vars => Gone'
  BY NextIsOneOf, NextGone
<1>3. TypeOK /\ Inv /\ Gone /\ Owned /\ [Next]_vars => Owned'
  BY NextIsOneOf, NextOwned
<1>4. TypeOK /\ Gone /\ Owned => NoOrphan
  <2> SUFFICES ASSUME TypeOK, Gone, Owned, NEW s \in Servers, Live(s)
               PROVE  LET m == servers[s].owner
                      IN  /\ stored[m].exists
                          /\ \/ ServerOf(m) = s
                             \/ key = m /\ obj.status.serverID = s
    BY DEF NoOrphan
  <2>1. PICK m \in Machines \union {None} : servers[s].owner = m
    BY DEF TypeOK, CloudOK, Server
  <2>2. Claimed(s, m)
    BY <2>1 DEF Owned
  <2> QED BY <2>1, <2>2 DEF Gone, Claimed
<1>5. Spec => [](TypeOK /\ Inv)
  BY RecordsInvariant DEF NoneForgotten
<1> QED BY <1>1, <1>2, <1>3, <1>4, <1>5, InitGone, PTL DEF Spec

-----------------------------------------------------------------------------
(***************************************************************************)
(* All live user data is in the record of its machine.                     *)
(***************************************************************************)

\* As for a server, but that user data does not hold its machine back: the
\* deletion that finds it cannot be removed lets the machine go.
ClaimedData(u, m) ==
    /\ m # None
    /\ u = IF key = m THEN obj.status.userDataID ELSE stored[m].status.userDataID

DataOwned ==
    \A u \in UserData, m \in Machines \union {None} :
        userData[u].st = "live" /\ userData[u].owner = m => ClaimedData(u, m)

\* User data is only created for a machine that cannot go meanwhile.
DataHeld ==
    key # None /\ obj.status.userDataID # before.status.userDataID =>
        before.finalizer /\ obj.finalizer

\* New user data is its machine's only one: the worker had none in hand.
LEMMA CreateUserDataOwned ==
    ASSUME "emptyReply" \notin Events,
           TypeOK, Inv, DataOwned, NEW u \in UserData, CreateUserData(u)
    PROVE  DataOwned' /\ DataHeld'
<1>1. /\ pc = "reconcileServer" /\ key # None
      /\ obj.status.serverID = None /\ obj.status.userDataID = None
      /\ UNCHANGED <<stored, key, before>>
      /\ obj' = [obj EXCEPT !.status.userDataID = u]
  BY DEF TypeOK, WorkerOK, CreateUserData, NeedsUserData, Creating, AtServer,
         Persist, api
<1>2. /\ obj'.status.userDataID = u
      /\ obj'.finalizer = obj.finalizer
      /\ userData'[u].owner = key
      /\ \A v \in UserData : v # u => userData'[v] = userData[v]
  BY <1>1, TypesAtWork
     DEF CreateUserData, StoreUserData, TypeOK, CloudOK, Object, Status
<1>3. before.finalizer /\ obj.finalizer
  BY <1>1 DEF Inv, AtWork, Placed, Provisioning
<1>4. DataOwned'
  <2> SUFFICES ASSUME NEW v \in UserData, NEW m \in Machines \union {None},
                      userData'[v].st = "live", userData'[v].owner = m
               PROVE  ClaimedData(v, m)'
    BY DEF DataOwned
  <2>1. CASE v = u
    BY <1>1, <1>2, <2>1 DEF ClaimedData
  <2>2. CASE v # u
    <3>1. ClaimedData(v, m)
      BY <1>2, <2>2 DEF DataOwned
    <3>2. key # m
      BY <1>1, <3>1, MachineAssumption DEF ClaimedData
    <3> QED BY <1>1, <3>1, <3>2 DEF ClaimedData
  <2> QED BY <2>1, <2>2
<1> QED BY <1>1, <1>2, <1>3, <1>4 DEF DataHeld

\* A step that creates no user data keeps what is live owned, where it keeps what
\* each machine claims.
LEMMA DataOwnedKept ==
    ASSUME DataOwned,
           \A u \in UserData : userData'[u].st = "live" =>
             userData[u].st = "live" /\ userData'[u].owner = userData[u].owner,
           \A u \in UserData, m \in Machines :
             ClaimedData(u, m) => ClaimedData(u, m)'
    PROVE  DataOwned'
<1> SUFFICES ASSUME NEW u \in UserData, NEW m \in Machines \union {None},
                    userData'[u].st = "live", userData'[u].owner = m
             PROVE  ClaimedData(u, m)'
  BY DEF DataOwned
<1>1. ClaimedData(u, m)
  BY DEF DataOwned
<1>2. m \in Machines
  BY <1>1 DEF ClaimedData
<1> QED BY <1>1, <1>2

LEMMA HandlerData ==
    ASSUME TypeOK, Inv, Handler, ~ \E u \in UserData : CreateUserData(u), DataHeld
    PROVE  /\ DataHeld'
           /\ \A u \in UserData, m \in Machines :
                ClaimedData(u, m) => ClaimedData(u, m)'
<1>1. key # None /\ UNCHANGED <<stored, key, before>>
  BY HandlerStep
<1>2. obj \in Object /\ obj.status \in Status
  BY <1>1, TypesAtWork DEF Object
<1>3. /\ obj'.status.userDataID = obj.status.userDataID
      /\ obj'.finalizer = obj.finalizer \/ obj = before
  <2>1. CASE AddFinalizer \/ DeleteUserData
    <3>1. obj = before
      BY <1>1, <2>1 DEF AddFinalizer, DeleteUserData, Inv, AtWork, Placed
    <3> QED BY <1>2, <2>1, <3>1 DEF AddFinalizer, DeleteUserData, Return, Object
  <2>2. CASE ServerRunning
    BY <1>2, <2>2 DEF ServerRunning, Return, Object, Status
  <2>3. CASE ServerLost
    BY <1>2, <2>3 DEF ServerLost, Object, Status
  <2>4. ASSUME NEW s \in Servers, CreateServer(s)
        PROVE  /\ obj'.status.userDataID = obj.status.userDataID
               /\ obj'.finalizer = obj.finalizer
    BY <1>2, <2>4 DEF CreateServer, Persist, Object, Status
  <2>5. CASE Agree(obj', obj)
    BY <2>5 DEF Agree
  <2>6. CASE obj' = SetMachineFailed(obj)
    BY <1>2, <2>6, FailedAgrees
  <2> QED BY <2>1, <2>2, <2>3, <2>4, <2>5, <2>6, HandlerEdits
<1> QED BY <1>1, <1>3 DEF ClaimedData, DataHeld

\* A patch stores what is claimed before the worker lets go of it.  One that
\* finds the object gone had nothing to store: the machine that gets user data
\* has its finalizer.
LEMMA PatchData ==
    ASSUME "patchError" \notin Events, TypeOK, Inv, Gone, Patch, DataHeld
    PROVE  /\ DataHeld'
           /\ \A u \in UserData, m \in Machines :
                ClaimedData(u, m) => ClaimedData(u, m)'
<1>1. key \in Machines /\ key # None
  BY TypesAtWork
     DEF TypeOK, WorkerOK, Patch, PatchObject, SkipPatchObject, PatchObjectFails,
         PatchStatus, SkipPatchStatus, PatchStatusFails
<1>2. Unshared(key)
  BY <1>1 DEF Inv, AtWork
<1>3. None \notin Machines
  BY MachineAssumption
<1>4. CASE PatchObject
  BY <1>4, PatchObjectWrites DEF ClaimedData, DataHeld
<1>5. CASE PatchStatus
  <2>1. /\ Patched(FALSE)
        /\ \A n \in Machines : n # key => stored'[n] = stored[n]
        /\ stored'[key].status.userDataID = obj.status.userDataID
    BY <1>5, PatchStatusWrites
  <2>2. CASE UNCHANGED <<key, before, obj>>
    BY <2>1, <2>2 DEF ClaimedData, DataHeld
  <2>3. CASE Rest
    BY <1>1, <1>3, <2>1, <2>3 DEF ClaimedData, DataHeld, Rest
  <2> QED BY <2>1, <2>2, <2>3, PatchedCases
<1>6. CASE ~PatchObject /\ ~PatchStatus
  <2>1. UNCHANGED stored
    BY <1>6, PatchWithoutWrite
  <2>2. CASE UNCHANGED <<key, before, obj>>
    BY <2>1, <2>2 DEF ClaimedData, DataHeld
  <2>3. CASE Rest /\ (~StatusChanged \/ ~stored[key].exists)
    <3>1. stored[key].status.userDataID = obj.status.userDataID
      <4>1. CASE obj.status.userDataID = before.status.userDataID
        BY <1>2, <4>1 DEF Unshared
      <4>2. CASE obj.status.userDataID # before.status.userDataID
        <5>1. before.finalizer /\ obj.finalizer /\ ~stored[key].exists
          BY <1>1, <2>3, <4>2 DEF StatusChanged, DataHeld
        <5>2. stored[key].finalizer
          BY <1>1, <1>2, <5>1, TypesAtWork DEF Unshared, Object
        <5> QED BY <1>1, <5>1, <5>2 DEF Gone
      <4> QED BY <4>1, <4>2
    <3> QED BY <1>3, <2>1, <2>3, <3>1 DEF ClaimedData, DataHeld, Rest
  <2> QED BY <1>6, <2>2, <2>3, PatchWithoutWrite, PatchedCases
<1> QED BY <1>4, <1>5, <1>6

LEMMA NextData ==
    ASSUME NoneForgotten, "emptyReply" \notin Events,
           TypeOK, Inv, Gone, DataOwned, DataHeld, NextCases
    PROVE  DataOwned' /\ DataHeld'
<1>1. CASE \E u \in UserData : CreateUserData(u)
  BY <1>1, CreateUserDataOwned
<1>2. CASE ~ \E u \in UserData : CreateUserData(u)
  <2>1. \A u \in UserData : userData'[u].st = "live" =>
          userData[u].st = "live" /\ userData'[u].owner = userData[u].owner
    BY <1>2, OnlyCreationGivesUserData DEF CreateUserDataReplyLost, NoneForgotten
  <2>2. /\ DataHeld'
        /\ \A u \in UserData, m \in Machines :
             ClaimedData(u, m) => ClaimedData(u, m)'
    <3>1. ASSUME NEW n \in Machines, Reconcile(n)
          PROVE  /\ DataHeld'
                 /\ \A u \in UserData, m \in Machines :
                      ClaimedData(u, m) => ClaimedData(u, m)'
      <4>1. /\ key = None /\ key' = n /\ before' = stored[n] /\ obj' = stored[n]
            /\ UNCHANGED stored
        BY <3>1 DEF Reconcile, TypeOK, WorkerOK, api, NoneForgotten
      <4> QED BY <4>1 DEF ClaimedData, DataHeld
    <3>2. CASE Handler
      BY <1>2, <3>2, HandlerData
    <3>3. CASE Patch
      BY <3>3, PatchData DEF NoneForgotten
    <3>4. CASE Bystander
      <4>1. (\A m \in Machines : Written(m)) /\ UNCHANGED worker
        BY <3>4, BystanderEdits DEF CrashRestart, NoneForgotten
      <4> QED BY <4>1 DEF Written, ClaimedData, DataHeld, worker
    <3> QED BY <3>1, <3>2, <3>3, <3>4 DEF NextCases
  <2> QED BY <2>1, <2>2, DataOwnedKept
<1> QED BY <1>1, <1>2

\* A machine has at most one user data at Latitude.sh: a retry reuses the one
\* that was created before, as long as its ID was received and recorded.
THEOREM OneUserData ==
    ASSUME NoneForgotten, "emptyReply" \notin Events
    PROVE  Spec => []UserDataCreatedOnce
<1>1. Init => DataOwned /\ DataHeld
  BY DEF Init, ControllerInit, DataOwned, DataHeld
<1>2. TypeOK /\ Inv /\ Gone /\ [Next]_vars => Gone'
  BY NextIsOneOf, NextGone
<1>3. TypeOK /\ Inv /\ Gone /\ DataOwned /\ DataHeld /\ [Next]_vars
        => DataOwned' /\ DataHeld'
  BY NextIsOneOf, NextData
<1>4. TypeOK /\ DataOwned => UserDataCreatedOnce
  <2> SUFFICES ASSUME TypeOK, DataOwned, NEW u \in UserData, NEW v \in UserData,
                      userData[u].st = "live", userData[v].st = "live",
                      userData[u].owner = userData[v].owner
               PROVE  u = v
    BY DEF UserDataCreatedOnce
  <2>1. PICK m \in Machines \union {None} : userData[u].owner = m
    BY DEF TypeOK, CloudOK, Datum
  <2>2. ClaimedData(u, m) /\ ClaimedData(v, m)
    BY <2>1 DEF DataOwned
  <2> QED BY <2>2 DEF ClaimedData
<1>5. Spec => [](TypeOK /\ Inv)
  BY RecordsInvariant DEF NoneForgotten
<1> QED BY <1>1, <1>2, <1>3, <1>4, <1>5, InitGone, PTL DEF Spec

-----------------------------------------------------------------------------
(***************************************************************************)
(* A machine of a cluster with a VLAN: what its status has recorded boots  *)
(* the VLAN's configuration and is in the VLAN.  That bootstrap data waits *)
(* for the VLAN is what the cluster's controller has to see to, and a      *)
(* hypothesis here; LatitudeProvider_proofs discharges it.                 *)
(***************************************************************************)

Networked(m) == infra[ClusterOf[m]].vlan # "unset"

NetworkFirst == \A m \in bootstrap : infra[ClusterOf[m]].vlan # "pending"

\* The worker has not yet attached the server s, which it created for m.
Attaching(s, m) == key = m /\ GoingTo("attach") /\ obj.status.serverID = s

\* s and u, server and user data of m in a status that is ready or not.
Equipped(s, u, ready, m) ==
    /\ s # None => m \in bootstrap /\ u # None
    /\ ready => s # None
    /\ Networked(m) /\ u # None => userData[u].vlan
    /\ Networked(m) /\ s # None =>
         servers[s].vlan \/ (~ready /\ (~Live(s) \/ Attaching(s, m)))

Blank == \A u \in UserData : userData[u].st = "unused" => ~userData[u].vlan

EquippedInHand ==
    /\ Equipped(obj.status.serverID, obj.status.userDataID, obj.status.ready, key)
    /\ GoingTo("createServer") => key \in bootstrap /\ obj.status.userDataID # None

Wired ==
    /\ Blank
    /\ \A m \in Machines :
         Equipped(ServerOf(m), stored[m].status.userDataID, stored[m].status.ready, m)
    /\ key # None => EquippedInHand

\* What is in use at Latitude.sh does not lose its VLAN or come back to life, and
\* what is published or configured stays so.
Growing ==
    /\ \A u \in UserData : userData[u].vlan => userData'[u].vlan
    /\ \A s \in Servers : Used(s) => /\ servers[s].vlan => servers'[s].vlan
                                     /\ ~Live(s) => ~Live(s)'
    /\ bootstrap \subseteq bootstrap'
    /\ \A m \in Machines : Networked(m)' = Networked(m)

LEMMA UserDataGrows ==
    ASSUME TypeOK, Blank, NextCases
    PROVE  Blank' /\ \A u \in UserData : userData[u].vlan => userData'[u].vlan
<1>1. userData \in [UserData -> Datum]
  BY DEF TypeOK, CloudOK
<1>2. ASSUME NEW v \in UserData, CreateUserData(v) \/ CreateUserDataReplyLost(v)
      PROVE  Blank' /\ \A u \in UserData : userData[u].vlan => userData'[u].vlan
  <2>1. PICK d : d.st = "live" /\ userData' = [userData EXCEPT ![v] = d]
    BY <1>2 DEF CreateUserData, CreateUserDataReplyLost, StoreUserData
  <2>2. userData[v].st = "unused"
    BY <1>2 DEF CreateUserData, CreateUserDataReplyLost, StoreUserData
  <2> QED BY <1>1, <2>1, <2>2 DEF Blank
<1>3. CASE DeleteUserData
  <2> DEFINE v == obj.status.userDataID
  <2>1. UNCHANGED userData \/ userData' = [userData EXCEPT ![v].st = "deleted"]
    BY <1>3 DEF DeleteUserData
  <2> HIDE DEF v
  <2>2. \A u \in UserData : /\ userData'[u].vlan = userData[u].vlan
                            /\ userData'[u].st \in {userData[u].st, "deleted"}
    BY <1>1, <2>1 DEF Datum
  <2> QED BY <2>2 DEF Blank
<1>4. CASE UNCHANGED userData
  BY <1>4 DEF Blank
<1> QED
  BY <1>2, <1>3, <1>4
     DEF NextCases, Reconcile, Handler, ReconcileNormal,
         AddFinalizer, SkipSettled, WaitForOwner, RejectWorker, RejectSpec,
         StartServer, ReconcileServer, ServerRunning, ServerStarting, ServerLost,
         WaitForBootstrap, ReuseUserData, CreateServer, CreateServerReplyLost,
         StartNewServer, CreateServerOutOfStock, RequestFails, AttachServer,
         ReconcileDelete, NoServerToDelete, DeleteServer, RemoveServer,
         DeleteServerReplyLost, DeleteServerFails, Patch, PatchObject,
         SkipPatchObject, PatchObjectFails, PatchStatus, SkipPatchStatus,
         PatchStatusFails, Bystander, ReconcileGone, CacheSync, Environment,
         CrashRestart, DeleteMachine, SetPaused, SetOwner, EditMachine,
         PublishBootstrap, AdvanceCluster, RecordVLAN, PowerOn,
         RemoveExternally, cloud, vars

LEMMA ServersGrow ==
    ASSUME TypeOK, NextCases, NEW s \in Servers, Used(s)
    PROVE  /\ servers[s].vlan => servers'[s].vlan
           /\ ~Live(s) => ~Live(s)'
<1>1. servers \in [Servers -> Server]
  BY DEF TypeOK, CloudOK
<1>2. ASSUME NEW r \in Servers, CreateServer(r) \/ CreateServerReplyLost(r)
      PROVE  servers'[s] = servers[s]
  BY <1>1, <1>2 DEF CreateServer, CreateServerReplyLost, StartNewServer, Used
<1>3. CASE AttachServer
  <2> DEFINE r == obj.status.serverID
  <2>1. UNCHANGED servers \/ servers' = [servers EXCEPT ![r].vlan = TRUE]
    BY <1>3 DEF AttachServer
  <2> HIDE DEF r
  <2>2. servers'[s].st = servers[s].st /\ (servers[s].vlan => servers'[s].vlan)
    BY <1>1, <2>1 DEF Server
  <2> QED BY <2>2 DEF Live
<1>4. CASE RemoveServer
  <2> DEFINE r == obj.status.serverID
  <2>1. servers' = [servers EXCEPT ![r].st = "deleted"]
    BY <1>4 DEF RemoveServer
  <2> HIDE DEF r
  <2>2. /\ servers'[s].vlan = servers[s].vlan
        /\ servers'[s].st \in {servers[s].st, "deleted"}
    BY <1>1, <2>1 DEF Server
  <2> QED BY <2>2 DEF Live
<1>5. ASSUME NEW r \in Servers, PowerOn(r) \/ RemoveExternally(r)
      PROVE  /\ servers'[s].vlan = servers[s].vlan
             /\ ~Live(s) => servers'[s].st = servers[s].st
  <2>1. CASE PowerOn(r)
    <3>1. PICK a : servers' = [servers EXCEPT ![r].st = "on", ![r].address = a]
      BY <2>1 DEF PowerOn
    <3>2. servers[r].st = "off"
      BY <2>1 DEF PowerOn
    <3> QED BY <1>1, <3>1, <3>2 DEF Server, Live
  <2>2. CASE RemoveExternally(r)
    BY <1>1, <2>2 DEF RemoveExternally, Live, Server
  <2> QED BY <1>5, <2>1, <2>2
<1>6. CASE servers'[s] = servers[s]
  BY <1>6 DEF Live
<1>7. CASE UNCHANGED servers
  BY <1>6, <1>7
<1> QED
  BY <1>2, <1>3, <1>4, <1>5, <1>6, <1>7
     DEF NextCases, Live, Reconcile, Handler, ReconcileNormal,
         AddFinalizer, SkipSettled, WaitForOwner, RejectWorker, RejectSpec,
         StartServer, ReconcileServer, ServerRunning, ServerStarting, ServerLost,
         WaitForBootstrap, ReuseUserData, CreateUserData, CreateUserDataReplyLost,
         StoreUserData, CreateServerOutOfStock, RequestFails, ReconcileDelete,
         NoServerToDelete, DeleteServer, DeleteServerReplyLost,
         DeleteServerFails, DeleteUserData, Patch, PatchObject, SkipPatchObject,
         PatchObjectFails, PatchStatus, SkipPatchStatus, PatchStatusFails,
         Bystander, ReconcileGone, CacheSync, Environment, CrashRestart,
         DeleteMachine, SetPaused, SetOwner, EditMachine, PublishBootstrap,
         AdvanceCluster, RecordVLAN, cloud, vars

LEMMA EnvironmentGrows ==
    ASSUME TypeOK, NextCases
    PROVE  /\ bootstrap \subseteq bootstrap'
           /\ \A m \in Machines : Networked(m)' = Networked(m)
<1>1. infra \in [Clusters -> Infra]
  BY DEF TypeOK, EnvOK
<1>2. ASSUME NEW c \in Clusters, AdvanceCluster(c) \/ RecordVLAN(c)
      PROVE  /\ UNCHANGED bootstrap
             /\ \A m \in Machines : Networked(m)' = Networked(m)
  <2>1. \A d \in Clusters : (infra'[d].vlan # "unset") = (infra[d].vlan # "unset")
    BY <1>1, <1>2 DEF AdvanceCluster, RecordVLAN, Infra
  <2>2. UNCHANGED bootstrap
    BY <1>2 DEF AdvanceCluster, RecordVLAN
  <2> QED BY <2>1, <2>2, MachineAssumption DEF Networked
<1>3. CASE UNCHANGED infra /\ bootstrap \subseteq bootstrap'
  BY <1>3 DEF Networked
<1> QED
  BY <1>2, <1>3
     DEF NextCases, Reconcile, Handler, ReconcileNormal,
         AddFinalizer, SkipSettled, WaitForOwner, RejectWorker, RejectSpec,
         StartServer, ReconcileServer, ServerRunning, ServerStarting, ServerLost,
         WaitForBootstrap, ReuseUserData, CreateUserData, CreateUserDataReplyLost,
         CreateServer, CreateServerReplyLost,
         CreateServerOutOfStock, RequestFails, AttachServer,
         ReconcileDelete, NoServerToDelete, DeleteServer,
         DeleteServerReplyLost, DeleteServerFails, DeleteUserData, Patch,
         PatchObject, SkipPatchObject, PatchObjectFails, PatchStatus,
         SkipPatchStatus, PatchStatusFails, Bystander, ReconcileGone, CacheSync,
         Environment, CrashRestart, DeleteMachine, SetPaused, SetOwner,
         EditMachine, PublishBootstrap, PowerOn, RemoveExternally, env, vars

LEMMA NextGrows == TypeOK /\ Blank /\ NextCases => Growing /\ Blank'
BY UserDataGrows, ServersGrow, EnvironmentGrows DEF Growing

\* What the status has recorded stays fit as long as the worker that created the
\* server goes on to attach it, or has done so.
LEMMA EquippedKept ==
    ASSUME Growing, NEW m \in Machines,
           NEW s \in Servers \union {None}, NEW u \in UserData \union {None},
           NEW ready \in BOOLEAN, Equipped(s, u, ready, m),
           s # None => Used(s),
           s # None /\ Networked(m) /\ Attaching(s, m) =>
             servers'[s].vlan \/ ~Live(s)' \/ Attaching(s, m)'
    PROVE  Equipped(s, u, ready, m)'
<1>1. s # None => m \in bootstrap' /\ u # None
  BY DEF Equipped, Growing
<1>2. ready => s # None
  BY DEF Equipped
<1>3. Networked(m)' = Networked(m)
  BY DEF Growing
<1>4. Networked(m) /\ u # None => userData'[u].vlan
  BY DEF Equipped, Growing
<1>5. ASSUME Networked(m), s # None
      PROVE  servers'[s].vlan \/ (~ready /\ (~Live(s)' \/ Attaching(s, m)'))
  <2>1. s \in Servers /\ Used(s)
    BY <1>5
  <2>2. /\ servers[s].vlan => servers'[s].vlan
        /\ ~Live(s) => ~Live(s)'
    BY <2>1 DEF Growing
  <2>3. servers[s].vlan \/ (~ready /\ (~Live(s) \/ Attaching(s, m)))
    BY <1>5 DEF Equipped
  <2> QED BY <1>5, <2>2, <2>3
<1> QED BY <1>1, <1>2, <1>3, <1>4, <1>5 DEF Equipped

\* The same for the machines the worker is not at, and for the stored object of
\* the one it is at.
LEMMA StoredEquippedKept ==
    ASSUME TypeOK, Inv, Growing, NEW m \in Machines,
           Equipped(ServerOf(m), stored[m].status.userDataID, stored[m].status.ready, m),
           stored'[m].status = stored[m].status,
           \A s \in Servers :
             s = ServerOf(m) /\ Networked(m) /\ Attaching(s, m) =>
               servers'[s].vlan \/ ~Live(s)' \/ Attaching(s, m)'
    PROVE  Equipped(ServerOf(m), stored[m].status.userDataID, stored[m].status.ready, m)'
<1>1. PICK s \in Servers \union {None}, u \in UserData \union {None},
           ready \in BOOLEAN :
        /\ s = ServerOf(m) /\ u = stored[m].status.userDataID
        /\ ready = stored[m].status.ready
  BY DEF TypeOK, ApiOK, Object, Status, ServerOf
<1>2. Equipped(s, u, ready, m)
  BY <1>1
<1>3. s # None => Used(s)
  BY <1>1 DEF Inv, Records, Recorded
<1>4. s # None => s \in Servers
  OBVIOUS
<1>5. Equipped(s, u, ready, m)'
  BY <1>1, <1>2, <1>3, <1>4, EquippedKept
<1>6. /\ ServerOf(m)' = s /\ stored'[m].status.userDataID = u
      /\ stored'[m].status.ready = ready
  BY <1>1 DEF ServerOf
<1> QED BY <1>5, <1>6

\* What the invariant asks of the outside: a reconciliation reads what was written
\* last, can read everything else, and is not cut off or refused between the
\* creation of a server and its attachment; user data is known that was created;
\* and the subnet of a cluster's VLAN is an IPv4 network.
NothingSkipped ==
    Events \intersect {"staleCache", "crash", "apiError", "readError",
                       "emptyReply", "badSubnet"} = {}

\* A worker that attaches a server finds the network there.
LEMMA AttachServerWired ==
    ASSUME NothingSkipped, TypeOK, NetworkFirst, Wired, AttachServer,
           key \in Machines, Networked(key),
           NEW s \in Servers, obj.status.serverID = s
    PROVE  servers'[s].vlan \/ ~Live(s)'
<1>1. /\ servers \in [Servers -> Server]
      /\ infra[ClusterOf[key]] \in Infra
  BY MachineAssumption DEF TypeOK, CloudOK, EnvOK
<1>2. s # None /\ key # None
  BY MachineAssumption
<1>3. key \in bootstrap
  BY <1>2 DEF Wired, EquippedInHand, Equipped
<1>4. infra[ClusterOf[key]].vlan = "up"
  BY <1>1, <1>3 DEF NetworkFirst, Networked, Infra
<1>5. \/ Live(s) /\ servers' = [servers EXCEPT ![s].vlan = TRUE]
      \/ ~Live(s) /\ UNCHANGED servers
  BY <1>4 DEF AttachServer, ReadFails, NothingSkipped
<1> QED BY <1>1, <1>5 DEF Live, Server

\* Nothing but the attachment follows the creation of a server.
LEMMA HandlerAttaches ==
    ASSUME NothingSkipped, TypeOK, NetworkFirst, Wired, Handler,
           NEW s \in Servers, NEW m \in Machines, Networked(m), Attaching(s, m)
    PROVE  servers'[s].vlan \/ ~Live(s)'
<1>1. pc = "attach" /\ m = key /\ obj.status.serverID = s
  BY HandlerStep DEF Attaching, GoingTo
<1>2. AttachServer
  BY <1>1 DEF Handler, ReconcileNormal, AddFinalizer, SkipSettled, WaitForOwner,
       RejectWorker, RejectSpec, StartServer, Unsettled, ReconcileServer,
       ServerRunning, ServerStarting, ServerLost, WaitForBootstrap,
       ReuseUserData, CreateUserData, CreateUserDataReplyLost, NeedsUserData,
       CreateServer, CreateServerReplyLost, CreateServerOutOfStock,
       RequestFails, ReconcileDelete, NoServerToDelete, DeleteServer,
       RemoveServer, DeleteServerReplyLost, DeleteServerFails, DeleteUserData,
       Known, Creating, AtServer
<1> QED BY <1>1, <1>2, AttachServerWired

LEMMA HandlerStored ==
    ASSUME NothingSkipped, TypeOK, Inv, NetworkFirst, Wired, Handler,
           Growing, NEW m \in Machines
    PROVE  Equipped(ServerOf(m), stored[m].status.userDataID, stored[m].status.ready, m)'
<1>1. UNCHANGED stored
  BY HandlerStep
<1>2. \A s \in Servers :
        s = ServerOf(m) /\ Networked(m) /\ Attaching(s, m) =>
          servers'[s].vlan \/ ~Live(s)'
  BY HandlerAttaches
<1> QED BY <1>1, <1>2, StoredEquippedKept DEF Wired

LEMMA HandlerInHand ==
    ASSUME NothingSkipped, TypeOK, Inv,
           NetworkFirst, Wired, Handler, Growing
    PROVE  EquippedInHand'
<1>1. /\ key # None /\ key \in Machines
      /\ pc \notin {"patchObject", "patchStatus"} /\ key' = key
      /\ obj \in Object /\ obj.status \in Status
  BY HandlerStep, TypesAtWork DEF Object
<1>2. PICK m \in Machines, s \in Servers \union {None},
           u \in UserData \union {None}, ready \in BOOLEAN :
        /\ m = key /\ s = obj.status.serverID /\ u = obj.status.userDataID
        /\ ready = obj.status.ready
  BY <1>1 DEF Status
<1>3. /\ Equipped(s, u, ready, m)
      /\ GoingTo("createServer") => m \in bootstrap /\ u # None
      /\ Placed /\ InHand(m)
  BY <1>1, <1>2 DEF Wired, EquippedInHand, Inv, AtWork
<1>4. Equipped(s, u, ready, m)'
  <2>1. s # None => s \in Servers /\ Used(s)
    BY <1>2, <1>3 DEF InHand
  <2>2. s # None /\ Networked(m) /\ Attaching(s, m) =>
          servers'[s].vlan \/ ~Live(s)'
    BY <2>1, HandlerAttaches
  <2> QED BY <1>3, <2>1, <2>2, EquippedKept
<1>5. GoingTo("createServer")' => ReuseUserData \/ \E v \in UserData : CreateUserData(v)
  BY <1>1 DEF GoingTo, Handler, ReconcileNormal, AddFinalizer, SkipSettled,
       WaitForOwner, RejectWorker, RejectSpec, StartServer, ReconcileServer,
       ServerRunning, ServerStarting, ServerLost, WaitForBootstrap,
       CreateUserDataReplyLost, CreateServer, CreateServerReplyLost,
       CreateServerOutOfStock, RequestFails, AttachServer, ReconcileDelete,
       NoServerToDelete, DeleteServer, DeleteServerReplyLost, DeleteServerFails,
       DeletionFails, DeleteUserData, RetryLater, Known, AtServer, Return,
       Persist, GoTo
<1>6. ReuseUserData => m \in bootstrap' /\ obj'.status.userDataID = u /\ u # None
  BY <1>2 DEF ReuseUserData, GoTo, Growing
<1>7. CASE /\ obj'.status.serverID = s /\ obj'.status.userDataID = u
           /\ obj'.status.ready = ready
           /\ ~ \E v \in UserData : CreateUserData(v)
  BY <1>1, <1>2, <1>4, <1>5, <1>6, <1>7 DEF EquippedInHand
<1>8. ASSUME NEW v \in UserData, CreateUserData(v)
      PROVE  EquippedInHand'
  <2>1. /\ s = None /\ m \in bootstrap
        /\ obj'.status.serverID = None /\ obj'.status.userDataID = v
        /\ obj'.status.ready = ready
    BY <1>1, <1>2, <1>8
       DEF CreateUserData, NeedsUserData, Creating, Persist, Status, Object,
           NothingSkipped
  <2>2. Networked(m) => userData'[v].vlan
    <3>1. userData'[v].vlan = (infra[ClusterOf[m]].vlan = "up")
      <4>1. PICK vlan \in Injected(ClusterOf[m]) :
              userData' = [userData EXCEPT ![v] =
                             [st |-> "live", owner |-> m, vlan |-> vlan]]
        BY <1>2, <1>8 DEF CreateUserData, StoreUserData
      <4>2. vlan = (infra[ClusterOf[m]].vlan = "up")
        BY <4>1 DEF Injected, InjectionFails, ReadFails, NothingSkipped
      <4> QED BY <4>1, <4>2 DEF TypeOK, CloudOK
    <3>2. infra[ClusterOf[m]] \in Infra
      BY MachineAssumption DEF TypeOK, EnvOK
    <3> QED BY <2>1, <3>1, <3>2 DEF NetworkFirst, Networked, Infra
  <2>3. v # None /\ m \in bootstrap' /\ Networked(m)' = Networked(m)
    BY <2>1, MachineAssumption DEF Growing
  <2>4. Equipped(None, v, ready, m)'
    BY <1>3, <2>1, <2>2, <2>3 DEF Equipped
  <2> QED BY <1>1, <1>2, <2>1, <2>3, <2>4 DEF EquippedInHand
<1>9. ASSUME NEW r \in Servers, CreateServer(r)
      PROVE  EquippedInHand'
  <2>1. /\ pc = "createServer" /\ pc' = "patchObject" /\ then' = "attach"
        /\ obj'.status.serverID = r /\ obj'.status.userDataID = u
        /\ obj'.status.ready = ready
    BY <1>1, <1>2, <1>9 DEF CreateServer, Persist, Status, Object
  <2>2. ~ready
    BY <1>1, <1>2, <1>3, <2>1
       DEF Placed, GoingTo, Provisioning, SameProgress, Settled
  <2>3. m \in bootstrap /\ u # None
    BY <1>3, <2>1 DEF GoingTo
  <2>4. Attaching(r, m)' /\ ~GoingTo("createServer")'
    BY <1>1, <1>2, <2>1 DEF Attaching, GoingTo
  <2>5. Equipped(r, u, ready, m)'
    BY <1>4, <2>2, <2>3, <2>4 DEF Equipped, Growing
  <2> QED BY <1>1, <1>2, <2>1, <2>4, <2>5 DEF EquippedInHand
<1>10. CASE ServerRunning
  <2>1. /\ s # None /\ Live(s) /\ pc = "reconcileServer" /\ UNCHANGED servers
        /\ obj'.status.serverID = s /\ obj'.status.userDataID = u
        /\ obj'.status.ready = TRUE
    BY <1>1, <1>2, <1>10
       DEF ServerRunning, Known, AtServer, Live, Return, cloud, Status, Object
  <2>2. ~Attaching(s, m) /\ ~ \E v \in UserData : CreateUserData(v)
    BY <1>10, <2>1
       DEF Attaching, GoingTo, CreateUserData, NeedsUserData, Creating, ServerRunning,
           Known
  <2>3. Networked(m) => servers'[s].vlan
    BY <1>3, <2>1, <2>2 DEF Equipped
  <2>4. Equipped(s, u, TRUE, m)'
    BY <1>4, <2>1, <2>3 DEF Equipped, Growing
  <2>5. ~ReuseUserData
    BY <2>1, <1>2 DEF ReuseUserData, Creating
  <2> QED BY <1>1, <1>2, <1>5, <2>1, <2>2, <2>4, <2>5 DEF EquippedInHand
<1>11. CASE ServerLost
  <2>1. /\ s # None /\ pc = "reconcileServer"
        /\ obj'.status.serverID = None /\ obj'.status.userDataID = u
        /\ obj'.status.ready = ready
    BY <1>1, <1>2, <1>11 DEF ServerLost, Known, AtServer, Status, Object
  <2>2. ~ready
    BY <1>1, <1>2, <1>3, <2>1
       DEF Placed, Provisioning, SameProgress, Settled
  <2>3. Equipped(None, u, ready, m)'
    BY <1>4, <2>2 DEF Equipped
  <2>4. ~ReuseUserData /\ ~ \E v \in UserData : CreateUserData(v)
    BY <1>2, <2>1 DEF ReuseUserData, CreateUserData, NeedsUserData, Creating
  <2> QED BY <1>1, <1>2, <1>5, <2>1, <2>3, <2>4 DEF EquippedInHand
<1>12. CASE obj' = SetMachineFailed(obj)
  <2>1. /\ obj'.status.serverID = s /\ obj'.status.userDataID = u
        /\ obj'.status.ready = FALSE
    BY <1>1, <1>2, <1>12, FailedAgrees
  <2>2. Equipped(s, u, FALSE, m)'
    BY <1>4 DEF Equipped
  <2> QED BY <1>1, <1>2, <1>5, <1>6, <1>8, <2>1, <2>2 DEF EquippedInHand
<1>13. CASE AddFinalizer \/ DeleteUserData
  BY <1>1, <1>2, <1>7, <1>8, <1>13
     DEF AddFinalizer, DeleteUserData, Return, Object
<1>14. CASE Agree(obj', obj)
  BY <1>2, <1>7, <1>8, <1>14 DEF Agree, SameProgress
<1> QED BY <1>8, <1>9, <1>10, <1>11, <1>12, <1>13, <1>14, HandlerEdits

\* Patches store what is in hand, and leave the rest as it was.
LEMMA PatchWired ==
    ASSUME TypeOK, Inv, Wired, Patch, Growing, Blank'
    PROVE  Wired'
<1>1. key \in Machines /\ key # None /\ pc \in {"patchObject", "patchStatus"}
  BY TypesAtWork
     DEF TypeOK, WorkerOK, Patch, PatchObject, SkipPatchObject, PatchObjectFails,
         PatchStatus, SkipPatchStatus, PatchStatusFails
<1>2. PICK k \in Machines, s \in Servers \union {None},
           u \in UserData \union {None}, ready \in BOOLEAN :
        /\ k = key /\ s = obj.status.serverID /\ u = obj.status.userDataID
        /\ ready = obj.status.ready
  BY <1>1, TypesAtWork DEF Object, Status
<1>3. /\ Equipped(s, u, ready, k)
      /\ GoingTo("createServer") => k \in bootstrap /\ u # None
      /\ InHand(k)
  BY <1>1, <1>2 DEF Wired, EquippedInHand, Inv, AtWork
<1>4. UNCHANGED <<servers, userData, infra, bootstrap>>
  BY DEF Patch, PatchObject, SkipPatchObject, PatchObjectFails, PatchStatus,
         SkipPatchStatus, PatchStatusFails, cloud, env
\* Where the worker goes on, it goes where it was going.
<1> DEFINE On == /\ UNCHANGED <<key, obj, then>>
                 /\ \A p \in {"createServer", "attach"} : GoingTo(p)' = GoingTo(p)
<1>5. \/ On
      \/ Rest /\ ~GoingTo("attach")
  <2>1. CASE pc = "patchObject"
    BY <1>1, <2>1
       DEF GoingTo, GoTo, Patch, PatchObject, SkipPatchObject, PatchObjectFails,
           PatchStatus, SkipPatchStatus, PatchStatusFails
  <2>2. CASE pc = "patchStatus"
    <3>1. \E failed : Patched(failed)
      BY <1>1, <2>2
         DEF Patch, PatchObject, SkipPatchObject, PatchObjectFails,
             PatchStatus, SkipPatchStatus, PatchStatusFails
    <3> QED BY <2>2, <3>1
            DEF TypeOK, WorkerOK, Patched, GoTo, GoingTo
  <2> QED BY <1>1, <2>1, <2>2
<1>6. \A r \in Servers, m \in Machines :
        Attaching(r, m) => On /\ Attaching(r, m)'
  BY <1>5 DEF Attaching
<1>7. On => EquippedInHand'
  <2> SUFFICES ASSUME On
               PROVE  EquippedInHand'
    OBVIOUS
  <2>1. s # None /\ Networked(k) /\ Attaching(s, k) => Attaching(s, k)'
    BY <1>6, <1>2
  <2>2. Equipped(s, u, ready, k)'
    BY <1>3, <2>1, <1>2, EquippedKept DEF InHand
  <2> QED BY <1>2, <1>3, <1>4, <2>2 DEF EquippedInHand
<1>8. Rest => key' = None
  BY DEF Rest
<1> DEFINE Fit(m) ==
      Equipped(ServerOf(m), stored[m].status.userDataID, stored[m].status.ready, m)
<1>9. ASSUME NEW m \in Machines, stored'[m].status = stored[m].status
      PROVE  Fit(m)'
  BY <1>6, <1>9, StoredEquippedKept DEF Wired
<1>10. ASSUME PatchStatus
       PROVE  Fit(k)'
  <2>1. /\ stored'[k].status.serverID = s /\ stored'[k].status.userDataID = u
        /\ stored'[k].status.ready = ready
    BY <1>2, <1>10, PatchStatusWrites DEF SameProgress
  <2>2. s # None /\ Networked(k) /\ Attaching(s, k) => Attaching(s, k)'
    BY <1>6, <1>2
  <2>3. Equipped(s, u, ready, k)'
    BY <1>3, <2>2, <1>2, EquippedKept DEF InHand
  <2> QED BY <2>1, <2>3 DEF ServerOf
<1>11. ASSUME NEW m \in Machines
       PROVE  stored'[m].status = stored[m].status \/ (PatchStatus /\ m = k)
  BY <1>2, PatchObjectWrites, PatchStatusWrites
     DEF Patch, SkipPatchObject, PatchObjectFails, SkipPatchStatus,
         PatchStatusFails, api
<1>12. \A m \in Machines : Fit(m)'
  BY <1>9, <1>10, <1>11
<1> HIDE DEF On
<1> QED BY <1>5, <1>7, <1>8, <1>12 DEF Wired

LEMMA NextWired ==
    ASSUME NothingSkipped, TypeOK, Inv, NetworkFirst, Wired, NextCases
    PROVE  Wired'
<1>1. Growing /\ Blank'
  BY NextGrows DEF Wired
<1>2. ASSUME NEW n \in Machines, Reconcile(n)
      PROVE  Wired'
  <2>1. /\ key = None /\ key' = n /\ obj' = stored[n]
        /\ UNCHANGED stored
        /\ then' = "return" /\ pc' # "createServer"
    BY <1>2 DEF Reconcile, TypeOK, WorkerOK, api, NothingSkipped
  <2>2. ~GoingTo("createServer")'
    BY <2>1 DEF GoingTo
  <2>3. ASSUME NEW m \in Machines
        PROVE  Equipped(ServerOf(m), stored[m].status.userDataID,
                        stored[m].status.ready, m)'
    <3>1. \A s : ~Attaching(s, m)
      BY <2>1, MachineAssumption DEF Attaching
    <3> QED BY <1>1, <2>1, <3>1, StoredEquippedKept DEF Wired
  <2>4. EquippedInHand'
    BY <2>1, <2>2, <2>3 DEF EquippedInHand, ServerOf
  <2> QED BY <1>1, <2>3, <2>4 DEF Wired
<1>3. CASE Handler
  BY <1>1, <1>3, HandlerStored, HandlerInHand DEF Wired, NothingSkipped
<1>4. CASE Patch
  BY <1>1, <1>4, PatchWired
<1>5. CASE Bystander
  <2>1. (\A m \in Machines : Written(m)) /\ UNCHANGED worker
    BY <1>5, BystanderEdits DEF CrashRestart, NothingSkipped
  <2>2. UNCHANGED <<key, obj, pc, then>>
    BY <2>1 DEF worker
  <2>3. \A s \in Servers, m \in Machines : Attaching(s, m) => Attaching(s, m)'
    BY <2>2 DEF Attaching, GoingTo
  <2>4. ASSUME NEW m \in Machines
        PROVE  Equipped(ServerOf(m), stored[m].status.userDataID,
                        stored[m].status.ready, m)'
    BY <1>1, <2>1, <2>3, StoredEquippedKept DEF Wired, Written
  <2>5. ASSUME key # None
        PROVE  EquippedInHand'
    <3>1. PICK k \in Machines, s \in Servers \union {None},
               u \in UserData \union {None}, ready \in BOOLEAN :
            /\ k = key /\ s = obj.status.serverID /\ u = obj.status.userDataID
            /\ ready = obj.status.ready
      BY <2>5, TypesAtWork DEF Object, Status
    <3>2. /\ Equipped(s, u, ready, k)
          /\ GoingTo("createServer") => k \in bootstrap /\ u # None
          /\ InHand(k)
      BY <2>5, <3>1 DEF Wired, EquippedInHand, Inv, AtWork
    <3>3. Equipped(s, u, ready, k)'
      BY <1>1, <2>3, <3>1, <3>2, EquippedKept DEF InHand
    <3> QED BY <1>1, <2>2, <3>1, <3>2, <3>3 DEF EquippedInHand, GoingTo, Growing
  <2> QED BY <1>1, <2>2, <2>4, <2>5 DEF Wired
<1> QED BY <1>2, <1>3, <1>4, <1>5 DEF NextCases

LEMMA StartWired == ControllerInit => Wired
BY DEF ControllerInit, NewMachine, Wired, Blank, Equipped, ServerOf

\* A step of others that takes no data away and changes no VLANConfig.
LEMMA OtherWired ==
    ASSUME Wired, UNCHANGED <<stored, worker, cloud>>, bootstrap \subseteq bootstrap',
           \A m \in Machines : Networked(m)' = Networked(m),
           TypeOK
    PROVE  Wired'
<1>1. UNCHANGED <<stored, key, obj, pc, then, servers, userData>>
  BY DEF worker, cloud
<1>2. ASSUME NEW m \in Machines, NEW s, NEW u, NEW ready, Equipped(s, u, ready, m)
      PROVE  Equipped(s, u, ready, m)'
  BY <1>1, <1>2 DEF Equipped, Attaching, GoingTo, Live
<1>3. ASSUME NEW m \in Machines
      PROVE  Equipped(ServerOf(m), stored[m].status.userDataID,
                      stored[m].status.ready, m)'
  <2>1. PICK s, u, ready :
          /\ s = ServerOf(m) /\ u = stored[m].status.userDataID
          /\ ready = stored[m].status.ready
    OBVIOUS
  <2>2. Equipped(s, u, ready, m)'
    BY <1>2, <2>1 DEF Wired
  <2> QED BY <1>1, <2>1, <2>2 DEF ServerOf
<1>4. ASSUME key # None
      PROVE  EquippedInHand'
  <2>1. PICK k, s, u, ready :
          /\ k = key /\ s = obj.status.serverID /\ u = obj.status.userDataID
          /\ ready = obj.status.ready
    OBVIOUS
  <2>2. Equipped(s, u, ready, k)'
    BY <1>2, <1>4, <2>1, TypesAtWork DEF Wired, EquippedInHand
  <2> QED BY <1>1, <1>4, <2>1, <2>2 DEF Wired, EquippedInHand, GoingTo
<1> QED BY <1>1, <1>3, <1>4 DEF Wired, Blank

-----------------------------------------------------------------------------
(***************************************************************************)
(* What the cluster controller and cluster-api rely on.                    *)
(***************************************************************************)

\* An object that is gone does not come back.
LEMMA NoneReturns ==
    ASSUME TypeOK, Inv, NextCases, NEW m \in Machines, stored'[m].exists
    PROVE  stored[m].exists
<1>1. CASE PatchObject
  BY <1>1, PatchObjectWrites
<1>2. CASE PatchStatus
  BY <1>2, PatchStatusWrites
<1>3. CASE Bystander
  BY <1>3, BystanderEdits DEF Written
<1>4. CASE UNCHANGED stored
  BY <1>4
<1> QED
  BY <1>1, <1>2, <1>3, <1>4, HandlerStep
     DEF NextCases, Reconcile, Patch, SkipPatchObject, PatchObjectFails,
         SkipPatchStatus, PatchStatusFails, api

\* The controller publishes no bootstrap data and writes no LatitudeCluster.
LEMMA ContinueKeepsEnvironment ==
    ASSUME Continue
    PROVE  UNCHANGED env
BY DEF Continue, ReconcileNormal, AddFinalizer, SkipSettled, WaitForOwner,
       RejectWorker, RejectSpec, StartServer, ReconcileServer, ServerRunning,
       ServerStarting, ServerLost, WaitForBootstrap, ReuseUserData,
       CreateUserData, CreateUserDataReplyLost, CreateServer,
       CreateServerReplyLost, CreateServerOutOfStock, RequestFails, AttachServer,
       ReconcileDelete, NoServerToDelete, DeleteServer, DeleteServerReplyLost,
       DeleteServerFails, DeleteUserData, Patch, PatchObject, SkipPatchObject,
       PatchObjectFails, PatchStatus, SkipPatchStatus, PatchStatusFails, env

-----------------------------------------------------------------------------
(***************************************************************************)
(* The fleet: which live servers a machine has, and which of them are in   *)
(* the VLAN.                                                               *)
(***************************************************************************)

\* A machine has a server only after its bootstrap data was published.
Booted ==
    /\ \A m \in Machines : ServerOf(m) # None => m \in bootstrap
    /\ key # None /\ (obj.status.serverID # None \/ GoingTo("createServer")) =>
         key \in bootstrap

\* A live server in the VLAN is in the status of its machine: it was recorded
\* before it was attached.
Joined ==
    /\ \A s \in Servers :
         Live(s) /\ servers[s].vlan =>
           servers[s].owner \in Machines /\ ServerOf(servers[s].owner) = s
    /\ pc = "attach" => ServerOf(key) = obj.status.serverID

LEMMA HandlerBooted ==
    ASSUME TypeOK, Inv, Booted, Handler
    PROVE  Booted'
<1>1. /\ key # None /\ key \in Machines /\ UNCHANGED <<stored, key>>
      /\ pc \notin {"patchObject", "patchStatus"}
      /\ obj \in Object /\ obj.status \in Status
  BY HandlerStep, TypesAtWork DEF Object
<1>2. UNCHANGED bootstrap
  BY ContinueKeepsEnvironment DEF Handler, Continue, env
<1>3. GoingTo("createServer")' => key \in bootstrap
  BY <1>1
     DEF GoingTo, Handler, ReconcileNormal, AddFinalizer, SkipSettled,
         WaitForOwner, RejectWorker, RejectSpec, StartServer, ReconcileServer,
         ServerRunning, ServerStarting, ServerLost, WaitForBootstrap,
         ReuseUserData, CreateUserData, CreateUserDataReplyLost, NeedsUserData,
         CreateServer, CreateServerReplyLost, CreateServerOutOfStock,
         RequestFails, AttachServer, ReconcileDelete, NoServerToDelete,
         DeleteServer, DeleteServerReplyLost, DeleteServerFails, DeletionFails,
         DeleteUserData, RetryLater, Known, AtServer, Return, Persist, GoTo
<1>4. obj'.status.serverID # None => key \in bootstrap
  <2>1. CASE obj'.status.serverID = obj.status.serverID
    BY <1>1, <2>1 DEF Booted
  <2>2. CASE \E s \in Servers : CreateServer(s)
    <3>1. GoingTo("createServer")
      BY <2>2 DEF CreateServer, GoingTo
    <3> QED BY <1>1, <3>1 DEF Booted
  <2>3. CASE ServerLost
    BY <1>1, <2>3 DEF ServerLost, Object, Status
  <2>4. CASE ServerRunning
    <3> DEFINE status == [obj.status EXCEPT
                            !.ready = TRUE,
                            !.address = servers[obj.status.serverID].address,
                            !.condition = "Ready"]
    <3>1. obj' = [obj EXCEPT !.providerID = obj.status.serverID, !.status = status]
      BY <2>4 DEF ServerRunning, Return
    <3>2. status.serverID = obj.status.serverID
      BY <1>1 DEF Status
    <3> HIDE DEF status
    <3>3. obj'.status = status
      BY <1>1, <3>1 DEF Object
    <3> QED BY <2>1, <3>2, <3>3
  <2>5. ASSUME NEW u \in UserData, CreateUserData(u)
        PROVE  key \in bootstrap
    BY <2>5 DEF CreateUserData, NeedsUserData
  <2>6. CASE AddFinalizer \/ DeleteUserData
    BY <1>1, <2>1, <2>6 DEF AddFinalizer, DeleteUserData, Return, Object
  <2>7. CASE obj' = SetMachineFailed(obj)
    BY <1>1, <2>1, <2>7, FailedAgrees
  <2>8. CASE Agree(obj', obj)
    BY <2>1, <2>8 DEF Agree
  <2> QED BY <2>2, <2>3, <2>4, <2>5, <2>6, <2>7, <2>8, HandlerEdits
<1> QED BY <1>1, <1>2, <1>3, <1>4 DEF Booted, ServerOf

LEMMA NextBooted ==
    ASSUME "staleCache" \notin Events, TypeOK, Inv, Booted, NextCases
    PROVE  Booted'
<1>1. bootstrap \subseteq bootstrap'
  BY EnvironmentGrows
<1>2. ASSUME NEW n \in Machines, Reconcile(n)
      PROVE  Booted'
  <2>1. /\ key' = n /\ obj' = stored[n] /\ UNCHANGED stored
        /\ then' = "return" /\ pc' # "createServer"
    BY <1>2 DEF Reconcile, TypeOK, WorkerOK, api
  <2> QED BY <1>1, <2>1 DEF Booted, ServerOf, GoingTo
<1>3. CASE Handler
  BY <1>3, HandlerBooted
<1>4. CASE PatchStatus
  <2>1. /\ key # None /\ Patched(FALSE) /\ pc = "patchStatus"
        /\ \A m \in Machines : m # key => stored'[m] = stored[m]
        /\ stored'[key].status.serverID = obj.status.serverID
    BY <1>4, PatchStatusWrites
  <2>2. \A m \in Machines : ServerOf(m)' # None => m \in bootstrap
    BY <2>1 DEF Booted, ServerOf
  <2>3. Rest \/ (pc' = then /\ UNCHANGED <<key, obj, then>>)
    BY <2>1, PatchedCases
  <2>4. CASE Rest
    BY <1>1, <2>2, <2>4 DEF Booted, Rest
  <2>5. CASE pc' = then /\ UNCHANGED <<key, obj, then>>
    BY <1>1, <2>1, <2>2, <2>5 DEF Booted, GoingTo
  <2> QED BY <2>3, <2>4, <2>5
<1>5. CASE PatchObject
  <2>1. /\ UNCHANGED <<key, obj, then>> /\ pc' = "patchStatus" /\ pc = "patchObject"
        /\ \A m \in Machines : m # key => stored'[m] = stored[m]
        /\ stored'[key].status = stored[key].status
    BY <1>5, PatchObjectWrites DEF PatchObject
  <2>2. \A m \in Machines : ServerOf(m)' = ServerOf(m)
    BY <2>1 DEF ServerOf
  <2> QED BY <1>1, <2>1, <2>2 DEF Booted, GoingTo
<1>6. CASE Patch /\ ~PatchObject /\ ~PatchStatus
  <2>1. UNCHANGED stored
    BY <1>6 DEF Patch, SkipPatchObject, PatchObjectFails, SkipPatchStatus,
                PatchStatusFails, api
  <2>2. \/ /\ pc = "patchObject" /\ pc' = "patchStatus"
           /\ UNCHANGED <<key, obj, then>>
        \/ pc = "patchStatus" /\ \E failed : Patched(failed)
    BY <1>6 DEF Patch, SkipPatchObject, PatchObjectFails, SkipPatchStatus,
                PatchStatusFails, GoTo
  <2>3. CASE pc = "patchStatus" /\ Rest
    BY <1>1, <2>1, <2>3 DEF Booted, Rest, ServerOf
  <2>4. CASE pc \in {"patchObject", "patchStatus"} /\ pc' \in {"patchStatus", then}
               /\ UNCHANGED <<key, obj, then>>
    BY <1>1, <2>1, <2>4 DEF Booted, GoingTo, ServerOf
  <2> QED BY <2>2, <2>3, <2>4, PatchedCases
<1>7. CASE Bystander
  <2>1. \A m \in Machines : ServerOf(m)' = ServerOf(m)
    BY <1>7, BystanderEdits DEF Written, ServerOf
  <2>2. CASE UNCHANGED worker
    BY <1>1, <2>1, <2>2 DEF Booted, GoingTo, worker
  <2>3. CASE CrashRestart
    BY <1>1, <2>1, <2>3 DEF Booted, CrashRestart, Rest
  <2> QED BY <1>7, <2>2, <2>3, BystanderEdits
<1> QED BY <1>2, <1>3, <1>4, <1>5, <1>6, <1>7 DEF NextCases

LEMMA StartBooted == ControllerInit => Booted
BY DEF ControllerInit, NewMachine, Booted, ServerOf

\* What one step does to Latitude.sh's servers, as the lifecycle sees it.
SameServer(r) ==
    /\ Live(r)' = Live(r)
    /\ Live(r) => /\ servers'[r].owner = servers[r].owner
                  /\ servers'[r].vlan = servers[r].vlan

OthersSame(s) == \A r \in Servers : r # s => SameServer(r)

Starts(s) ==
    /\ ~Live(s)
    /\ Live(s)' /\ servers'[s].owner = key /\ ~servers'[s].vlan
    /\ OthersSame(s)

Joins(s) ==
    /\ Live(s) /\ servers'[s].owner = servers[s].owner
    /\ Live(s)' /\ servers'[s].vlan
    /\ OthersSame(s)

Stops(s) == Live(s) /\ ~Live(s)' /\ OthersSame(s)

LEMMA ServerSteps ==
    ASSUME TypeOK, NextCases
    PROVE  \/ \A r \in Servers : SameServer(r)
           \/ pc = "createServer" /\ \E s \in Servers : Starts(s)
           \/ AttachServer /\ \E s \in Servers : s = obj.status.serverID /\ Joins(s)
           \/ \E s \in Servers : Stops(s)
<1>1. servers \in [Servers -> Server]
  BY DEF TypeOK, CloudOK
<1>2. ASSUME NEW s \in Servers,
             \A r \in Servers : r # s => servers'[r] = servers[r]
      PROVE  OthersSame(s)
  BY <1>2 DEF OthersSame, SameServer, Live
<1>3. ASSUME NEW s \in Servers, CreateServer(s) \/ CreateServerReplyLost(s)
      PROVE  pc = "createServer" /\ Starts(s)
  <2>1. /\ pc = "createServer" /\ servers[s].st = "unused"
        /\ servers' = [servers EXCEPT ![s] =
             [st |-> "off", owner |-> key, userData |-> obj.status.userDataID,
              address |-> FALSE, vlan |-> FALSE]]
    BY <1>3 DEF CreateServer, CreateServerReplyLost, StartNewServer
  <2>2. OthersSame(s)
    BY <1>1, <1>2, <2>1
  <2> QED BY <1>1, <2>1, <2>2 DEF Starts, Live
<1>4. CASE AttachServer
  <2>1. PICK s \in Servers \union {None} :
          /\ s = obj.status.serverID
          /\ \/ UNCHANGED servers
             \/ Live(s) /\ servers' = [servers EXCEPT ![s].vlan = TRUE]
    BY <1>4 DEF AttachServer, TypeOK, WorkerOK, Object, Status
  <2>2. CASE UNCHANGED servers
    BY <2>2 DEF SameServer, Live
  <2>3. CASE /\ s \in Servers /\ Live(s)
             /\ servers' = [servers EXCEPT ![s].vlan = TRUE]
    <3>1. /\ servers'[s].st = servers[s].st
          /\ servers'[s].owner = servers[s].owner
          /\ servers'[s].vlan = TRUE
      BY <1>1, <2>3 DEF Server
    <3>2. OthersSame(s)
      BY <1>1, <1>2, <2>3
    <3>3. Joins(s)
      BY <2>3, <3>1, <3>2 DEF Joins, Live
    <3> QED BY <1>4, <2>1, <2>3, <3>3
  <2>4. CASE s \notin Servers /\ servers' = [servers EXCEPT ![s].vlan = TRUE]
    BY <1>1, <2>4 DEF SameServer, Live
  <2> QED BY <2>1, <2>2, <2>3, <2>4
<1>5. CASE RemoveServer
  <2>1. PICK s \in Servers :
          Live(s) /\ servers' = [servers EXCEPT ![s].st = "deleted"]
    BY <1>5 DEF RemoveServer, TypeOK, WorkerOK, Object, Status
  <2>2. servers'[s].st = "deleted"
    BY <1>1, <2>1 DEF Server
  <2>3. OthersSame(s)
    BY <1>1, <1>2, <2>1
  <2> QED BY <2>1, <2>2, <2>3 DEF Stops, Live
<1>6. ASSUME NEW s \in Servers, RemoveExternally(s)
      PROVE  Stops(s)
  <2>1. Live(s) /\ servers' = [servers EXCEPT ![s].st = "lost"]
    BY <1>6 DEF RemoveExternally
  <2>2. servers'[s].st = "lost"
    BY <1>1, <2>1 DEF Server
  <2>3. OthersSame(s)
    BY <1>1, <1>2, <2>1
  <2> QED BY <2>1, <2>2, <2>3 DEF Stops, Live
<1>7. ASSUME NEW s \in Servers, PowerOn(s), NEW r \in Servers
      PROVE  SameServer(r)
  <2>1. PICK a : servers' = [servers EXCEPT ![s].st = "on", ![s].address = a]
    BY <1>7 DEF PowerOn
  <2>2. servers[s].st = "off"
    BY <1>7 DEF PowerOn
  <2>3. /\ servers'[r].owner = servers[r].owner
        /\ servers'[r].vlan = servers[r].vlan
        /\ servers'[r].st = IF r = s THEN "on" ELSE servers[r].st
    BY <1>1, <2>1 DEF Server
  <2> QED BY <2>2, <2>3 DEF SameServer, Live
<1>8. CASE UNCHANGED servers
  BY <1>8 DEF SameServer, Live
<1> QED
  BY <1>3, <1>4, <1>5, <1>6, <1>7, <1>8
     DEF NextCases, Reconcile, Handler, ReconcileNormal,
         AddFinalizer, SkipSettled, WaitForOwner, RejectWorker, RejectSpec,
         StartServer, ReconcileServer, ServerRunning, ServerStarting, ServerLost,
         WaitForBootstrap, ReuseUserData, CreateUserData, CreateUserDataReplyLost,
         StoreUserData, CreateServerOutOfStock, RequestFails, ReconcileDelete,
         NoServerToDelete, DeleteServer, DeleteServerReplyLost,
         DeleteServerFails, DeleteUserData, Patch, PatchObject, SkipPatchObject,
         PatchObjectFails, PatchStatus, SkipPatchStatus, PatchStatusFails,
         Bystander, ReconcileGone, CacheSync, Environment, CrashRestart,
         DeleteMachine, SetPaused, SetOwner, EditMachine, PublishBootstrap,
         AdvanceCluster, RecordVLAN, cloud, vars

\* A status keeps a server that is live, when an error of GetServer means that
\* it is not.
LEMMA LiveServerKept ==
    ASSUME "getError" \notin Events, TypeOK, Inv, NextCases,
           NEW m \in Machines, NEW s \in Servers, ServerOf(m) = s, Live(s)
    PROVE  ServerOf(m)' = s
<1>1. s # None
  BY MachineAssumption
<1>2. CASE PatchStatus
  <2>1. /\ \A n \in Machines : n # key => stored'[n] = stored[n]
        /\ stored'[key].status.serverID = obj.status.serverID
        /\ key # None
    BY <1>2, PatchStatusWrites
  <2>2. Unshared(key)
    BY <2>1 DEF Inv, AtWork
  <2>3. m = key => obj.status.serverID = s
    BY <1>1, <2>2 DEF Unshared, ServerOf, Lost, Live
  <2> QED BY <2>1, <2>3 DEF ServerOf
<1>3. CASE PatchObject
  BY <1>3, PatchObjectWrites DEF ServerOf
<1>4. CASE Bystander
  BY <1>4, BystanderEdits DEF Written, ServerOf
<1>5. CASE UNCHANGED stored
  BY <1>5 DEF ServerOf
<1> QED
  BY <1>2, <1>3, <1>4, <1>5, HandlerStep
     DEF NextCases, Reconcile, Patch, SkipPatchObject, PatchObjectFails,
         SkipPatchStatus, PatchStatusFails, api

\* The worker comes to attach a server when its record is written.
LEMMA RecordedBeforeAttach ==
    ASSUME "patchError" \notin Events, TypeOK, Inv, Gone, NextCases,
           pc = "attach" => ServerOf(key) = obj.status.serverID,
           pc' = "attach"
    PROVE  ServerOf(key)' = obj'.status.serverID
<1>1. CASE Handler \/ \E m \in Machines : Reconcile(m)
  BY <1>1
     DEF Reconcile, Handler, ReconcileNormal, AddFinalizer, SkipSettled,
         WaitForOwner, RejectWorker, RejectSpec, StartServer, ReconcileServer,
         ServerRunning, ServerStarting, ServerLost, WaitForBootstrap,
         ReuseUserData, CreateUserData, CreateUserDataReplyLost,
         CreateServer, CreateServerReplyLost, CreateServerOutOfStock,
         RequestFails, AttachServer, ReconcileDelete, NoServerToDelete,
         DeleteServer, DeleteServerReplyLost, DeleteServerFails, DeletionFails,
         DeleteUserData, RetryLater, Known, AtServer, Return, Persist, GoTo
<1>2. CASE PatchObject
  BY <1>2, PatchObjectWrites
<1>3. CASE PatchStatus
  <2>1. /\ Patched(FALSE)
        /\ stored'[key].status.serverID = obj.status.serverID
    BY <1>3, PatchStatusWrites
  <2>2. UNCHANGED <<key, obj>>
    BY <2>1, PatchedCases DEF Rest
  <2> QED BY <2>1, <2>2 DEF ServerOf
<1>4. CASE Patch /\ ~PatchObject /\ ~PatchStatus
  <2>1. /\ key \in Machines /\ key # None /\ UNCHANGED stored
        /\ pc = "patchStatus" /\ \E failed : Patched(failed)
        /\ ~StatusChanged \/ ~stored[key].exists
    BY <1>4, PatchWithoutWrite
  <2>2. then = "attach" /\ UNCHANGED <<key, obj>>
    BY <2>1, PatchedCases DEF Rest
  <2>3. Unshared(key) /\ Placed
    BY <2>1 DEF Inv, AtWork
  <2>4. Provisioning
    BY <2>1, <2>2, <2>3 DEF Placed, GoingTo
  <2>5. stored[key].finalizer
    BY <2>3, <2>4 DEF Unshared, Provisioning
  <2>6. ~StatusChanged
    BY <2>1, <2>5 DEF Gone
  <2> QED BY <2>1, <2>2, <2>3, <2>6 DEF Unshared, StatusChanged, ServerOf
<1>5. CASE Bystander
  <2>1. UNCHANGED worker
    BY <1>5, BystanderEdits DEF CrashRestart, Rest
  <2>2. key \in Machines
    BY <1>5, <2>1 DEF TypeOK, WorkerOK, worker
  <2> QED BY <1>5, <2>1, <2>2, BystanderEdits DEF Written, ServerOf, worker
<1> QED BY <1>1, <1>2, <1>3, <1>4, <1>5 DEF NextCases

LEMMA NextJoined ==
    ASSUME "patchError" \notin Events, "getError" \notin Events,
           TypeOK, Inv, Gone, Joined, NextCases
    PROVE  Joined'
<1>1. ASSUME NEW s \in Servers, Live(s)', servers'[s].vlan
      PROVE  /\ servers'[s].owner \in Machines
             /\ stored'[servers'[s].owner].status.serverID = s
  <2>1. CASE Live(s) /\ servers[s].vlan /\ servers'[s].owner = servers[s].owner
    <3>1. PICK m \in Machines : m = servers[s].owner /\ ServerOf(m) = s
      BY <2>1 DEF Joined
    <3>2. ServerOf(m)' = s
      BY <2>1, <3>1, LiveServerKept
    <3> QED BY <2>1, <3>1, <3>2 DEF ServerOf
  <2>2. CASE AttachServer /\ s = obj.status.serverID /\ Joins(s)
    <3>1. pc = "attach" /\ key \in Machines /\ key # None /\ UNCHANGED stored
      BY <2>2 DEF AttachServer, TypeOK, WorkerOK, api
    <3>2. InHand(key)
      BY <3>1 DEF Inv, AtWork
    <3>3. servers'[s].owner = key
      BY <2>2, <3>2, MachineAssumption DEF InHand, Joins
    <3> QED BY <2>2, <3>1, <3>3 DEF Joined, ServerOf
  <2>3. CASE SameServer(s)
    BY <1>1, <2>1, <2>3 DEF SameServer
  <2>4. ASSUME NEW r \in Servers, Starts(r) \/ Stops(r) \/ Joins(r)
        PROVE  r = s => Joins(r)
    BY <1>1, <2>4 DEF Starts, Stops
  <2>5. ASSUME NEW r \in Servers, Starts(r) \/ Stops(r) \/ Joins(r), r # s
        PROVE  SameServer(s)
    BY <2>5 DEF Starts, Stops, Joins, OthersSame
  <2> QED BY <1>1, <2>2, <2>3, <2>4, <2>5, ServerSteps DEF Starts, Stops
<1>2. pc' = "attach" => ServerOf(key)' = obj'.status.serverID
  BY RecordedBeforeAttach DEF Joined
<1> QED BY <1>1, <1>2 DEF Joined, ServerOf

LEMMA StartJoined == ControllerInit => Joined
BY DEF ControllerInit, Joined, Live

\* The machine whose server is created or attached is there, and its cluster is
\* ready for it.
LEMMA WorksForBooted ==
    ASSUME TypeOK, Inv, Gone, Booted, pc = "createServer" \/ pc = "attach"
    PROVE  \E m \in Machines :
             /\ m = key /\ m \in bootstrap /\ stored[m].exists
             /\ obj.status.serverID # None => servers[obj.status.serverID].owner = m
<1>1. PICK m \in Machines : m = key /\ AtWork(m) /\ key # None
  BY MachineAssumption DEF TypeOK, WorkerOK, Inv
<1>2. Provisioning /\ (GoingTo("createServer") \/ obj.status.serverID # None)
  BY <1>1 DEF AtWork, Placed, GoingTo
<1>3. obj.finalizer = TRUE /\ before.finalizer = TRUE
  BY <1>2 DEF TypeOK, WorkerOK, Object, Provisioning
<1>4. stored[m].finalizer
  BY <1>1, <1>3 DEF AtWork, Unshared
<1>5. stored[m].exists
  BY <1>4 DEF Gone
<1>6. m \in bootstrap
  BY <1>1, <1>2 DEF Booted
<1> QED BY <1>1, <1>5, <1>6 DEF AtWork, InHand

\* The machine of a server in the VLAN is there.
LEMMA JoinedExists ==
    ASSUME Inv, Joined, NEW s \in Servers, Live(s), servers[s].vlan
    PROVE  servers[s].owner \in Machines /\ stored[servers[s].owner].exists
<1>1. PICK m \in Machines : m = servers[s].owner /\ ServerOf(m) = s
  BY DEF Joined
<1>2. s # None /\ ~Deleted(s)
  BY MachineAssumption DEF Live, Deleted
<1> QED BY <1>1, <1>2 DEF Inv, Records, Recorded
=============================================================================
