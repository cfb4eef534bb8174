# A formal model of cluster-api-provider-latitudesh

This directory holds TLA+ models of the two controllers of the Latitude.sh infrastructure provider
for Cluster API, of both together, and of what they write into a machine's user data; the TLC configurations that check them on small instances; and machine-checked (TLAPS) proofs for instances of every size. Paths are relative to the root of the repository;
line numbers are those of the files under `src/`.

## 1. Inventory

The provider is one Kubernetes manager (`cmd/main.go`) with three reconcilers, each with one worker
goroutine, and an HTTP client for Latitude.sh.

| Component | State it keeps | Operations | Modelled in |
|---|---|---|---|
| LatitudeMachine controller (`internal/controller/latitudemachine_controller.go`) | the LatitudeMachine's finalizer, `spec.providerID` and status (`serverID`, `userDataID`, `ready`, failure, address, condition) | `Reconcile`, `reconcileNormal`, `reconcileServer`, `reconcileDelete`, `checkControlPlaneFailed`, `attachServerToVLAN` | `LatitudeMachine`, `MachineContract` |
| LatitudeCluster controller (`latitudecluster_controller.go`) | the LatitudeCluster's finalizer and status (`ready`, `controlPlaneEndpoint`, `vlanID`, `vlanVID`, condition) | `Reconcile`, `reconcileNormal`, `reconcileVLAN`, `setupControlPlaneEndpoint`, `reconcileDelete`, `cleanupVLAN` | `LatitudeCluster` |
| Latitude.sh client (`internal/latitude/client.go`) | none; the service behind it keeps servers, user data, VLANs and their assignments | one call per operation; `CreateVLAN` is a list followed by a creation | in the actions of both |
| Machine scope (`internal/scope/machine.go`) | the objects it was given | `GetBootstrapData`, `SetReady`, `SetProviderID` | in `LatitudeMachine` |
| API types (`api/v1beta1`) | the fields of the resources | none | the records `Object`, `Status`, `Config`, `Infra` |
| VLAN addresses and cloud-init (`vlan_config.go`, `injectVLANConfig`, `getMachineIndex`) | none: what they make is stored as user data | `getMachineIndex`, `CalculateVLANIPAddress`, `InjectVLANConfigIntoCloudInit` | `VLANInjection` |
| LatitudeMachineTemplate controller | none; its `Reconcile` does nothing | none | not modelled |
| Manager (`cmd/main.go`) | work queues and informer caches (controller-runtime) | start, crash, restart | `LatitudeProvider`, `ClusterLifecycle` |
| Manifests, scripts, tests | none | none | not modelled, read for what they expect |

How they interact:

- Controllers share nothing in memory. They meet through the API server: the machine controller
  reads its LatitudeCluster (project, location, VLAN), the cluster controller reads the control
  plane machines for the endpoint, and both are read and written by cluster-api, which sets owner
  references, publishes bootstrap secrets, pauses and deletes.
- Every read goes to the informer's cache, which trails the API server. Every write goes through
  cluster-api's patch helper: a merge patch of the difference between the object as it was read and
  as it was left, the object first and its status second, each of which can fail by itself.
- Each controller watches its own kind only (`SetupWithManager`). Everything else it waits for is
  found by polling, with `RequeueAfter` or the back-off of a returned error. A return path that does
  neither leaves the object asleep.
- Latitude.sh's creations have no idempotency key, and a request can be carried out although its
  reply is lost.

What makes each component correct, and what is hard about it:

- *Machine controller.* One server and one user data for each machine; no server that nobody
  knows; a machine fails for good only for want of stock; a ready machine's provider ID is its
  server's; a deleted machine takes its server along; every machine that can go on does. The hard
  part is that a reconciliation is a dozen remote calls with a crash, a lost reply, an edit or a
  deletion possible between any two, and that the next one starts from the cache.
- *Cluster controller.* One VLAN for each cluster, recorded before the cluster is ready; the VLANs of
  others left alone; the endpoint found and kept; the cluster goes when deleted. The hard part is
  that the creation of the VLAN and its record are separate, and that what owns a VLAN is decided
  from a specification that users may edit.
- *Both together.* A cluster's network is there before its servers and outlives them; a ready machine is in
  it; the endpoint is found among the machines; a cluster that is deleted goes with all it had. The hard
  part is that nothing but the objects and cluster-api's order of doing things connects the two.
- *Addresses and cloud-init.* An address is a host of the subnet and always the same for a machine; the
  command that sets it runs first and disturbs nothing. The hard part is integer overflow, and a text that
  somebody else wrote.

`PROJECT.json` lists the hazards with their lines, and for each the properties that would catch it.

## 2. Modules

| Module | What it is |
|---|---|
| `PatchHelper` | what a merge patch does to one field: `Merged(before, after, current)` |
| `LatitudeMachine` | the machine controller, its worker, cache and queue, Latitude.sh's servers and user data, and everybody who touches them |
| `MachineContract` | the abstract specification of a machine's life: phase, claim, release |
| `LatitudeMachine_proofs` | types of `LatitudeMachine`, and who may fail a machine |
| `MachineRecords_proofs` | what a machine's status records of its server and user data |
| `MachineWakeup_proofs` | that no return path forgets a machine |
| `MachineContract_proofs` | that `LatitudeMachine` implements `MachineContract` |
| `LatitudeCluster` | the cluster controller with Latitude.sh's VLANs and the control plane machines |
| `LatitudeCluster_proofs` | types of `LatitudeCluster`, its queue, the endpoint, one VLAN for each description |
| `ClusterVLAN_proofs` | what a cluster's status records of its VLAN |
| `LatitudeProvider` | both controllers in one manager: instances of the two modules that have each other's objects as their environment, and cluster-api above them |
| `LatitudeProvider_proofs` | what the two controllers guarantee together |
| `ClusterLifecycle` | the abstract specification of a cluster's life: network, readiness, servers, endpoint, deletion |
| `VLANInjection` | how a machine gets its address, and how that gets into its user data |
| `VLANInjection_proofs` | its addresses, its hash, its types, and where its command comes in the document |
| `MCLatitudeMachine`, `MCTwoClusters`, `MCLatitudeCluster`, `MCLatitudeProvider`, `MCVLANInjection` | the instances TLC checks |

### How state corresponds to the code

| Variable | Code |
|---|---|
| `stored`, `cached` | the custom resources at the API server, and in the informer's cache which `r.Get` reads |
| `queue` | the controller's work queue. A delayed or rate-limited key is in it too: how long it waits is not modelled, only that it comes back |
| `pc`, `key` | where the worker goroutine is in the handler, and the key it was given |
| `before`, `obj` | the patch helper's copy of the object as read, and the object the handler edits |
| `then`, `again` | where the handler goes on after a patch in the middle of it (`reconcileServer` patches twice), and whether the result asks for a requeue |
| `servers`, `userData`, `vlans` | the resources at Latitude.sh. `deleted` is what the controller deleted, `lost` what somebody else removed |
| `infra`, `bootstrap` | what the machine controller reads of its cluster, and which bootstrap secrets are published |
| `present`, `up` | the control plane machines, and those that are ready with an address |
| `mStored`, `cStored`, ... | in `LatitudeProvider`: the variables of the machine and of the cluster controller |
| `doomed` | in `LatitudeProvider`: the Clusters whose deletion was requested |
| `rest`, `hash` | in `VLANInjection`: the loop of `getMachineIndex`, the characters to come and the `int` |
| `ip`, `address` | the result of `CalculateVLANIPAddress`, and what each machine's user data says |
| `bootstrap`, `userData` | in `VLANInjection`: the document before and after the injection, as the sequence of its lines |
| `refused` | a ghost variable: the machines whose `CreateServer` was answered with "out of stock" |

### How actions correspond to the code

A reconciliation is cut into one action for each remote call; the local computation between two calls
belongs to the call's action. The names follow the code: `Reconcile`, `AddFinalizer`,
`WaitForOwner`, ..., `CreateUserData`, `CreateServer`, `AttachServer`, `DeleteServer`. An action
whose name ends in `Fails` is the error path of the call, one that ends in `ReplyLost` the case
that the call was carried out and reported as an error. Every `return` of a handler is
`Return(o, requeue)`: the deferred `patchHelper.Patch` follows (`PatchObject`, then
`PatchStatus`), and the key is queued again if the handler asked for it or the patch failed.

What is merged or abstracted:

- reads that have no effect on the state (projects, plans, SSH keys, the location) are merged into
  the action that follows them. The failure of a Secret's read is merged into that action's error path
  (`RequestFails`, with `apiError`). The failure to read the owner Machine, the Cluster, the LatitudeCluster or the
  list of machines (`readError`) is modelled where it happens, as the code has a different answer each time: the first
  read asks for a retry (`WaitForOwner`, line 117), the check of the control plane is passed (`PassesCheck`,
  line 145), `validateMachineSpec` finds no project or site (`NothingFound`) and returns without a retry
  (`RejectSpec`, line 160), the user data goes without the VLAN (`InjectionFails`, line 299), the request for the
  server lacks its project or site (`RequestFails`), the attachment is skipped (`AttachServer`);
- in the controllers' models a subnet from which `CalculateVLANIPAddress` makes no address (`badSubnet`) is a failure
  that any injection may meet; the CRD asks for no format;
- in the controllers' models the content of user data is whether the netplan file is in it; a VLAN's tag
  is its ID, or 0 where a reply had none;
- in `VLANInjection` a name is the sequence of its characters' codes, the first three octets of an address
  are one value, the command is one line, and a document's lines are distinguished by what they are to the
  injection: the key `runcmd:`, an item of it, an item at the left margin, a line that mentions the word, any
  other. The line break that ends the last line may be missing;
- the bootstrap data's absence (requeue) and the failure to read it (error) are separate;
- reconciliations of a paused object return before anything is changed, but after the patch
  helper was set up: they pass through `patchObject` with nothing to send;
- leader election is off by default: there is one manager, and a crash is followed by a restart
  which lists and queues everything.

### The composition

`LatitudeProvider` instantiates the two controllers' modules. Their environment becomes functions of
the other's state: `infra` of a machine's cluster is what its LatitudeCluster says (`Infra`), and the hosts
that are `present` and `up` are the control plane's LatitudeMachines. A step is a step of one
controller, a crash of both, or one of cluster-api, which publishes bootstrap data once the infrastructure is
ready, deletes the machines of a deleted Cluster, and then its LatitudeCluster. Both modules keep
their actions as they are; only the actions of their environment that the other controller now takes are
left out (`AdvanceCluster`, `RecordVLAN`, `HostAppears`, `HostUp`, `HostGoes`).

### Events

`Events` is a constant: the set of things outside the controller's control that a model lets
happen (a crash, a lost reply, a refused patch, a stale read, a late owner, ...). A run names
those under which its properties hold. This matters here, as the code keeps some promises only in
the absence of some faults, and a property is worth checking against every fault it survives. A
theorem names the events it excludes; it holds for every set of the others.

### Variants

A definition commented as a *variant* (for example `PatchedLoggingErrors` before `Patched`) is not
part of the model. It is a plausible mistake in the code; putting it in the place of the definition
it varies makes TLC find a named property violated. `PROJECT.json` lists the pairs under
`mutants`, one at least for every property of every run.

## 3. Runs

All runs use sets of model values. IDs of servers, user data, VLANs and hosts are symmetric in the
runs of safety properties; symmetry is off where liveness is checked. `CHECK_DEADLOCK FALSE`
everywhere: a controller whose objects are settled or gone stops, and rightly so.

| Run | Instance | Shows |
|---|---|---|
| `machine_faults` | 1 machine, 2 servers, 2 user data; every event but `staleCache`, `readError`, `getError`, `lateCluster`, `vlan`, `badSubnet` (1.4 M states) | `TypeOK`, `ReleasedServer`, `ServerBootsRecordedUserData`, `NoLostWakeup`, `SettledGetsNoServer`, `DroppedServerIsGone`, and that the machine implements `MachineContract` |
| `two_clusters` | two clusters in two namespaces, two control plane machines and a worker, 2 servers, 1 user data; out of stock, late cluster, reads of cluster-api's objects and of servers that fail (4.3 M) | `FailedByOwnCluster`, `NoLostWakeup`, and for a machine at a time `ReadyHasProviderID` and `SettledKeepsServer` across the replacement of servers |
| `live` | 1 machine, under fairness; API errors, out of stock, no address, deletion, pausing, late owner, VLAN, failed injections (58 k) | `Settles`, `DeletionCompletes`, and without crashes and lost replies `NoOrphan` and `UserDataCreatedOnce` |
| `cluster_faults` | 1 cluster with any VLANConfig, 1 existing VLAN and 2 to create; every event but `edit`, `listError` and `noVID` (56 k) | `TypeOK`, `ReadyHasVLAN`, `VIDOfVLAN`, `OneVLANPerDescription`, `NoLostWakeup` |
| `cluster_pair` | 2 clusters with names of their own, 1 existing VLAN and 2 to create, 2 hosts; deletion, hosts replaced, replies without a VID (451 k) | `VLANInUseKept`, `ForeignVLANKept`, `ReleasedVLAN`, `EndpointStable` |
| `cluster_live` | 1 cluster, 1 host, 1 existing VLAN and 1 to create, under fairness; API and list errors, VLANs removed by others, edits, deletion, late project (179 k) | `EndpointDiscovered`, `DeletionCompletes` |
| `provider` | 1 cluster, 1 control plane machine, 2 servers, 1 user data, 1 VLAN; machines: crash, deletion, servers lost; cluster: crash, API errors, deletion, late project (1.3 M) | `ReadyHasProviderID` with a cluster that becomes ready meanwhile, and that the provider implements `ClusterLifecycle` |
| `provider_live` | 1 cluster, 1 control plane machine, 1 server, 1 user data, 1 existing VLAN and 1 to create, under fairness; machines: no address, deletion; cluster: API errors, lost replies, deletion (92 k) | `ReadyRunsOnVLAN`, `EndpointDiscovered`, `TornDown` |
| `vlan_injection` | 4 names of two to five characters, an `int` of 16 bits, 6 subnets, VIDs with and without 0, all documents of up to four lines (252 k) | `TypeOK`, `AddressUsable`, `HashOfName`, `CommandRunsFirst` |
| `shared_namespace` | as `two_clusters`, in one namespace | a **violation** of `FailedByOwnCluster` |
| `deletion_stuck` | 1 machine, under fairness; server lost, deletion | a **violation** of `DeletionCompletes` |
| `address_collision` | 2 names in one subnet | a **violation** of `UniqueAddresses` |

Why the bounds are enough. IDs are the only unbounded resource, and the set of IDs is the bound: when
it is used up a creation fails, as it does when Latitude.sh has nothing left. Two servers are enough
for a replacement or an orphan, and two user data for a duplicate. The worker handles one key at a
time, and machines meet in two places only, `checkControlPlaneFailed` and the IDs: a control plane
machine, a worker and a machine of another cluster are all the roles there are. With its one user data,
`two_clusters` lets one machine at a time get a server: that servers are not shared is the contract's
matter, which `machine_faults` checks for a machine and `KeepsItsContract` proves for all. Two VLANs to
create beside an existing one let a cluster replace its own and let two clusters own one each.

The provider is checked with one cluster and one machine: what one cluster or machine does to
another is the question of `two_clusters` and `cluster_pair`, and the two controllers meet in a
cluster and its machines. Its machine is of the control plane, since only those give an endpoint. Two servers let it be
replaced while the cluster goes on.

The names of `vlan_injection` are chosen so that an `int` of 16 bits overflows, as 64 bits do with
names of fourteen characters, and two of the hashes end up negative. In documents of four lines the key, a mention of it, items before
and after and another section occur in every order.

### Fairness

`Fairness` is conjoined to `Spec` only where liveness is checked.

- `WF(Continue)`: a handler that was called returns; the client has timeouts.
- `SF(Reconcile(m))`: the work queue is FIFO, and back-off delays a key without dropping it. The
  fairness is strong because the worker's being busy disables it again and again.
- `WF(CacheSync(m))`: the watch catches up.
- `SF` on `CreateUserData`, `CreateServer`, `DeleteServer`, on the reads before them, and on the
  VLAN's: a request that is retried for ever succeeds once in a while. `Settles` and `EndpointDiscovered`
  would say nothing otherwise, as an API that is always down defeats any controller.
- `WF` on what cluster-api, the user and Latitude.sh do next (owner, specification, bootstrap data,
  power-on, hosts coming up). In `LatitudeCluster` the machines are listed from the cache, whose order is
  a Go map's, so that a ready machine is the first one once in a while: `SF(SetEndpoint)`.
- In `LatitudeProvider` the same of both controllers; that a cluster has its VLAN and a host an address is no
  longer assumed but follows. cluster-api goes on with what it has begun (`WF` on bootstrap data,
  on the deletion of a deleted cluster's machines, and on that of the LatitudeCluster), and `SF` on the cluster
  controller's requests stands for their being retried for ever.

Nothing is assumed of patches, so liveness is not claimed where they may fail. controller-runtime's
periodic resync (every ten hours by default) is not modelled: what only a resync would repair counts as
never repaired.

### What the abstract specification says

`MachineContract` knows a machine's phase, the server it claims and which servers were released or
lost. It says that a machine becomes ready or fails once and for all, that it claims a server nobody
else claims, gives it up only when it was lost to somebody else and before it is ready, and that
a server is released only for a machine whose deletion was requested, which goes only after that.
`KeepsContract` is `Contract!Spec` under the refinement mapping at the end of `LatitudeMachine`; it is
checked without stale reads and `getError`, under which the code does not keep it.

`ClusterLifecycle` knows a cluster's phase, its live VLANs, its live servers and which of them are
attached, and whether it has an endpoint. It says that a cluster has one network at most, created before it
is ready; that servers start, are attached and give an endpoint only when it is ready; that the endpoint is found once;
and that the network is released, and the cluster gone, only when it is to be deleted and no server is attached any
more. `KeepsLifecycle` is `Lifecycle!Spec` under the refinement mapping at the end of `LatitudeProvider`. Most
of its steps are guarded by what the other controller, or cluster-api, has done.

## 4. Proofs

Eight modules hold theorems, which TLAPS checks. They are for any number of machines, clusters,
namespaces, hosts, IDs and documents. What they take of the constants is what `MachineAssumption`,
`ClusterAssumption`, `InjectionAssumption`, `BootstrapAssumption`, `ProviderAssumption` and
`ComponentAssumptions` say: that they are of their types, that `None` is no ID, that bootstrap data, which this
controller only reads, has no line of its own making in it, and which events the composition leaves to its components.

A theorem that excludes an event does so because the property is false with it. Where the table says
"none", every event of the module is allowed. `NoLostWakeup` of the machine controller names one way a machine may
be left asleep, and is proved without excluding anything: section 5 has what happens then.

| Theorem | States | Events excluded |
|---|---|---|
| `LatitudeMachine_proofs`: `TypeCorrect` | `[]TypeOK` | none |
| `FailedByItsOwnCluster` | `[]FailedByOwnCluster` (a namespace for each cluster) | none |
| `MachineRecords_proofs`: `ServerReleased`, `UserDataRecorded`, `NoServerOnceSettled` | `[]ReleasedServer`, `[]ServerBootsRecordedUserData`, `SettledGetsNoServer` | `staleCache` |
| `SettledMachineKeepsServer` | `SettledKeepsServer` | `staleCache` |
| `ProviderIDOfReady` | `[]ReadyHasProviderID` | `staleCache`, `patchError` |
| `NoServerForgotten` | `[]NoOrphan` | `NoneForgotten`: what can come between a creation and its record (`staleCache`, `crash`, `patchError`, `lostReply`); `getError` |
| `OneUserData` | `[]UserDataCreatedOnce` | `NoneForgotten`, `emptyReply` |
| `MachineWakeup_proofs`: `NoMachineForgotten` | `[]NoLostWakeup` | none |
| `MachineContract_proofs`: `KeepsItsContract` | `KeepsContract` | `staleCache`, `getError` |
| `LatitudeCluster_proofs`: `ClusterTypeCorrect`, `NoClusterForgotten` | `[]TypeOK`, `[]NoLostWakeup` | none |
| `EndpointIsStable` | `EndpointStable` | `staleCache` |
| `OneVLAN` | `[]OneVLANPerDescription` | `listError` |
| `ClusterVLAN_proofs`: `ReadyClusterHasVLAN` | `[]ReadyHasVLAN` | `edit` |
| `TagOfItsVLAN` | `[]VIDOfVLAN` | `edit`, `noVID` |
| `ForeignVLANIsKept` | `[]ForeignVLANKept` | `edit`, `externalDelete` |
| `VLANInUseIsKept` | `[]VLANInUseKept` (a description for each cluster) | `edit`, `externalDelete` |
| `VLANIsReleased` | `[]ReleasedVLAN` | `NothingLost`: `staleCache`, `crash`, `patchError`, `apiError`, `lostReply`, `edit` |
| `VLANInjection_proofs`: `AddressesUsable`, `InjectionTypeCorrect` | `[]AddressUsable`, `[]TypeOK` | |
| `HashIsOfName` | `[]HashOfName` | |
| `CommandRunsBeforeOthers` | `[]CommandRunsFirst` | |
| `LatitudeProvider_proofs`: `ProviderIDOfReadyMachine` | `[]ReadyHasProviderID` | `staleCache`, `patchError` of the machine's |
| `ReadyMachineRunsOnVLAN` | `[]ReadyRunsOnVLAN` (a description for each cluster) | `NothingSkipped`: `staleCache`, `crash`, `apiError`, `readError`, `emptyReply`, `badSubnet` of the machine's |
| `LifecycleIsKept` | `KeepsLifecycle` (a description for each cluster) | `InOrder`: `staleCache`, `patchError`, `getError` of the machine's, `listError` of the cluster's |

### The arguments

None of the properties about records is inductive: each speaks of `stored`, while what is written
there comes out of the worker's `obj`, by a merge with `before`, possibly much later and after
somebody else's writes. The invariants speak of every copy there is.

- *Who fails a machine.* `FailuresCaused`: every failure visible in `stored`, in `cached` or in `obj` has
  a cause. `refused` only grows, a merge takes each field from one side or the other, and the causes of a
  control plane machine that a worker looks at are causes of the worker's own
  (`ControlPlaneFailedCauses`).
- *The machine's records* (`Inv` of `MachineRecords_proofs`). `Recorded`: the server in a status was created
  for that machine, boots the user data there and is deleted only on behalf of its deletion. For the machine
  under reconciliation, `Unshared`: nobody else writes these fields, so a field the worker did not
  change is stored as it was read; `InHand`: what is said of the stored status holds of `obj` as well, so that
  either of the two patches of a creation may be lost; `Edited`, `Placed`: where in the handler the two may
  differ at all. This is what a stale cache destroys. `SettledMachineKeepsServer` is these together: the
  object in hand names another server than was read only if it was read unfinished (`Edited`), and as nobody else
  writes the progress of the machine (`Unshared`), it is unfinished still. `Names` adds the provider ID, `Owned`,
  `DataOwned` and `DataHeld` that what was created is either recorded or in the hands of the worker that created it.
- *The contract.* `KeepsItsContract` maps every action to a step of `MachineContract` or to a stutter, with
  `Inv` as the invariant: the contract's guards (the claim is unused by others, the phase is pending, the
  deletion was requested) are what `Inv` says at the line of the patch.
- *Waking up.* `Noticed`, for both controllers: a machine that the cache shows to need work is in the
  queue, in the worker's hands, or differs from what is stored in a field only the controller writes, in which
  case the watch has an event to deliver. `Worked` says what each place in the handler still
  promises, up to the `requeue` of its result and the error of its patch. A machine that `validateMachineSpec`
  rejects either gets a new condition, which the watch delivers, or had it before, and then is the exception.
- *One VLAN.* `OneVLANPerDescription` is inductive: a creation needs an empty list.
- *The cluster's VLAN* (`Records` of `ClusterVLAN_proofs`). `Held(o, c)` is said of every copy of a
  cluster's object, stored, cached, `before` and `obj`: a ready cluster has VLAN and tag, which go together, and
  the VLAN is the configured one or one made for its description. `VLANLives` adds that it was not deleted
  unless the cluster's own deletion did it. A stale cache is harmless here: what it says was true, and
  stays so while nobody edits the configuration.
- *Release.* `Owners`: a live VLAN's creator has it recorded, or is at work with it in `obj`. It
  needs `NothingLost`, as everything that comes between the creation and its record, or that lets a cleanup
  fail, leaves a VLAN behind.
- *The endpoint.* `EndpointRead`: while a reconciliation is under way, `before` has the endpoint that is stored.
- *Addresses.* `WrapInt` says that what overflows stays an `int`, `IndexRange` that the remainder of any
  integer, negated when it is negative, is in 0 to 240 (the range the comment at
  `latitudemachine_controller.go:777` gives), and `AddressGood` that adding 10 does not overflow a byte.
  The theorem is for all names, so for as many characters and overflows as there may be, and for every
  width of `int`.
- *The hash.* `HashOfName` compares what the loop leaves, wrapped at every character, with the number that the
  characters are the digits of in base 31 (`Value`), wrapped once. In the loop, neither the number of the characters
  read nor the unwrapped hash is at hand; `Hashed(k)` of `HashInv` says that there is an `x` that the hash is the rest
  of, and that `x`, shifted by the characters to come, is the value of the `k` read. `WrapStep`, that `Wrap` may be
  left out inside of a sum and a product, carries it over a character; it needs that quotient and remainder are
  unique (`ModUnique`).
- *Induction over data.* `Powers` and `Value` are recursive functions, and that they exist and are what their
  definitions say (`PowersAre`, `ValueIs`) takes an induction. The library's takes the fact as an operator, which
  the provers cannot instantiate; `LeastNatural` gets the least element of a set of naturals out of `WFMin`, which
  has sets alone in it, `Induction` is over the set of the numbers that have the fact, and `Recurrence` makes the
  function from it.
- *The command.* `InsertionPointIs` says that there is a first line with `runcmd:` and that the command goes behind
  it, or that only an unterminated last line may have the word. In the first case the line is a key, and the only
  one, if the document is `Ordinary` (`OnlyKey`), and the section is what it was behind the new line
  (`InsertRunsFirst`); in the second nothing ran before, and the new section is the last (`AppendRunsFirst`).
  Both are for documents of any length. `CommandsAre` determines the commands of a document from its last
  key and the end of its section; `Min`, `Max` and the selections of the community modules are reduced to it by
  `MinIs` and `MaxIs`.

### The composition

`LatitudeProvider_proofs` instantiates the components' proofs. A step of one controller is a step of
its module (`StepCases`), and so preserves its module's invariant; to the other controller it is a step of
the environment. `MachineInv` and `ClusterInv` are `TypeOK` and the records of each, and survive the
other's steps because they do not speak of what the other writes. What connects the two is `Order`:

- `Published`: bootstrap data is out only for machines of ready clusters;
- `Emptied`: a LatitudeCluster is being deleted only when its machines are gone, and a machine that is gone
  does not come back (`NoneReturns`).

With `ClusterInv`, `VLANComesFirst` says that a machine whose data is published has a cluster whose VLAN is
recorded, tagged and live. `Connected` joins it with `Wired` of `MachineRecords_proofs`: the
server that a machine has, or the worker holds, boots user data with the VLAN in it and is attached, or is about
to be by the worker that created it. `ReadyMachineRunsOnVLAN` follows.

`LifecycleIsKept` is the refinement of `ClusterLifecycle`. Its invariant `Life` adds to `MachineInv`,
`ClusterInv` and `Order` what the guards of the abstract actions ask for:

- `Booted` (`MachineRecords_proofs`): a machine has a server, or is about to create one, only if its bootstrap
  data was published. So `StartServer` and `Attach` find the cluster ready.
- `Joined`: a live server that is attached is in its machine's stored status. So it ends before the machine
  goes, and with `Emptied` before its cluster's deletion starts: `ReleaseNetwork` and `Vanish` find nothing
  attached.
- `Tended` (`ClusterVLAN_proofs`): what the worker read before it decided is still stored, as only it writes it:
  the finalizer and the readiness. So one patch makes a cluster ready, sets its endpoint or removes it, and
  never two of these; and while it provisions a cluster, no VLAN made for that cluster is deleted.
- `OneVLANPerDescription`: with distinct descriptions, the network is one, so `CreateNetwork` finds none.

The steps are sorted by what they do to the abstract state before they are mapped. `ServerSteps` says that a
step of the machine controller starts one server, attaches one, stops one or changes none, and
`ClusterSteps` the same of networks, readiness, endpoint and disappearance for the cluster controller; neither
knows of the other component. `MachineStepAllowed` and `ClusterStepAllowed` match each case with an action of
`ClusterLifecycle`. A crash is a stutter: nothing that `ClusterLifecycle` knows of is in the manager's memory.

`InOrder` is no stronger than it has to be. With any one of the five allowed, a small instance has a
counterexample: a stale read or a refused patch loses the record of a server that is attached, and the cluster
goes before the server; a `GetServer` that fails drops a live server from the status; a failing list makes a
second VLAN; and of two clusters with one description the first to go deletes the other's network.

### Only model-checked

The liveness properties: fairness and `ENABLED` are beyond the prover. `DroppedServerIsGone` has no theorem of its own:
without `getError`, which it does not survive, it is little more than the guard of `ServerLost`, and `MachineContract`,
whose refinement is proved, says more. Every other invariant and action property that a passing run checks is proved.

## 5. What was found

Three runs are expected to end in a violation, each of something the repository says of itself
(`PROJECT.json`, `findings`):

- `shared_namespace`: `checkControlPlaneFailed` (`latitudemachine_controller.go:402`) looks at every
  machine of the namespace, whatever its cluster: the failure of one cluster's control plane fails
  another cluster's workers for good.
- `deletion_stuck`: `DeleteServer` (`client.go:223`) does not treat a missing server as deleted, as
  `DeleteVLAN` does: the machine is never deleted.
- `address_collision`: `getMachineIndex` (`latitudemachine_controller.go:778`) is to give each machine an
  address of its own (line 767), and takes a hash modulo 241 which nothing compares: machines named `bq`
  and `jj` both get `.28`.

Further differences between code and documentation came up while modelling. They have no run of their
own; each can be seen by changing one line of a configuration.

| Change to a configuration | Violated | Why |
|---|---|---|
| `getError` added to `machine_faults` | `DroppedServerIsGone` | every error of `GetServer` counts as "not found" (line 269), so that a live server is dropped and replaced |
| `edit` added to `cluster_pair` | `ForeignVLANKept` | `cleanupVLAN` (line 355) decides by the present VLANConfig whether a VLAN is its own: with the configuration removed, a given VLAN is deleted |
| the condition `"InvalidSpec"` no longer an exception of `NoLostWakeup`, in `two_clusters` | `NoLostWakeup` | lines 477 and 485 log "requeue", line 160 returns without one, and no watch brings the machine back: it sleeps once it has been rejected twice with the same message, for its cluster's being late or for reads that failed |
| `readError` added to `live` | `Settles` | the same, for good |
| `staleCache` added to `live` (as a safety run) | `UserDataCreatedOnce` | line 323 says that user data is not recreated on retry; the retry may not see the record yet |
| `patchError` added to `two_clusters` | `ReadyHasProviderID` | the object's patch may be refused and the status' accepted; a ready machine is never reconciled again (line 105), so the provider ID stays missing |
| `DescriptionOf <- SameName` in `cluster_pair` | `VLANInUseKept` | the VLAN's description (line 298, "for uniqueness") has no namespace |
| `noVID` added to `cluster_faults` | `VIDOfVLAN` | a reply without a VID records 0 (`client.go:370`), which line 270 and line 287 take for a VID that is set: the machines get no VLAN configuration |
| `edit` added to `cluster_faults` | `VIDOfVLAN` | line 270 keeps a tag that is set although the VLAN changes |
| `crash` added to `cluster_pair` | `ReleasedVLAN` | after a crash between line 306 and the patch the VLAN is in no status; a cluster deleted next leaves it behind |
| `listError` added to `cluster_faults` | `OneVLANPerDescription` | a list that failed or was cut short is treated as empty (`client.go:325`, which warns of it) |
| `readError` or `badSubnet` added to the machine's events in `provider_live` (checked for safety) | `ReadyRunsOnVLAN` | an error of `injectVLANConfig` is only logged (line 300): the machine becomes ready without the VLAN in its user data. `CalculateVLANIPAddress` gives one for a subnet that is no IPv4 network, which the CRD admits |
| `crash` (with the cluster's), `apiError` or `emptyReply` added to the machine's events in `provider_live` | `ReadyRunsOnVLAN` | a failed or interrupted attachment is not retried (line 359), and a reply without a body is taken for user data without an ID (`client.go:119`) |
| `invalid` added to the cluster's events in `provider_live` | `EndpointDiscovered` | a machine reconciled before its project is given returns without a requeue (line 160) and is not brought back by the cluster's becoming ready |
| `externalDelete` added to the machine's events in `provider_live` | `TornDown` | as `deletion_stuck`, and with the machine the whole cluster stays |
| `prefix <= 24` replaced by `prefix <= 26` in `AddressUsable` | `AddressUsable` | the last octet is overwritten without regard to the mask (`vlan_config.go:127`, whose comment owns up to it) |
| `Ordinary` taken out of `CommandRunsFirst` | `CommandRunsFirst` | the command goes behind the first `runcmd:` in the text, be it in a comment or in a file's content, and with two spaces before it, whatever the items of the section have (`vlan_config.go:86`) |

Not modelled but read: a VLANConfig's `networkInterface` never reaches the script, which has the default in it
(`vlan_config.go:83`); `GenerateVLANNetplanConfig` has no caller; the addresses of machines (`.10` to `.250`) include
the range that the examples give to MetalLB; setting the endpoint turns the ClusterReady condition to False for good
(`latitudecluster_controller.go:511`, against the message at line 167); the VID a VLANConfig asks for
(`latitudecluster_types.go:24`) is not sent (`client.go:345`).

## 6. What is not modelled

- *Time.* Requeue delays and timeouts are only "later". Nothing in the code depends on how long.
- *The text of the command* that is injected, its quoting (`escapeForYAML`) and `GenerateVLANNetplanConfig`:
  one line of a document, whose content no property is about.
- *VIDs that are asked for.* A VLAN's tag is its ID in `LatitudeCluster`, or 0 where a reply had none.
- *Flags, metrics, health checks, leader election, scheme registration, generated deep copies*: no
  state that the properties could be about.
- *The template controller*, which does nothing, and *client calls without a caller*
  (`WaitForServer`, `GetAvailablePlans`, `DetachServerFromVLAN`).
- *Dereferenced nil pointers*: `GetServer` dereferences the attributes that a reply may lack (`client.go:213`), and `injectVLANConfig` and `attachServerToVLAN` a LatitudeCluster that `getLatitudeCluster`
  may not have found although it returned no error (lines 679 and 717). controller-runtime recovers from the panic and
  retries, as after any other error.
- *In the composition*: pausing, late owners, edits of the VLANConfig, VLANs removed by others and replies
  without a VID (`ProviderAssumption`), which the components have each for itself; and machines that
  read an outdated LatitudeCluster.
- *The Latitude.sh API's own rules*, such as whether a VLAN with servers in it can be deleted: it is assumed that
  it can, which is the harder case.

## 7. Plan

Done: `PatchHelper`, `LatitudeMachine`, `MachineContract`, `LatitudeCluster`, `LatitudeProvider`,
`ClusterLifecycle`, `VLANInjection`, their runs; the proofs of section 4, which state all but one of the
safety and action properties that the passing runs check, among them both refinements.

Left: theorems that allow more events. `NoOrphan` and `ReleasedVLAN` are proved with no crash and no lost
reply at all, though these do harm only between a creation and its record; to say so in the hypothesis,
the property has to name the window. What comes after the window is covered for servers: `SettledMachineKeepsServer` and
`ServerReleased` allow crashes, lost replies and refused patches, and say that the server a finished machine has
on record stays there, and its machine with it, as long as the server lives.

Runs are kept few, so that everything can be rechecked in minutes: new questions about the controllers are
to be joined to the run that has the events they need.
