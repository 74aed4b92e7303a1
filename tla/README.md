# TLA+ models of open-local

open-local hands out node-local storage in Kubernetes: logical volumes from
volume groups (VGs), and whole block devices. This directory holds TLA+ modules
for the parts of it that keep state and run concurrently, TLC configurations
that check them on small instances, and TLAPS proofs of the main safety
properties for every instance. `PROJECT.json` maps each definition to the lines
it models and lists runs, mutants, findings, hazards and theorems.

## 1. Inventory

| component | state | operations | interacts with |
|---|---|---|---|
| scheduler plugin cache, VGs (`pkg/scheduling-framework/cache`) | Allocatable and Requested per node and VG; a record per reserved claim, a record per volume, the requests of bound claims, details of inline volumes | PreFilter, PreAllocate (Filter and Reserve), Reserve, Unreserve; events of PVs, PVCs, pods, NodeLocalStorage | kube-scheduler framework, informers; one RW lock |
| scheduler plugin cache, exclusive devices | IsAllocated per node and device; the same two kinds of records | the same | the same |
| PreBind (`plugin.go`) | an annotation on the pod | patches the PV, or the pod when there is no PV yet | VolumeBinding plugin, open-local-controller |
| open-local-controller, migration (`pkg/controller/allocate_migrate.go`) | work queue, informer stores | copies the annotation to PVs, retries after 500 ms | pods, claims, PVs |
| open-local-controller, NLS sync (`controller.go`) | NodeLocalStorage objects | create on missing, update under a gate, delete with the node | agent, `NodeLocalStorageInitConfig` |
| open-local-controller, S3 cleaner (`clean_s3_snapshot.go`) | restic repositories | removes repositories no snapshot content refers to, deletes orphan contents | snapshotter, node server |
| agent (`pkg/agent`) | NLS status | discovery of VGs, devices, mount points; VG creation; expansion of snapshot LVs | NLS sync, plugin cache |
| CSI controller server | in-flight table; otherwise the LVs it asks for | CreateVolume, DeleteVolume, snapshots, expansion | lvmd on the nodes, scheduler extender, restic repositories |
| CSI node server | in-flight table, JSON store of ephemeral volumes, mounts | publish, unpublish, restore, expand | kubelet, lvmd |
| lvmd (`pkg/csi/server`) | logical volumes; running jobs | sequences of LVM and restic commands, wrappers of SPDK commands | CSI servers |
| scheduler extender (`pkg/scheduler`) | a second ledger: VGs, devices, mount points per node | filter, priority, Assume over HTTP; the same events | kube-scheduler |
| scores and strategies | none | binpack, spread, capacity and count scores | plugin and extender |
| restic, lvm, spdk, cgroup, device utilities; om and metrics; command line; generated clients | none of their own | command lines, JSON-RPC, gauges | |

What is hard in this system:

* **The ledger is derived state.** Requested is not stored anywhere; it is
  maintained by increments from six sources (Reserve, Unreserve, PV, PVC, pod
  and NLS events) that arrive in any order, repeatedly, and between a plan and
  its execution.
* **Reserve can fail half way**, after having charged some claims, and relies on
  a later Unreserve that knows exactly which ones.
* **The choice leaves the scheduler by two paths** (PV patch or pod annotation),
  depending on the order of two PreBind plugins that nobody fixes, and the
  second path ends in another process that crashes, restarts and reads lagging
  informers.
* **Plans are made on copies** and must be checked again on the live state.
* **Calls outlive their callers.** A CSI call whose context expires is repeated by
  the sidecar or by kubelet while lvmd still runs the commands of the first one;
  lists and lister copies are stale when they are acted on; the cleaner and the
  NLS sync delete on the strength of them.
* On the node, an LV, a mount and an entry of the JSON store are made one after
  another, with a crash possible between any two.

What makes each part correct: the ledger equals what the records say; a
reservation has an owner that can give it back; Reserve never overcommits; a
disk has one owner; a volume is charged where it is placed; an allocation that
exists is kept; the controller never forgets a volume that has no pool; what
Kubernetes believes of a volume or a snapshot is true on the node, and what it
has deleted is gone there; a backup outlives everything but its deletion; the
NLS of a node converges to its configuration and its host.
`PROJECT.json` lists the hazards at their lines with the property that would
catch each one; section 6 lists those that no property covers.

## 2. Modules

| module | role |
|---|---|
| `Totals` | sum of a function over a finite domain |
| `VGLedger` | the plugin's volume group ledger with LVM claims and inline volumes |
| `DeviceLedger` | the plugin's exclusive devices |
| `AllocateMigrate` | PreBind, the pod annotation and the controller's migration |
| `NodeServer` | publish and unpublish on a node, the in-flight table, the store of ephemeral volumes |
| `VolumeStore` | abstract: what the CSI controller service promises about volumes and read-only snapshots |
| `VolumeLifecycle` | the CSI controller service with the lvmd of a node; implements `VolumeStore` |
| `ResticSnapshots` | snapshots to S3: the jobs in lvmd, deletion by tag, the annotation of orphans, the cleaner |
| `ExtenderAlgo` | the extender's node cache, placement of claims, Assume |
| `ExtenderCache` | the extender: event handlers, filter, SchedulingPVC, and the CreateVolume that asks it |
| `Discovery` | what the agent reads and changes on a host, as operators on the host |
| `NodeStorageSync` | the controller's NLS sync and the agent, composed over the NLS object |
| `MC...` | the instances TLC checks, one per specification |
| `VGLedgerProofs`, `DeviceLedgerProofs`, `AllocateMigrateProofs`, `NodeServerProofs`, `ResticSnapshotsProofs`, `VolumeLifecycleProofs`, `NodeStorageSyncProofs`, `ExtenderCacheProofs` | proofs; one module per specification |

### VGLedger

`known`, `allocatable`, `requested` are `states[n].VGStates`; `nls` says whether
a node state is missing, created by a PV event, or initialised by an NLS.
`pvcAllocated` and `pvAllocated` are the two maps of `PVAllocatedDetails`,
`pvcInfos` is `pvcInfosMap`, `inline` the inline details with the way they came
about ("reserved" by Reserve, with Allocated set; "observed" by podAdd, with
Allocated 0). A pod's cycle is `pc` with its plan (`unitOf`) and the units whose
Allocated is set (`unitAllocated`, what Unreserve will look at).

Each method of the cache is one action, except Reserve and Unreserve, which are
loops under the write lock: every iteration is an action, and `lock`, `todo`,
`vtodo` say who holds the lock and what is left. Splitting them costs states
but makes the half-failed Reserve and the order of its units explicit. Event
handlers are single critical sections and are enabled while the lock is free.
Only one pod is between PreFilter and the end of Reserve at a time, as
kube-scheduler runs one scheduling cycle at a time; binding cycles overlap.

Two specifications share the actions. `Spec` allows every event in every state.
`CleanSpec` leaves out the steps in which the code itself lets ledger and
records come apart; each one is a hazard of its own:

* a revert on another node than the record's (`RecordOn`);
* a PV that changes its pool between events;
* deleting a PV or claim whose claim record is still live (the record is
  dropped and its charge stays);
* an NLS that drops a VG with charges;
* an inline volume without VG (podAdd has charged the ones before it and stores
  nothing);
* an Unreserve that meets details written by podAdd.

### DeviceLedger

`known`, `size`, `held` are `DeviceStates` with Allocatable and IsAllocated; the
rest mirrors VGLedger. `IsPlan` is `processDeviceByMediaType`: claims and free
disks of one media type are sorted and each disk takes the next claim it fits;
`Orders` is every order `sort.Slice`, which is not stable, may produce.
`CleanSpec` leaves out the analogous steps, and a PV event for a device that
somebody else holds (pvUpdate does not look at IsAllocated).

### AllocateMigrate

`claim`, `pv`, `podInfo`, `pod` are API objects; `sBound`, `sPV` what the
scheduler's informers have seen, `kInfo`, `kClaim`, `kPV` the controller's. Each
delivery is an action, so views lag by any amount. `rec` and `vrec` are the
pools of the cache's claim and volume records. PreBind is one action whose
argument is the set of patches that fail; the controller's item is one action
(`SyncPVByPod`) with the set of failed patches, or `SyncPanics`. `Crash` and
`Restart` are the controller's; `SchedulerRestart` rebuilds the cache from the
API objects. VolumeBinding, the external provisioner and the PV controller are
external: `SelectNode`, `VolumesBound`, `BindPV`, `BindPVC`, `DeleteClaim`.

`openLocalFirst`, chosen at the start, says which of the two PreBinds the profile
runs first: nothing in the repository fixes the order.

`CleanSpec` is the environment in which a choice is not abandoned after it left
the scheduler; `RetrySpec` lets a binding fail at any point.

### NodeServer

One node, without SPDK. `op`, `vol`, `step` are the goroutines that serve
requests; a handler's `step` is the call it makes next, so that another request,
a timeout or a crash can come between any two. `inFlight` is the table of
`inflight.go`, `memory` the map of the store, `file` and `readable` its JSON file,
which `os.Create` empties before `Encode` fills it (`saving` holds the write lock
meanwhile). `lvs`, `mounts`, `labels`, `restored` are the node's logical volumes,
mounts, `.local.restored` files and restored data; they survive a crash.
`kind` is the volume context: inline and direct volumes are ephemeral, the
others belong to PVs.

Kubelet is external: it publishes the volumes of a running pod until it is told
they are mounted, unpublishes what it may have published once the pod is gone,
has one call per volume under way, and may stop waiting for it (`Timeout`), after
which the handler still runs. This kubelet is a cooperative one: it unpublishes
after every attempt, whatever error it got.

`CleanSpec` leaves out the steps after which store and LVs are apart for good:
failing saves, a crash while the file is empty, a failure or crash between
creating or removing the LV and saving the entry when the pod is already gone,
and a pod that goes after a failed attempt nobody repeated.

### VolumeLifecycle and VolumeStore

`pv`, `attr`, `capacity`, `content`, `claim`, `want` are the API objects; a call of
a sidecar (`call`) runs in the service and, at some of its steps, in lvmd. A
handler of lvmd is a sequence of commands (`lvcreate`, `lvs`, `origin`, `lvremove`,
...), each one a step of `Run`, since a check and the removal that follows it are
two commands. When the context of a call expires (`Timeout`) the service forgets
it and its handler goes on as a member of `late`; `ServiceRestart` empties the
in-flight table and does the same to every call, `LvmdRestart` stops the handlers.
`abandoned` records the names whose creation was asked of lvmd by a call that
failed: nobody asks for their deletion if the claim goes meanwhile, which is
certain and excused in `DeletedLeavesNothing`. A volume is of one of four kinds;
the kind decides who creates its LV and what its deletion does.

`VolumeStore` says what all this is for: a volume goes only after its claim and
only while no wanted snapshot is held on it, a ready snapshot is held until its
deletion is asked for. The mapping takes `pv` for the volumes, `content` for the
snapshots and the LVs of snapshots for `held`.

### ResticSnapshots

`objects` is the bucket: for each volume the parts of its restic repository;
`jobs` are the handlers in lvmd, from the temporary LV through mount, backup and
umount to its removal, each a step, and each may be the second one for its
snapshot. `seen` is the lister of the controller. The cleaner lists contents,
lists objects and deletes them one by one, so that anything happens in between;
`exposed` records the snapshots whose content was not in the list of a running
scan, `leftover` the temporary snapshots whose removal failed.

### ExtenderAlgo and ExtenderCache

A node cache is a record of capacities, `req` (Requested), disks, the volumes it
has seen (`localPVs`), the claims it answered (`records`) and inline volumes. The
placement operators translate the loops of `algo/common.go`: the set of
assignments the loop may return, since Go iterates over maps in any order. A
handler and SchedulingPVC each run under `CtxLock`, so each is one action. Around
them are the API objects and CreateVolume, which asks and later creates the
volume. `Faults` names what the environment may do beyond the orderly; each of
the eight that the run leaves out makes the ledger wrong for certain and is
listed in section 6.

### Discovery and NodeStorageSync

A host is a record of devices, physical volumes, groups, volumes of open-local
and of others, snapshots and mounts. `Discovery` has the reports and changes of the
agent on it; `U` reduces to the `Width` bits of the code's unsigned integers.
`NodeStorageSync` has the API objects, the watches and listers of the controller
(`nodeEvents`, `nodeCache`, `nlscCache`, `nlsCache`, `notify`), its work queue and
workers (`jobs`), and the three loops of the agent. A write is refused when the
object is not the one that was read; the resource version is abstracted to the
value of the object. Regular expressions of the configuration are sets of names.
The agent's work queue is folded into its timer: InitResource may start at any
time.

The watch of the Nodes may break (`RelistNode`): the events from some point on are
lost, and the list that follows brings the nodes that exist and a `Tombstone` (client-go's
`DeletedFinalStateUnknown`) for those the lister would still show. `DeleteNLSByNode`
takes what the handler was given: a deletion is one request, and a tombstone is none,
because `MetaNamespaceKeyFunc` fails for it (`controller.go:439-442`). `excused` collects
the nodes whose NLS the code leaves behind, each at the step that does so.

## 3. Runs

| run | instance | shows |
|---|---|---|
| `clean_pools` | 1 node, 2 VGs, 2 claims of different size, one shared by 2 pods, 2 inline volumes, spread | the ledger equals the records; every claim record has an owner; Reserve never exceeds Allocatable |
| `open_events` | `Spec`: any event at any time, a pod with an inline volume without VG | types; inline reservations end with their cycle |
| `device_disks` | 1 node, 2 HDDs and an SSD of 2 sizes, 2 claims, one shared, a PV that may be static | a disk has one owner; IsAllocated is set exactly for owned disks; reservations have owners; the greedy walk finds an assignment whenever there is one |
| `migrate_clean` | either order of the PreBinds, a dynamic and a static volume, 2 faults | the controller never forgets a migration, volumes are charged where they are placed, bound claims stay charged, allocations are kept, every volume of a bound pod gets its pool |
| `node_clean` | a volume of any kind and an inline one, 2 handlers, 2 faults | a published volume stays usable; only unused ephemeral LVs are removed; none is left behind; every pod gets and releases its volumes |
| `volumes` | 2 volumes (service-made and restored, or node-made and a device), 1 snapshot, 2 calls, 1 fault | usable volumes have the size they state; a ready snapshot keeps its volume; deleted means gone; released volumes are removed; every step is one of `VolumeStore` |
| `restic` | 1 volume, a snapshot of either policy, 1 fault | a ready snapshot no scan overlooked can be restored; a temporary snapshot belongs to one job |
| `restic_ends` | 1 volume, 1 snapshot of any policy, 2 faults | a snapshot becomes ready, a deleted content goes, an unused repository is removed |
| `restic_race` | as `restic`, no fault | finding 1 |
| `node_restore` | one volume of any kind, 1 fault | finding 2 |
| `extender` | 2 nodes, 2 VGs, a device and a mount point each, batches of pods that compete, 1 disturbance, spread | Requested is exactly what is owed; nothing is promised twice; an answer is reserved; what passes the filter can be served; nothing leaks |
| `agent` | scenes: controller alone, agent alone, both | the NLS goes with its node but for four cases (section 5); spec and status converge; groups and mounts are made; snapshots are extended unless the loop ends before them |

Bounds. `MaxSize` bounds request and PV sizes, `Capacities` the sizes an NLS
reports: two sizes are enough for a claim that fits and one that does not, for
an expansion and for a resize seen by PVC and PV in either order. `RequestBound`
(a constraint of `open_events` only) caps the drift that the unrestricted
environment can pile up; it cuts off no step that the properties of that run
look at, since each is about records. `MaxFaults` bounds
failed requests, failed bindings, expired calls and restarts: two faults let a
retry fail again. In `volumes` and `restic` one fault is enough for the late
handler and the retry that meets it; the second comes from the calls themselves,
which overlap. `MaxCalls` bounds the calls the service handles at a time: two,
for a deletion beside a creation. In `extender`, `Batches` are the sets of pods
that are created together (rivals for a disk, for a VG, for a VG with a claim
that names it or an inline volume, and three claims of one pod), `FirstCap`,
`MaxCap` and `FirstDisks` what the NLS reports first and at most, `MaxDisturbances`
the NLS changes, restarts and selected nodes taken back. In `agent`, `Scenes` fix
who runs, on which objects and hosts, and how many changes of which kinds may
happen (two for each process alone, three where nodes only go, come back and are
listed anew, none when both run on an NLS that is missing or out of date). One host has
a snapshot in a full group before one in a group with room. `Workers` is 2, and `Width`
4 is enough for a reservation that wraps around. Every other variable is finite. Two pods sharing a claim, or a pod with
two claims, are the smallest instances in which a rollback can hit somebody
else's record. The ledgers' runs have one node each: what two nodes add, a
charge given back on the wrong one, is covered for any number of nodes by the
theorems. Two handlers are enough for a late one and its successor, and two
volumes for two writers of the store. The two nodes of `extender` are alike and are
declared symmetric; elsewhere pods, claims and pools differ in the instances.

Deadlock is checked in the ledger runs. In the others everything may come to an
end (all pods, volumes or changes done), so they do not check it.

Fairness. The liveness properties are `BoundPodMigrates`, `Settles`,
`ReleasedIsRemoved`, `AskedIsReady`, `DeletedGoes`, `UnusedIsCleaned`,
`SpecFollowsConfig`, `StatusFollowsHost`, `ResourcesAreInited` and
`SnapshotsAreExtended`.

* Migration: the informers deliver what changed (client-go's reflectors relist), a
  worker takes a queued item, the delaying queue fires after 500 ms, and a
  controller that stopped is restarted by its Deployment. Nothing is assumed of
  pods, of the scheduler or of the provisioner.
* Node server: kubelet repeats a call that did not succeed (its reconciler loop), a
  handler makes its next call, and the DaemonSet restarts the server.
* `volumes`: the external provisioner repeats DeleteVolume with back-off (strong
  fairness, since an in-flight entry or a full service disables it in between),
  and a call that runs makes its next step.
* `restic_ends`: the snapshotter repeats CreateSnapshot and DeleteSnapshot, jobs go
  on, the informers deliver, and the two periodic loops of the controller
  (`controller.go:203`, every minute) run.
* `agent`: informers and handlers run, the informers resync every 30 s
  (`cmd/controller/controller.go:84`), the work queue is first in first out (strong
  fairness for each item), the agent's timers fire. A relist is a fault: that it
  comes is not assumed, only that the watch delivers what it has not lost.

In all of them the number of faults is bounded by a constant, and nothing is
assumed of the steps that are faults or wishes of users.

## 4. Proofs

All theorems hold for every value of the constants that satisfies the ASSUMEs of
the modules (request sizes are positive, sets of nodes are not empty, null
values are not elements, finite sets of records so that sums exist).

* `VGLedgerProofs!TypeCorrect`, `ReserveBounded` (`Spec`): types, and Reserve
  within Allocatable, in the unrestricted environment. The second one follows
  from the types and the check in each iteration: between two iterations nobody
  else can touch the pool because of the lock.
* `VGLedgerProofs!LedgerCorrect` (`CleanSpec`): LedgerMatchesRecords, by
  induction on `LedgerInv`. The equation is not inductive by itself:
  Unreserve skips a VG the cache does not know, which is only right if such a VG
  carries no charge (`UnknownPoolsEmpty`); and the loops under the lock subtract
  what they find, which is only right if the records are still on the pod's node
  and the details still those Reserve wrote (`LockDiscipline`). The sums are
  handled by the lemmas about `Total` (type, zero, one changed argument).
* `VGLedgerProofs!ReservationsHaveOwners` (`CleanSpec`): by induction on `OwnedInv`.
  A record loses its owner only if Unreserve passes it over: because the claim is no
  longer on its list (`UnreserveCoversUnits`), because the cache does not know the
  VG, or because the node's state is missing (`ReservedNodesInited`). The second
  would be a VG with a charge and without an entry, so this invariant rests on
  `LedgerInv`.
* `VGLedgerProofs!InlineOwned` (`Spec`): by induction on `InlineInv`; a Reserve under
  the lock only writes the inline volumes of its own pod (`ReservesOwnVolumes`).
* `DeviceLedgerProofs!DisksSafe`, `DisksAccounted` (`CleanSpec`): DevicesExclusive and
  DeviceAccounting, by one induction on `DeviceInv`. The two need each other: Reserve
  takes a disk because IsAllocated is not set, so accounting gives exclusiveness;
  freeing a disk keeps accounting only because nobody else has it.
  `UnreserveOnRecordNode` is what the rollback loop relies on.
* `DeviceLedgerProofs!DevicesOwned` (`Spec`): DeviceReservationsOwned, by induction on
  `OwnedInv`. Unlike a charge, a device is given back without looking at the node's
  state, so this needs no clean environment.
* `DeviceLedgerProofs!GreedyLosesNothing` (`Spec`): GreedyIsComplete. `ServedRecursion`
  shows that the recursive function `Served` exists. `ServedChain`, by induction
  along the walk: while claims are left over, there is a disk p that was too small for
  the claim it met, and every disk after p has served one. All claims that are left
  when the walk passes p need a disk after p, since both lists are sorted, and there
  are more of them than such disks: the pigeonhole principle excludes an assignment.
  `NatInductionSet` gets induction from the library's theorem that < is well founded,
  which has no operator parameter.
* `AllocateMigrateProofs!MigrationNeverLost` (`Spec`, any number of faults):
  MigrationsQueued, by induction on `MigrateInv`. The controller skips a PV that
  its lister shows with a pool; `ViewsBehind` says that this pool is still there.
* `AllocateMigrateProofs!BoundClaimsCharged` (`CleanSpec`): BoundStaysCharged, by
  induction on `ChargeInv`: a claim is charged from its reservation on
  (`StillCharged`). The event of its PV replaces the record of Reserve by the one of the
  volume, and a rollback takes the record only while there is no PV (`BoundHasPV`).
* `AllocateMigrateProofs!PlacedWhereCharged`, `AllocationsStay` (`CleanSpec`, under
  `NoStaticDevice`): ChargedWherePlaced and AllocationKept, by induction on `PlaceInv`:
  for a claim without a PV of its own one choice is left, wherever it is recorded
  (ledger, pod annotation, lister, PV). A Device claim with a static PV is excluded
  because the code is wrong for it: "must skip if exist" never skips a Device PV
  (section 5).
* `NodeServerProofs!PublishedStaysReady`, `OnlyUnusedRemoved` (`Spec`, any number
  of faults): by induction on `NodeInv`. The table gives one handler per volume
  and, with it, that kubelet is unsure of a volume while a handler has it
  (`OneHandlerPerVolume`); what a handler has done is then still there when it
  answers (`HandlerKnows`); and the store names ephemeral volumes only
  (`StoreEphemeral`). `Moves` and `Reached` state once what all handler steps have
  in common, so that each step only shows its own effect.
* `NodeServerProofs!NothingOrphaned` (`CleanSpec`): NoOrphan, by induction on
  `CleanInv`: an ephemeral LV outside a running publish is in the store, in memory and
  in its file, so that the unpublish finds it, also after a restart.
* `VolumeLifecycleProofs!LifecycleTypes`, `CapacityAlwaysBacked`, `ReadySnapshotsStay`
  (`Spec`, any number of calls and faults): by induction on `LifeInv`, which says what
  a call may rely on at each of its steps although an earlier handler of the same
  name may still run after its caller gave up.
* `VolumeLifecycleProofs!DeletionLeavesNothing`, `LifecycleImplementsStore` (`Spec`,
  under `~Misreads`): DeletedLeavesNothing by induction on `RemovalInv`, and with it
  the refinement of `VolumeStore`. The mapping takes the phases of PVs and
  contents as they are, and the snapshots that have an LV as the ones that hold their
  volume; steps inside the service and lvmd stutter. `Misreads`
  is excluded because the code is wrong there (section 6): a read that fails makes a
  read-only volume look like a normal one.
* `NodeStorageSyncProofs!StorageGoesWithNode` (`Spec`, any nodes, workers, hosts and
  faults): NLSGoesWithNode, by induction on `SyncInv`. The lister agrees with the API
  after its last event (`NodeViews`); a node the lister has seen go has its deletion
  or its tombstone as the last waiting call, or it is excused, or it has neither an NLS
  nor a worker about to create one (`DeletionsLast`). Excused are exactly the four cases
  of section 5: a tombstone, a failed request, a node that went while the controller was
  down, a creation under way. A worker decides on a creation only for a node of the
  lister, and the agent writes only to the object it has read.
* `ResticSnapshotsProofs!TempSnapshotOwned` (`Spec`, any number of faults): by
  induction on `TempInv`. lvcreate refuses a name in use, so a job that gets past it
  is the only one of its snapshot there (`HoldersHaveTemp`, `OneHolder`).
* `ResticSnapshotsProofs!KnownStaysRestorable` (`Spec`, any number of faults): by
  induction on `RestoreInv`. Data leaves a repository in three ways. By tag: only
  after the content is deleted (`ForgetDeleted`). By the cleaner: only from volumes
  of which it knew no snapshot, so that all their data is exposed
  (`DoomedOverlooked`, `OverlookedIsExposed`). By a new repository: only if the
  configuration of the old one is gone, and then its data was exposed
  (`DataHasConfig`). `BackedUp` carries the data from the backup to the answer that
  makes the snapshot ready. The ghost variable `exposed` is what separates this from
  finding 1: without it the property is false.
* `ExtenderCacheProofs!TypeCorrect` (`Spec`, every fault, both strategies) and
  `FilterSound` (every fault, under `PlacesCounted`): FilterIsSound. The filter packs the
  LVM claims into the fullest group with room and looks for disks by size; the request
  packs or spreads the same claims with other loops (`SpreadFits`: where binpack finds
  room, so does spread) and Assume charges them unit by unit.
  `AssumingRecursion` shows that the fold over the units exists, `AssumeAccepts`
  follows it: after the units of the first turns the cache is `After`, the sums of what
  they take (`ChargedMore`), so that each unit finds the room the filter saw
  (`RoomAtTurn`). `OrderExists` and `OneDisk` give the sorted lists and the disk the walk
  over them reaches.
* `ExtenderCacheProofs!Orderly` (`Spec`, under `Faults = {}` and `PlacesCounted`, any number of
  nodes, groups, disks, pods, claims and disturbances): `ExtenderInv` is inductive. From
  it follow `LedgerIsExact`, `PromisesAlwaysFit`, `DisksExclusive`, `AnswersReserved` and
  `NoLeaks`, one for each remaining invariant of the run. Its parts, and what each is
  for:
  * a claim is in a stage (`Absent`, `Waiting`, `Made`, `Bound`, `Deleted`) that says
    what the API, the informer and BindingInfo hold of it and how they agree;
    without it an event could not be told from a repeated one;
  * `TogetherInv`: the claims of a pod are answered together, so a request finds none
    or all of them answered;
  * `NodeInv`, for each node: the cache has the volumes it has seen bound (`VolumesInv`),
    the records of its answers (`RecordsInv`), inline volumes of pods it has seen
    (`InlineInv`), disks held exactly for answered claims (`HeldInv`), and Requested
    equal to the sum of these (`LedgerInv`). The sum is not inductive alone: UpdateLVM
    charges the difference to what `localPVs` and the records say, so they
    have to be right. `StatusInv` is needed for the order of NLS, volume and restart:
    a cache without NLS has no groups and no charge;
  * `OwnInv`: a disk has one owner from the promise on, although the status may take it
    out of the report and back in between;
  * `RoomInv`: promises fit the reported capacity, and what LVM has used leaves room for
    what is still to be created. The promises of a group are at most what is charged
    (`PromisesCharged`), but a restart forgets the former and recharges volumes as
    their events come, so the volumes not yet seen again are counted too (`Promise`).

  For each step, `QuietClaimStep`, `QuietPodStep` and `QuietNodeStep` settle the nodes it
  does not concern, and `VolumeEvent`, `InlineChange` and `Request` state once, in closed
  form, what a handler does to the node it does. TLC has checked every part of
  `ExtenderInv` on the instance of `extender`. The hypothesis `Faults = {}` is the
  environment the code relies on without checking it; section 6 says what each fault
  does to the ledger.

Only model-checked: the liveness properties, which need fairness and ENABLED and are
out of the prover's reach. Not claimed at all: the extender's ledger
when a fault happens, and a pod with two LVM claims that name no group under the strategy
spread, which the helm chart sets (`helm/values.yaml:40`; the command line defaults to
binpack). `PlacesCounted` leaves it out: `ProcessLVMPVCPriority` does not account for
the first such claim when it places the second, so both may go to the group with the most
room, Assume fails at the second and leaves the first one charged but not answered.

## 5. Findings

Two disagreements between the code and what the repository says of it have a run
of their own:

1. `restic_race`: the cleaner lists the snapshot contents before it lists the
   bucket (`clean_s3_snapshot.go:40` and `131`). A first snapshot of a volume that is
   taken and backed up in between is not in the list, and its repository is deleted
   although its content exists and is ready, against
   `docs/user-guide/snapshot.md:178`.
2. `node_restore`: the mark ".local.restored" is written before the restore
   (`nodeutils.go:159`), and a publish that finds the target mounted skips it: a
   failed restore is not repeated and the pod starts on an empty volume.

The models show others, which need no run kept for them; each can be reproduced by
changing a configuration as said:

* A binding that fails after the claim was bound, but before the PV event reached
  the cache, rolls the charge back (`docs/design/scheduling-framework.md:144` says
  it does not), and the pod annotation of a failed cycle can be migrated to the PV
  of the next one (`plugin.go:365`): `migrate_clean` with `RetrySpec`, properties
  `BoundStaysCharged` and `ChargedWherePlaced`.
* The check "must skip if exist" (`allocate_migrate.go:90`) asks a Device PV for a VG
  name and never skips: `migrate_clean` with `Kind <- MCDevice`, property
  `AllocationKept`.
* A claim missing from the lister is dereferenced in the message that announces the
  retry (`allocate_migrate.go:50`): `SyncPanics` of `Spec`.
* A claim that was answered and loses its selected node gets the old answer for its
  new node (`scheduling.go:56`): the volume is created where nothing is reserved, and
  for a disk perhaps on one in use (the comment at line 36 promises an error): `extender`
  with `Faults = {"reselect"}`, property `AnswerIsReserved`.
* Two claims of one pod for disks of one media type pass the filter although the disks
  run out: `CheckExclusiveResourceMeetsPVCSize` (`algo/common.go:418`) answers true when
  it reaches the end of the disks before the end of the claims. With free disks of sizes 1
  and 2 and two claims of size 2 the pod is sent to a node that SchedulingPVC will
  never serve. `FilterIsSound` leaves such rivals out (`NoDiskRivals`); without that
  conjunct the theorem `FilterSound` is false.
* The NLS of a deleted node stays (`docs/design/controller.md:28`: "delete：deleteNLS")
  in four cases. After a relist the deletion comes as a tombstone, whose key
  `deleteNLSByNode` cannot form (`controller.go:439-442`): it logs the error and asks for
  nothing, where the extender's handlers unwrap tombstones (`eventhandlers.go:185` and
  `360`). The one request fails (`controller.go:443`). The node goes while the controller
  is down. A worker that found the NLS missing creates it afterwards
  (`controller.go:290`). `agent` without one of the conditions that put a node into
  `excused`, property `NLSGoesWithNode`.
* A snapshot in a group with room is never extended while lvs lists it after one that
  needs room in a full group: the loop returns at the extension that fails
  (`snapshot.go:72-75`), although `docs/design/pv-snapshot.md:124` says that a snapshot is
  extended if its group can be. `agent` with a property `SnapshotsAreExtended` that asks
  the second disjunct of `EndsLoop` of `Snaps[i]` only.
* An ephemeral volume is recorded after its LV is created and mounted; when that
  fails and the pod goes, the LV stays (`docs/user-guide/type-lvm_zh_CN.md:297` says
  it goes with the pod): `node_clean` with `Spec`, property `NoOrphan`.

## 6. Not modelled, hazards without a property, and the plan

Hazards of this code for which no property can hold, because the bad outcome is
certain once they happen. The clean environments leave them out:

* plugin ledgers: a charge or a device given back on the event's node instead of the
  record's (`lvm_common_volume.go:471`, `device_volume.go:404`); deletion of a PV that
  names no VG (`lvm_common_volume.go:262`) or of a claim that is still reserved
  (`cache.go:395`) forgets its charge; a VG that disappears and comes back has
  Requested 0 (`volume_group.go:112`); an update of a Pending pod drops its inline
  reservation (`cache.go:346`); two pods share a claim and the first is rolled back
  (`lvm_common_volume.go:396`); a PV event takes a device somebody else reserved
  (`device_volume.go:210`).
* controller: the panic above; node server: a crash while the store's only file is
  empty (`volume_store.go:85`).
* CSI controller service: a failed read of a VolumeSnapshot counts as "not read-only",
  and the flag is read twice (`controllerserver.go:180` and `282`; `Misreads`);
  DeleteSnapshot fails for ever once the PV of its source is gone (line 584).
* extender, by the name of the fault: `relist` (a volume first seen bound is charged
  twice, `node.go:298`), `recreate` (`PVCRecordsByExtend` is never cleared,
  `cluster.go:160`), `restart` and `early` (`web.go:157`), `abandon` (a claim deleted
  after its answer), `inline` (a pod seen before its NLS is charged at every NLS
  update, since Recorded is set on a copy, `node.go:168`), `late` (a claim deleted
  before the pod that used it, `eventhandlers.go:355`), `reselect` (the old answer for a
  new node, `scheduling.go:56`). A claim shared by two pods is mapped to the pod seen
  last only (`types.go`, `PvcPod`), so `BatchAssumption` gives pods that exist together
  claims of their own. A volume group that disappears from a status is deleted from the
  cache (`node.go:163-166`), and one that comes back is charged with the volumes seen
  bound only: what promises and inline volumes take of it is lost. `ChangeNLS` brings
  groups and changes their capacity, and takes none away. Two claims spread at once are
  the exclusion of `PlacesCounted`
  (section 4). A node without a cache makes the filter fail everywhere
  (`predicates.go:53`).
* agent: a reservation in percent is never subtracted, and one larger than the group
  wraps around and is ignored (`lvm.go:139`, against `docs/design/pv-snapshot.md:138`);
  a device that can not be read ends the whole discovery (`device.go:38`); after a
  reboot a device of the list is formatted again (`discovery.go:282`).

Not modelled yet, in the order of the plan:

1. Reservation pods (`ReserveReservation`, with `unreserveDirect` at
   `inline_volume.go:286`) and snapshot claims in VGLedger.
2. Scores of plugin and extender as operators checked against reference definitions
   (`strategy.go:177` divides by sums that may be zero).
3. NodeServer: the SPDK path, read-only snapshots, direct volumes of PVs, kata's
   registry (`nodeserver.go:241`).
4. A closed composition of VGLedger and AllocateMigrate with the lifecycle of
   PVs and claims, to replace the exclusions of `CleanSpec` by consequences of it.

Every invariant of a run is stated by a theorem. Left to prove: the exclusions of the clean
environments, which needs the composition of item 4. None of the
modules declares a RECURSIVE operator, so that all of them can be proved about.

Left out for good: command lines and the parsing of their output, JSON-RPC of SPDK,
cgroup files, operations and metrics, flag parsing and generated clients; they keep
no state of their own.
