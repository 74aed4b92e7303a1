----------------------------- MODULE Discovery ------------------------------
(***************************************************************************)
(* What the agent of a node reads from the host and reports               *)
(* (pkg/agent/discovery, pkg/utils/lvm, pkg/utils/device), and the spec    *)
(* that the controller derives for a node (updateNLSSpec).  A host is a    *)
(* record of its block devices, its LVM state and its mounts.  A regular   *)
(* expression is the set of the names that it matches.                     *)
(***************************************************************************)
EXTENDS Integers, Sequences, SequencesExt

CONSTANTS
    VGs,
    DevSize,    \* the size of each block device
    Snaps,      \* the snapshot LVs, in the order in which lvs lists them
    HomeOf,     \* the volume group of a snapshot LV
    Width       \* the width of an unsigned integer

Devs == DOMAIN DevSize

ASSUME SizeAssumption == \A d \in Devs : DevSize[d] \in 1 .. (2 ^ Width - 1)
ASSUME SnapAssumption == Snaps \in Seq(DOMAIN HomeOf) /\ HomeOf \in [DOMAIN HomeOf -> VGs]

U(i) == i % 2 ^ Width

(***************************************************************************)
(* LVM, through the commands that pkg/utils/lvm runs.                      *)
(***************************************************************************)

Host == [dev   : [Devs -> {"ok", "bad", "gone"}],   \* what /sys/block says
         pvs   : SUBSET Devs,                       \* devices with an LVM label
         vg    : [VGs -> SUBSET Devs],              \* the devices of a group
         local   : [VGs -> Nat],                    \* bytes in LVs of open-local
         foreign : [VGs -> Nat],                    \* bytes in other LVs, snapshots too
         snaps : SUBSET Range(Snaps),
         over  : SUBSET Range(Snaps),               \* snapshots above the threshold
         mounted : SUBSET Devs]

LookupVolumeGroup(h, v) == h.vg[v] # {}
ListVolumeGroupNames(h) == {v \in VGs : LookupVolumeGroup(h, v)}
LookupLogicalVolume(h, s) == s \in h.snaps

\* isLocalLV goes by the prefix of a name, which the LVs of snapshots do not have.
NotLocal(h, v) == h.foreign[v]

\* lv.Usage() > threshold, with the threshold of the snapshot class.
OverThreshold(h, s) == s \in h.over

BytesTotal(h, v) == MapThenSumSet(LAMBDA d : DevSize[d], h.vg[v])
BytesFree(h, v) == BytesTotal(h, v) - h.local[v] - h.foreign[v]

\* pvcreate and mkfs refuse a device that is missing, broken or in use; a label
\* that a stopped attempt left behind is no obstacle.
IsFree(h, d) ==
    /\ h.dev[d] = "ok"
    /\ d \notin h.mounted
    /\ \A v \in VGs : d \notin h.vg[v]

\* The devices that CreatePhysicalVolume labels before it meets one that it cannot.
CreatePhysicalVolumes(h, devices) ==
    {devices[i] : i \in {i \in 1 .. Len(devices) : \A k \in 1 .. i : IsFree(h, devices[k])}}

CreateVolumeGroup(h, v, pvs) == [h EXCEPT !.vg[v] = pvs]

CreateVG(h, g) ==
    LET pvs == CreatePhysicalVolumes(h, g.devices)
        labelled == [h EXCEPT !.pvs = @ \cup pvs]
    IN  IF pvs = Range(g.devices) THEN CreateVolumeGroup(labelled, g.name, pvs) ELSE labelled

(***************************************************************************)
(* The report.                                                             *)
(***************************************************************************)

ReservedSize(total, info) ==
    IF info.size # 0 THEN info.size ELSE (total * info.percent) \div 100

\* The clamp subtracts info.size, which is 0 when the reservation is a percentage,
\* and the subtractions wrap around.
Allocatable(h, v, reserved) ==
    LET total == BytesTotal(h, v)
        rest == U(total - NotLocal(h, v))
    IN  IF v \in DOMAIN reserved
           /\ rest > U(total - ReservedSize(total, reserved[v]))
        THEN U(total - reserved[v].size)
        ELSE rest

\* A group whose lookup fails is left out of the report.
DiscoverVGs(h, reserved, failed) ==
    [v \in ListVolumeGroupNames(h) \ failed |->
        [total |-> BytesTotal(h, v),
         available |-> BytesFree(h, v),
         allocatable |-> Allocatable(h, v, reserved)]]

\* One device that cannot be read fails the whole report.
Readable(h) == \A d \in Devs : h.dev[d] # "bad"
DiscoverDevices(h) == {d \in Devs : h.dev[d] = "ok"}
DiscoverMountPoints(h) == h.mounted

FilterInfo(info, include, exclude) == (info \cap include) \ exclude

Report(h, nls, failed) ==
    LET vgs == DiscoverVGs(h, nls.reserved, failed)
        names == DOMAIN vgs \cup DiscoverDevices(h)
    IN  [vgs |-> vgs,
         devices |-> DiscoverDevices(h),
         mountpoints |-> DiscoverMountPoints(h),
         filtered |-> FilterInfo(names, nls.spec.include, nls.spec.exclude)]

(***************************************************************************)
(* Mount points and snapshots.                                             *)
(***************************************************************************)

MountPoints(h, devices) ==
    LET free == {d \in devices : IsFree(h, d)}
    IN  [h EXCEPT !.mounted = @ \cup free, !.pvs = @ \ free]

\* The loop of expandSnapshotLvmLVIfNeeded.  It returns at the first snapshot whose
\* content is missing or which cannot be extended, also when others follow.
CanExpand(h, s) == BytesFree(h, HomeOf[s]) > 0
Expand(h, s) == [h EXCEPT !.over = @ \ {s}, !.foreign[HomeOf[s]] = @ + 1]
\* Mutant of ExpandStep: a snapshot that needs no room ends the loop.
ExpandStepReturns(contents, round, s) ==
    IF round.stopped \/ s \notin contents \/ ~OverThreshold(round.host, s) \/ ~CanExpand(round.host, s)
    THEN [round EXCEPT !.stopped = TRUE]
    ELSE [round EXCEPT !.host = Expand(@, s)]

ExpandStep(contents, round, s) ==
    IF round.stopped \/ s \notin contents \/ (OverThreshold(round.host, s) /\ ~CanExpand(round.host, s))
    THEN [round EXCEPT !.stopped = TRUE]
    ELSE [round EXCEPT !.host = IF OverThreshold(@, s) THEN Expand(@, s) ELSE @]

GetAllLocalSnapshotLV(h) == SelectSeq(Snaps, LAMBDA s : LookupLogicalVolume(h, s))

ExpandSnapshotLVs(h, contents) ==
    FoldLeft(LAMBDA round, s : ExpandStep(contents, round, s),
             [host |-> h, stopped |-> FALSE], GetAllLocalSnapshotLV(h)).host

(***************************************************************************)
(* The controller: the last nodesConfig that matches the labels of the     *)
(* node overrides the global configuration.                                *)
(***************************************************************************)

SpecOf(config, label) ==
    LET matching == {i \in 1 .. Len(config.nodes) : config.nodes[i].label = label}
    IN  IF matching = {} THEN config.global ELSE config.nodes[Max(matching)].spec
=============================================================================
