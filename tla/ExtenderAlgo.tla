---------------------------- MODULE ExtenderAlgo ----------------------------
(***************************************************************************)
(* How the scheduler extender places the claims of a pod on a node         *)
(* (pkg/scheduler/algorithm/algo/common.go) and charges the result to its  *)
(* node cache (algorithm/cache/cluster.go).  The filter and the            *)
(* provisioning request place LVM claims with two different loops: the     *)
(* filter always packs into the fullest volume group that has room, the    *)
(* request follows the configured strategy.                                *)
(*                                                                         *)
(* A node cache is a record with the fields known (the entry exists), vgs  *)
(* (the keys of VGs), cap and req (Capacity and Requested), disks (the     *)
(* keys of Devices and MountPoints), held (the disks with IsAllocated),    *)
(* localPVs, records (PVCRecordsByExtend) and inline.  AllocatedNum, which *)
(* only a metric reads, and the scores are left out.                       *)
(***************************************************************************)
EXTENDS Totals, Sequences, Functions

CONSTANTS
    VGs, Disks, Claims,
    Kind,       \* claim -> "LVM", "Device" or "MountPoint"
    Size,       \* claim -> requested size
    VGParam,    \* LVM claim -> the vgName of its storage class, or None
    Media,      \* disk claim -> media type of its storage class
    DiskKind, DiskSize, DiskMedia,
    Spread,     \* SchedulerStrategy is spread, else binpack
    None

ASSUME SizeAssumption == /\ Size \in [Claims -> Sizes]
                         /\ DiskSize \in [Disks -> Nat \ {0}]
                         /\ VGParam \in [Claims -> VGs \cup {None}]

ASSUME KindAssumption == /\ Kind \in [Claims -> {"LVM", "Device", "MountPoint"}]
                         /\ Media \in [Claims -> {"ssd", "hdd"}]

ASSUME StorageAssumption == /\ IsFiniteSet(Claims) /\ IsFiniteSet(Disks) /\ IsFiniteSet(VGs)
                            /\ VGs \cap Disks = {} /\ None \notin VGs \cup Disks

Unit(c, n, where) == [claim |-> c, node |-> n, where |-> where]

OfKind(S, kind) == {c \in S : Kind[c] = kind}

\* The orders sort.Slice may leave S in: ascending by key, ties in any order.
Orders(S, key) ==
    {s \in [1..Cardinality(S) -> S] :
        \A i, j \in 1..Cardinality(S) :
            /\ s[i] = s[j] => i = j
            /\ i < j => key[s[i]] <= key[s[j]]}

----------------------------------------------------------------------------
(* Shared volume groups *)

Position(ps, c) == CHOOSE i \in DOMAIN ps : ps[i] = c

\* The turn of each claim of S when the pod lists its claims as ps.  The LVM
\* claims whose storage class names a volume group come first, then the other
\* ones, both in the order of ps; then the mount points and the devices.
DivideLVMPVCs(ps, S) ==
    [c \in S |->
        CASE Kind[c] = "LVM" /\ VGParam[c] # None -> Position(ps, c)
          [] Kind[c] = "LVM" /\ VGParam[c] = None -> Len(ps) + Position(ps, c)
          [] Kind[c] = "MountPoint"               -> 2 * Len(ps) + 1
          [] Kind[c] = "Device"                   -> 2 * Len(ps) + 2]

\* What is free in v when it is the turn of c: the counted LVM claims of S that
\* came earlier and that a put there are subtracted.
FreeAt(nc, ps, S, a, c, v, counted) ==
    nc.cap[v] - nc.req[v]
      - Total([d \in Claims |->
                 IF /\ d \in counted \cap OfKind(S, "LVM") /\ a[d] = v
                    /\ DivideLVMPVCs(ps, S)[d] < DivideLVMPVCs(ps, S)[c]
                 THEN Size[d] ELSE 0])

\* Every LVM claim in turn goes to the fullest volume group with room for it.
Binpack(nc, ps, S, a) ==
    \A c \in OfKind(S, "LVM") :
        LET free(v) == FreeAt(nc, ps, S, a, c, v, Claims)
        IN  /\ a[c] \in nc.vgs /\ free(a[c]) >= Size[c]
            /\ IF VGParam[c] # None THEN a[c] = VGParam[c]
               ELSE \A v \in nc.vgs : free(v) >= Size[c] => free(a[c]) <= free(v)

\* Every claim goes to the emptiest volume group.  The map the loop passes to
\* Spread is never updated, so only claims that name their group count.
SpreadOut(nc, ps, S, a) ==
    \A c \in OfKind(S, "LVM") :
        LET free(v) == FreeAt(nc, ps, S, a, c, v, {d \in Claims : VGParam[d] # None})
        IN  /\ a[c] \in nc.vgs /\ free(a[c]) >= Size[c]
            /\ IF VGParam[c] # None THEN a[c] = VGParam[c]
               ELSE \A v \in nc.vgs : free(v) <= free(a[c])

ProcessLVMPVCPredicate(nc, ps, S) == \E a \in [OfKind(S, "LVM") -> VGs] : Binpack(nc, ps, S, a)

ProcessLVMPVCPriority(nc, ps, S, a) == IF Spread THEN SpreadOut(nc, ps, S, a) ELSE Binpack(nc, ps, S, a)

----------------------------------------------------------------------------
(* Exclusive devices and mount points *)

GetFreeMP(nc)     == {d \in nc.disks \ nc.held : DiskKind[d] = "MountPoint"}
GetFreeDevice(nc) == {d \in nc.disks \ nc.held : DiskKind[d] = "Device"}

\* Every disk of ds in turn takes the next of the k claims cs if it is large
\* enough for it: how many claims the first i of the m disks serve.
Served(cs, k, ds, m) ==
    LET served[i \in 0..m] ==
            IF i = 0 THEN 0
            ELSE LET s == served[i - 1]
                 IN  IF s < k /\ Size[cs[s + 1]] <= DiskSize[ds[i]] THEN s + 1 ELSE s
    IN  served

\* The filter's answer for the claims C on the disks F.  It is an error when the
\* last disk is too small for the claim it meets, not when the disks run out.
CheckExclusiveResourceMeetsPVCSize(C, F) ==
    \E cs \in Orders(C, Size), ds \in Orders(F, DiskSize) :
        LET m == Cardinality(F)
            s == Served(cs, Cardinality(C), ds, m)
        IN  ~(m > 0 /\ s[m - 1] < Cardinality(C) /\ s[m] = s[m - 1])

\* a is what a request gets that serves every claim of C: claim number j goes to
\* the disk that serves it.
ExclusiveUnits(C, F, a) ==
    \E cs \in Orders(C, Size), ds \in Orders(F, DiskSize) :
        LET m == Cardinality(F)
            s == Served(cs, Cardinality(C), ds, m)
        IN  \A j \in 1..Cardinality(C) :
               \E i \in 1..m : s[i] = j /\ s[i - 1] = j - 1 /\ a[cs[j]] = ds[i]

DividePVCAccordingToMediaType(C, media) == {c \in C : Media[c] = media}
DisksOf(F, media) == {d \in F : DiskMedia[d] = media}

\* First the SSDs, then the HDDs: the claims C of one kind on the free disks F of
\* that kind.
ProcessDisks(C, F) ==
    \A media \in {"ssd", "hdd"} :
        LET wanted == DividePVCAccordingToMediaType(C, media)
            disks  == DisksOf(F, media)
        IN  /\ Cardinality(wanted) <= Cardinality(disks)
            /\ CheckExclusiveResourceMeetsPVCSize(wanted, disks)

AllDisksFound(C, F, a) ==
    \A media \in {"ssd", "hdd"} :
        ExclusiveUnits(DividePVCAccordingToMediaType(C, media), DisksOf(F, media), a)

ProcessMPPVC(nc, S)     == ProcessDisks(OfKind(S, "MountPoint"), GetFreeMP(nc))
ProcessDevicePVC(nc, S) == ProcessDisks(OfKind(S, "Device"), GetFreeDevice(nc))

----------------------------------------------------------------------------
(* CapacityPredicate, SchedulingPVC's units and Assume *)

\* Mutant: the volume group is checked, nothing is reserved.
AssumeOnlyChecks(u, acc) ==
    [acc EXCEPT !.err = \/ u.where \notin acc.nc.vgs
                        \/ acc.nc.req[u.where] + Size[u.claim] > acc.nc.cap[u.where]]

AssumeLVMUnit(u, acc) ==
    IF \/ u.where \notin acc.nc.vgs
       \/ acc.nc.req[u.where] + Size[u.claim] > acc.nc.cap[u.where]
    THEN [acc EXCEPT !.err = TRUE]
    ELSE IF acc.nc.records[u.claim] # None THEN [acc EXCEPT !.err = FALSE]
    ELSE [nc  |-> [acc.nc EXCEPT !.req[u.where] = @ + Size[u.claim],
                                 !.records[u.claim] = u],
          err |-> FALSE]

TakeDisk(u, acc) ==
    IF u.where \in acc.nc.held THEN [acc EXCEPT !.err = TRUE]
    ELSE [nc  |-> [acc.nc EXCEPT !.disks = @ \cup {u.where}, !.held = @ \cup {u.where},
                                 !.records[u.claim] = u],
          err |-> FALSE]

AssumeMountPointUnit(u, acc) == TakeDisk(u, acc)

\* Mutant: the device stays free until its volume is seen.
AssumeDeviceLate(u, acc) ==
    [nc |-> [acc.nc EXCEPT !.records[u.claim] = u], err |-> FALSE]

AssumeDeviceUnit(u, acc) == TakeDisk(u, acc)

AssumeUnit(u, acc) ==
    CASE Kind[u.claim] = "LVM"        -> AssumeLVMUnit(u, acc)
      [] Kind[u.claim] = "MountPoint" -> AssumeMountPointUnit(u, acc)
      [] Kind[u.claim] = "Device"     -> AssumeDeviceUnit(u, acc)

\* The node cache and the error after each unit.  Assume goes on after a unit
\* that fails; its error is that of the last unit.
Assuming(nc, units) ==
    LET after[i \in 0..Len(units)] ==
            IF i = 0 THEN [nc |-> nc, err |-> FALSE] ELSE AssumeUnit(units[i], after[i - 1])
    IN  after

Assume(nc, units) == Assuming(nc, units)[Len(units)]

\* The filter's answer for the unbound claims S on a node.
AllocateLVMVolume(nc, ps, S) == ProcessLVMPVCPredicate(nc, ps, S)

\* Mutant: the mount points are counted together with the devices.
AllocateMountPointUnsized(nc, S) ==
    Cardinality(nc.disks) >= Cardinality(OfKind(S, "MountPoint"))

AllocateMountPointVolume(nc, S) == ProcessMPPVC(nc, S)
AllocateDeviceVolume(nc, S)     == ProcessDevicePVC(nc, S)

CapacityPredicate(nc, ps, S) ==
    /\ AllocateLVMVolume(nc, ps, S)
    /\ AllocateMountPointVolume(nc, S)
    /\ AllocateDeviceVolume(nc, S)

\* The units a request computes: ScoreLVMVolume, ScoreMountPointVolume and
\* ScoreDeviceVolume without their scores.
ScoreLVMVolume(nc, ps, S, a)    == ProcessLVMPVCPriority(nc, ps, S, a)
ScoreMountPointVolume(nc, S, a) == AllDisksFound(OfKind(S, "MountPoint"), GetFreeMP(nc), a)
ScoreDeviceVolume(nc, S, a)     == AllDisksFound(OfKind(S, "Device"), GetFreeDevice(nc), a)

\* The places of the claims S, one for each of them: with fewer units than
\* claims, and after an error, the request is not served.
Placements(nc, ps, S) ==
    {a \in [S -> VGs \cup Disks] :
        /\ \A c \in S : a[c] \in VGs <=> Kind[c] = "LVM"
        /\ ScoreLVMVolume(nc, ps, S, a)
        /\ ScoreMountPointVolume(nc, S, a)
        /\ ScoreDeviceVolume(nc, S, a)}

\* The request's units, in the order Assume goes over them.
AllocatedUnits(nc, n, ps, S) ==
    {[i \in 1..Cardinality(S) |-> Unit(s[i], n, a[s[i]])] :
        a \in Placements(nc, ps, S), s \in Orders(S, DivideLVMPVCs(ps, S))}
=============================================================================
