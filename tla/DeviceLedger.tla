---------------------------- MODULE DeviceLedger ----------------------------
(***************************************************************************)
(* The exclusive devices of the scheduler plugin's cache                   *)
(* (pkg/scheduling-framework/cache/device_volume.go and device.go).  A     *)
(* Device claim takes a whole disk: the cache keeps IsAllocated per node   *)
(* and device and, as for volume groups, a record per reserved claim and a *)
(* record per volume.  The cycle of a pod and the locking are those of     *)
(* module VGLedger.                                                        *)
(*                                                                         *)
(* Requested of a device and the sizes inside the records follow from the  *)
(* device and decide nothing; they are left out.                           *)
(***************************************************************************)
EXTENDS Naturals, FiniteSets

CONSTANTS
    Nodes, Devices, PVCs, PVs, Pods,
    Capacities,   \* the Total an NLS may report for a device
    DeviceMedia,  \* device -> its media type
    PodPVCs,      \* the Device claims a pod mounts
    PVCRequest, PVCMedia,
    NoDevice, NoPVC, NoPod, NoRecord

ASSUME CapacityAssumption == Capacities \subseteq Nat \ {0}

ASSUME ClaimAssumption == /\ PVCRequest \in [PVCs -> Nat \ {0}]
                          /\ PodPVCs \in [Pods -> SUBSET PVCs]

ASSUME NullAssumption ==
    NoDevice \notin Devices /\ NoPVC \notin PVCs /\ NoPod \notin Pods

ASSUME NodeAssumption == Nodes # {}

ASSUME FiniteAssumption == IsFiniteSet(Devices) /\ IsFiniteSet(PVCs)

ClaimRecord  == [node : Nodes, dev : Devices]
VolumeRecord == [node : Nodes, dev : Devices, claim : PVCs \cup {NoPVC}]

ASSUME RecordAssumption == NoRecord \notin ClaimRecord /\ NoRecord \notin VolumeRecord

\* Events of the PV informer, reduced to what the handlers read.
PVEvents == [pv : PVs, node : Nodes, dev : Devices \cup {NoDevice},
             bound : BOOLEAN, claim : PVCs \cup {NoPVC}]

VARIABLES
    inited,        \* nodes whose NLS was seen
    known,         \* the keys of states[n].DeviceStates
    size,          \* Allocatable; 0 when no NLS has reported the device
    held,          \* the devices with IsAllocated
    pvcAllocated,  \* claim -> record written by Reserve
    pvAllocated,   \* volume -> record written by PV events
    bound,         \* pvcInfosMap: the claims seen bound
    pc, need, at, unitOf, unitAllocated,  \* the scheduling cycle of each pod
    lock, todo     \* the holder of the write lock and the units it has left

states  == <<inited, known, size, held>>
records == <<pvcAllocated, pvAllocated, bound>>
cycle   == <<pc, need, at, unitOf, unitAllocated>>
vars    == <<states, records, cycle, lock, todo>>

NoUnits == [c \in PVCs |-> NoDevice]
AnyNode == CHOOSE n \in Nodes : TRUE

Phases == {"idle", "prefiltered", "preallocated", "reserving", "reserved",
           "failed", "unreserving", "bound"}

\* The one type invariant.
TypeOK ==
    /\ inited \subseteq Nodes
    /\ known \in [Nodes -> SUBSET Devices]
    /\ size \in [Nodes -> [Devices -> Nat]]
    /\ held \in [Nodes -> SUBSET Devices]
    /\ pvcAllocated \in [PVCs -> ClaimRecord \cup {NoRecord}]
    /\ pvAllocated \in [PVs -> VolumeRecord \cup {NoRecord}]
    /\ bound \subseteq PVCs
    /\ pc \in [Pods -> Phases]
    /\ need \in [Pods -> SUBSET PVCs]
    /\ at \in [Pods -> Nodes]
    /\ unitOf \in [Pods -> [PVCs -> Devices \cup {NoDevice}]]
    /\ unitAllocated \in [Pods -> SUBSET PVCs]
    /\ lock \in Pods \cup {NoPod}
    /\ todo \subseteq PVCs

Init ==
    /\ inited = {}
    /\ known = [n \in Nodes |-> {}]
    /\ size = [n \in Nodes |-> [d \in Devices |-> 0]]
    /\ held = [n \in Nodes |-> {}]
    /\ pvcAllocated = [c \in PVCs |-> NoRecord]
    /\ pvAllocated = [x \in PVs |-> NoRecord]
    /\ bound = {}
    /\ pc = [p \in Pods |-> "idle"]
    /\ need = [p \in Pods |-> {}]
    /\ at = [p \in Pods |-> AnyNode]
    /\ unitOf = [p \in Pods |-> NoUnits]
    /\ unitAllocated = [p \in Pods |-> {}]
    /\ lock = NoPod
    /\ todo = {}

----------------------------------------------------------------------------
(* processDeviceByMediaType *)

\* Mutant: the slices are used in map order.
OrdersUnsorted(S, key) ==
    {s \in [1..Cardinality(S) -> S] : \A i, j \in 1..Cardinality(S) : s[i] = s[j] => i = j}

\* The orders sort.Slice may leave S in: ascending by key, ties in any order.
Orders(S, key) ==
    {s \in [1..Cardinality(S) -> S] :
        \A i, j \in 1..Cardinality(S) :
            /\ s[i] = s[j] => i = j
            /\ i < j => key[s[i]] <= key[s[j]]}

\* Going over the disks in order, each takes the next claim that fits it: how
\* many of the k claims cs are served by the first i disks of ds.
Served(n, cs, k, ds, m) ==
    LET served[i \in 0..m] ==
            IF i = 0 THEN 0
            ELSE LET s == served[i - 1]
                 IN  IF s < k /\ PVCRequest[cs[s + 1]] <= size[n][ds[i]] THEN s + 1 ELSE s
    IN  served

FreeDevices(n, media) ==
    {d \in known[n] \ held[n] : size[n][d] > 0 /\ DeviceMedia[d] = media}

ClaimsOf(N, media) == {c \in N : PVCMedia[c] = media}

\* The units for the claims in N on node n, one media type at a time: claim
\* number i gets the first disk by which i claims are served.
IsPlan(n, N, units) ==
    /\ \A c \in PVCs : c \notin N <=> units[c] = NoDevice
    /\ \A media \in {PVCMedia[c] : c \in N} :
         LET C == ClaimsOf(N, media)
             F == FreeDevices(n, media)
             k == Cardinality(C)
             m == Cardinality(F)
         IN  \E cs \in Orders(C, PVCRequest), ds \in Orders(F, size[n]) :
                LET served == Served(n, cs, k, ds, m)
                IN  /\ served[m] = k
                    /\ \A i \in 1..k : \E j \in 1..m :
                          /\ units[cs[i]] = ds[j]
                          /\ served[j] = i /\ served[j - 1] = i - 1

----------------------------------------------------------------------------
(* The scheduling cycle *)

Scheduling(p) == pc[p] \in {"prefiltered", "preallocated", "reserving", "failed"}

\* prefilter skips claims the lister shows bound and claims with a record.
PreFilter(p, seen) ==
    /\ lock = NoPod
    /\ pc[p] = "idle"
    /\ \A q \in Pods : ~Scheduling(q)
    /\ pc' = [pc EXCEPT ![p] = "prefiltered"]
    /\ need' = [need EXCEPT ![p] =
                  {c \in PodPVCs[p] \ seen : pvcAllocated[c] = NoRecord}]
    /\ UNCHANGED <<states, records, at, unitOf, unitAllocated, lock, todo>>

\* PreAllocate on the chosen node, on a copy of its state.
PreAllocate(p, n) ==
    /\ lock = NoPod
    /\ pc[p] = "prefiltered"
    /\ need[p] # {}
    /\ n \in inited
    /\ \E units \in [PVCs -> Devices \cup {NoDevice}] :
          /\ IsPlan(n, need[p], units)
          /\ unitOf' = [unitOf EXCEPT ![p] = units]
    /\ pc' = [pc EXCEPT ![p] = "preallocated"]
    /\ at' = [at EXCEPT ![p] = n]
    /\ need' = [need EXCEPT ![p] = {}]
    /\ UNCHANGED <<states, records, unitAllocated, lock, todo>>

SkipReserve(p, n) ==
    /\ pc[p] = "prefiltered" /\ need[p] = {}
    /\ pc' = [pc EXCEPT ![p] = "reserved"]
    /\ at' = [at EXCEPT ![p] = n]
    /\ UNCHANGED <<states, records, need, unitOf, unitAllocated, lock, todo>>

Unschedulable(p) ==
    /\ pc[p] = "prefiltered"
    /\ pc' = [pc EXCEPT ![p] = "idle"]
    /\ need' = [need EXCEPT ![p] = {}]
    /\ UNCHANGED <<states, records, at, unitOf, unitAllocated, lock, todo>>

ReserveBegin(p) ==
    /\ lock = NoPod
    /\ pc[p] = "preallocated"
    /\ pc' = [pc EXCEPT ![p] = "reserving"]
    /\ lock' = p
    /\ todo' = {c \in PVCs : unitOf[p][c] # NoDevice}
    /\ UNCHANGED <<states, records, need, at, unitOf, unitAllocated>>

Reserving(p) == lock = p /\ pc[p] = "reserving"

\* Reserve ends; the units with Allocated > 0 stay in the cycle state.
ReserveEnds(p, verdict) ==
    /\ pc' = [pc EXCEPT ![p] = verdict]
    /\ unitOf' = [unitOf EXCEPT ![p] = NoUnits]
    /\ lock' = NoPod /\ todo' = {}
    /\ UNCHANGED <<states, records, need, at, unitAllocated>>

AlreadyPlaced(c) == pvcAllocated[c] # NoRecord \/ c \in bound

ReserveSkip(p, c) ==
    /\ Reserving(p) /\ c \in todo
    /\ AlreadyPlaced(c)
    /\ todo' = todo \ {c}
    /\ UNCHANGED <<states, records, cycle, lock>>

\* Mutant: IsAllocated is not looked at again.
TakesAsPlanned(n, c, d) == d \in known[n] /\ PVCRequest[c] <= size[n][d]

\* The plan is checked again on the live state.
Takes(n, c, d) == d \in known[n] /\ d \notin held[n] /\ PVCRequest[c] <= size[n][d]

ReserveUnit(p, c) ==
    LET n == at[p]
        d == unitOf[p][c]
    IN  /\ Reserving(p) /\ c \in todo
        /\ ~AlreadyPlaced(c)
        /\ Takes(n, c, d)
        /\ held' = [held EXCEPT ![n] = @ \cup {d}]
        /\ pvcAllocated' = [pvcAllocated EXCEPT ![c] = [node |-> n, dev |-> d]]
        /\ unitAllocated' = [unitAllocated EXCEPT ![p] = @ \cup {c}]
        /\ todo' = todo \ {c}
        /\ UNCHANGED <<inited, known, size, pvAllocated, bound, pc, need, at, unitOf, lock>>

\* A unit fails, or an LVM or inline unit has failed before the devices' turn.
ReserveFail(p) ==
    /\ Reserving(p)
    /\ \/ \E c \in todo : ~AlreadyPlaced(c) /\ ~Takes(at[p], c, unitOf[p][c])
       \/ todo = {c \in PVCs : unitOf[p][c] # NoDevice}
    /\ ReserveEnds(p, "failed")

ReserveDone(p) ==
    /\ Reserving(p) /\ todo = {}
    /\ ReserveEnds(p, "reserved")

\* Unreserve: after a Reserve that failed half way, or after a failed binding.
UnreserveBegin(p) ==
    /\ lock = NoPod
    /\ pc[p] \in {"reserved", "failed"}
    /\ pc' = [pc EXCEPT ![p] = "unreserving"]
    /\ lock' = p
    /\ todo' = unitAllocated[p]
    /\ UNCHANGED <<states, records, need, at, unitOf, unitAllocated>>

\* revertDeviceByPVCIfNeed: the device of the claim's record is freed on node n,
\* whatever node the record names.
RevertedDevice(n, c) ==
    IF c # NoPVC /\ pvcAllocated[c] # NoRecord THEN {pvcAllocated[c].dev} ELSE {}

DropClaimRecord(c) ==
    IF c = NoPVC THEN pvcAllocated ELSE [pvcAllocated EXCEPT ![c] = NoRecord]

UnreserveUnit(p, c) ==
    /\ lock = p /\ pc[p] = "unreserving" /\ c \in todo
    /\ held' = [held EXCEPT ![at[p]] = @ \ RevertedDevice(at[p], c)]
    /\ pvcAllocated' = DropClaimRecord(c)
    /\ unitAllocated' = [unitAllocated EXCEPT ![p] = @ \ {c}]
    /\ todo' = todo \ {c}
    /\ UNCHANGED <<inited, known, size, pvAllocated, bound, pc, need, at, unitOf, lock>>

\* Mutant: the loop leaves after its first unit.
UnreserveEndEarly(p) ==
    /\ lock = p /\ pc[p] = "unreserving"
    /\ pc' = [pc EXCEPT ![p] = "idle"]
    /\ at' = [at EXCEPT ![p] = AnyNode]
    /\ unitAllocated' = [unitAllocated EXCEPT ![p] = {}]
    /\ lock' = NoPod /\ todo' = {}
    /\ UNCHANGED <<states, records, need, unitOf>>

UnreserveEnd(p) ==
    /\ lock = p /\ pc[p] = "unreserving" /\ todo = {}
    /\ pc' = [pc EXCEPT ![p] = "idle"]
    /\ at' = [at EXCEPT ![p] = AnyNode]
    /\ lock' = NoPod
    /\ UNCHANGED <<states, records, need, unitOf, unitAllocated, todo>>

Bind(p) ==
    /\ pc[p] = "reserved"
    /\ pc' = [pc EXCEPT ![p] = "bound"]
    /\ UNCHANGED <<states, records, need, at, unitOf, unitAllocated, lock, todo>>

----------------------------------------------------------------------------
(* Informer callbacks *)

\* CreateStatesByNodeLocal and StatesForUpdate: devices that stay keep
\* IsAllocated, dropped ones are forgotten.
OnNodeLocalStorage(n, W, total) ==
    /\ lock = NoPod
    /\ inited' = inited \cup {n}
    /\ known' = [known EXCEPT ![n] = W]
    /\ size' = [size EXCEPT ![n] = [d \in Devices |-> IF d \in W THEN total[d] ELSE 0]]
    /\ held' = [held EXCEPT ![n] = @ \cap W]
    /\ UNCHANGED <<records, cycle, lock, todo>>

\* The device of a PV: its annotation, else, for a bound PV, the device
\* Reserve recorded for its claim.
DeviceOfPV(e) ==
    IF e.dev # NoDevice THEN e.dev
    ELSE IF e.bound /\ e.claim # NoPVC /\ pvcAllocated[e.claim] # NoRecord
         THEN pvcAllocated[e.claim].dev ELSE NoDevice

\* Mutant: the reserved device is not freed when the PV uses another one.
AllocatedByPVKeeps(e) == held[e.node] \cup {DeviceOfPV(e)}

\* The claim's device is freed, then the volume's is taken.
AllocatedByPV(e) == (held[e.node] \ RevertedDevice(e.node, e.claim)) \cup {DeviceOfPV(e)}

\* pvUpdate of a PV that is not Pending.  A device no NLS has reported is
\* created with Allocatable 0.
OnPVUpdate(e) ==
    /\ lock = NoPod
    /\ DeviceOfPV(e) # NoDevice
    /\ known' = [known EXCEPT ![e.node] = @ \cup {DeviceOfPV(e)}]
    /\ held' = [held EXCEPT ![e.node] = AllocatedByPV(e)]
    /\ pvcAllocated' = DropClaimRecord(e.claim)
    /\ pvAllocated' = [pvAllocated EXCEPT ![e.pv] =
                         [node |-> e.node, dev |-> DeviceOfPV(e), claim |-> e.claim]]
    /\ UNCHANGED <<inited, size, bound, cycle, lock, todo>>

\* pvDelete frees the device the PV names; DeleteByPV also drops the record of
\* the claim, without freeing its device.
OnPVDelete(e) ==
    /\ lock = NoPod
    /\ e.dev # NoDevice
    /\ pvAllocated[e.pv] # NoRecord
    /\ held' = [held EXCEPT ![e.node] = @ \ {e.dev}]
    /\ pvcAllocated' = DropClaimRecord(pvAllocated[e.pv].claim)
    /\ pvAllocated' = [pvAllocated EXCEPT ![e.pv] = NoRecord]
    /\ UNCHANGED <<inited, known, size, bound, cycle, lock, todo>>

\* AddOrUpdatePVC of a bound claim; a later size of the claim changes nothing.
OnPVCUpdate(c) ==
    /\ lock = NoPod
    /\ bound' = bound \cup {c}
    /\ UNCHANGED <<states, pvcAllocated, pvAllocated, cycle, lock, todo>>

\* DeletePVC forgets the claim's record without freeing its device.
OnPVCDelete(c) ==
    /\ lock = NoPod
    /\ bound' = bound \ {c}
    /\ pvcAllocated' = DropClaimRecord(c)
    /\ UNCHANGED <<states, pvAllocated, cycle, lock, todo>>

----------------------------------------------------------------------------
(* Specifications *)

Cycle ==
    \E p \in Pods :
        \/ \E seen \in SUBSET PodPVCs[p] : PreFilter(p, seen)
        \/ \E n \in Nodes : PreAllocate(p, n) \/ SkipReserve(p, n)
        \/ Unschedulable(p)
        \/ ReserveBegin(p) \/ ReserveFail(p) \/ ReserveDone(p)
        \/ \E c \in PVCs : ReserveSkip(p, c) \/ ReserveUnit(p, c) \/ UnreserveUnit(p, c)
        \/ UnreserveEnd(p)
        \/ Bind(p)

Events ==
    \/ \E n \in Nodes, W \in SUBSET Devices, total \in [Devices -> Capacities] :
          OnNodeLocalStorage(n, W, total)
    \/ \E e \in PVEvents : OnPVUpdate(e) \/ OnPVDelete(e)
    \/ \E c \in PVCs : OnPVCUpdate(c) \/ OnPVCDelete(c)

Next == Cycle \/ Events \/ \E p \in Pods : UnreserveBegin(p)

Spec == Init /\ [][Next]_vars

(***************************************************************************)
(* Devices are lost or shared in the steps that CleanNext leaves out: a    *)
(* revert on another node than the record's, a PV that names a device      *)
(* somebody else holds or that changes device, a claim or PV deletion that *)
(* drops a live claim record, and an NLS that drops a held device.         *)
(***************************************************************************)
RecordOn(n, c) == c # NoPVC /\ pvcAllocated[c] # NoRecord => pvcAllocated[c].node = n

ClaimOn(c, n, d) ==
    pvcAllocated[c] # NoRecord /\ pvcAllocated[c].node = n /\ pvcAllocated[c].dev = d

VolumeOn(x, n, d) ==
    pvAllocated[x] # NoRecord /\ pvAllocated[x].node = n /\ pvAllocated[x].dev = d

CleanPVUpdate(e) ==
    /\ RecordOn(e.node, e.claim)
    /\ pvAllocated[e.pv] # NoRecord => VolumeOn(e.pv, e.node, DeviceOfPV(e))
    /\ \A c \in PVCs : ClaimOn(c, e.node, DeviceOfPV(e)) => c = e.claim
    /\ \A x \in PVs : VolumeOn(x, e.node, DeviceOfPV(e)) => x = e.pv

CleanPVDelete(e) ==
    pvAllocated[e.pv] # NoRecord =>
        /\ VolumeOn(e.pv, e.node, e.dev)
        /\ pvAllocated[e.pv].claim # NoPVC =>
              pvcAllocated[pvAllocated[e.pv].claim] = NoRecord

CleanEvents ==
    \/ \E n \in Nodes, W \in SUBSET Devices, total \in [Devices -> Capacities] :
          held[n] \subseteq W /\ OnNodeLocalStorage(n, W, total)
    \/ \E e \in PVEvents : CleanPVUpdate(e) /\ OnPVUpdate(e)
    \/ \E e \in PVEvents : CleanPVDelete(e) /\ OnPVDelete(e)
    \/ \E c \in PVCs : OnPVCUpdate(c)
    \/ \E c \in PVCs : pvcAllocated[c] = NoRecord /\ OnPVCDelete(c)

CleanRollback ==
    \E p \in Pods : (\A c \in unitAllocated[p] : RecordOn(at[p], c)) /\ UnreserveBegin(p)

CleanNext == Cycle \/ CleanRollback \/ CleanEvents

CleanSpec == Init /\ [][CleanNext]_vars

----------------------------------------------------------------------------
(* Properties *)

\* No device serves two claims, two volumes, or a claim and a volume: planning
\* on stale copies, static PVs and half-failed Reserves never share a disk.
DevicesExclusive ==
    \A n \in Nodes, d \in Devices :
        /\ \A c1, c2 \in PVCs : ClaimOn(c1, n, d) /\ ClaimOn(c2, n, d) => c1 = c2
        /\ \A x1, x2 \in PVs : VolumeOn(x1, n, d) /\ VolumeOn(x2, n, d) => x1 = x2
        /\ \A c \in PVCs, x \in PVs : ~(ClaimOn(c, n, d) /\ VolumeOn(x, n, d))

\* IsAllocated says exactly that some claim or volume has the device: none is
\* lost when a claim ends on another device than the one reserved for it.
DeviceAccounting ==
    \A n \in Nodes, d \in Devices :
        d \in held[n] <=> \/ \E c \in PVCs : ClaimOn(c, n, d)
                          \/ \E x \in PVs : VolumeOn(x, n, d)

Live(p) == pc[p] \in {"reserving", "reserved", "failed", "unreserving", "bound"}

\* A reserved device belongs to a cycle that can still give it back or to a
\* bound pod.
DeviceReservationsOwned ==
    \A c \in PVCs : pvcAllocated[c] # NoRecord =>
        \E p \in Pods : Live(p) /\ c \in unitAllocated[p] /\ at[p] = pvcAllocated[c].node

Fit(n, C, F, f) == \A c \in C : f[c] \in F /\ PVCRequest[c] <= size[n][f[c]]

\* processDeviceByMediaType refuses claims only when no assignment of distinct
\* free devices to them exists: the greedy walk loses nothing, however
\* sort.Slice orders equal sizes.
GreedyIsComplete ==
    \A n \in Nodes, N \in SUBSET PVCs, media \in {PVCMedia[c] : c \in PVCs} :
        LET C == ClaimsOf(N, media)
            F == FreeDevices(n, media)
            k == Cardinality(C)
            m == Cardinality(F)
        IN  (\E f \in [C -> F] : Fit(n, C, F, f) /\ \A a, b \in C : f[a] = f[b] => a = b)
            => \A cs \in Orders(C, PVCRequest), ds \in Orders(F, size[n]) :
                  Served(n, cs, k, ds, m)[m] = k

(***************************************************************************)
(* What makes DevicesExclusive and DeviceAccounting inductive: Unreserve   *)
(* frees on the pod's node, where the records it meets must be.            *)
(***************************************************************************)
UnreserveOnRecordNode ==
    lock # NoPod /\ pc[lock] = "unreserving" => \A c \in todo : RecordOn(at[lock], c)

DeviceInv == TypeOK /\ DeviceAccounting /\ DevicesExclusive /\ UnreserveOnRecordNode

(***************************************************************************)
(* What makes DeviceReservationsOwned inductive, in any environment:       *)
(* Unreserve still has to visit every claim its pod reserved.              *)
(***************************************************************************)
UnreserveCoversUnits ==
    lock # NoPod /\ pc[lock] = "unreserving" => unitAllocated[lock] \subseteq todo

OwnedInv == TypeOK /\ DeviceReservationsOwned /\ UnreserveCoversUnits
=============================================================================
