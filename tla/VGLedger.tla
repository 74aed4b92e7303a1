------------------------------ MODULE VGLedger ------------------------------
(***************************************************************************)
(* The volume-group ledger of the scheduler plugin's cache                 *)
(* (pkg/scheduling-framework/cache).  For every node and volume group the  *)
(* cache keeps Allocatable, reported by the NodeLocalStorage object (NLS), *)
(* and Requested, the bytes it believes to be taken.  Next to the ledger   *)
(* it keeps the records that explain Requested: one per claim reserved by  *)
(* the scheduler (pvcAllocated), one per volume seen by the PV informer    *)
(* (pvAllocated), and one per inline volume of a pod.                      *)
(*                                                                         *)
(* Informer callbacks run whole under the write lock, so each one is an    *)
(* action.  Reserve and Unreserve walk a list of units and may stop in the *)
(* middle, so they are a sequence of actions taken while `lock' is held.   *)
(* PreFilter and PreAllocate only read; what they read is kept in the      *)
(* cycle state and may be stale when Reserve uses it.                      *)
(*                                                                         *)
(* The environment is open: Next admits any well-formed informer event at  *)
(* any time.  CleanNext restricts it to the events under which the ledger  *)
(* and the records provably stay equal.                                    *)
(***************************************************************************)
EXTENDS Totals

CONSTANTS
    Nodes, VGs, PVs, Pods,
    PVCs,        \* claim keys, namespace/name
    Volumes,     \* CSI inline volumes, across all pods
    Capacities,  \* the Allocatable values an NLS may report for a VG
    PodPVCs,     \* the claims a pod mounts
    PVCRequest,  \* the storage request of a claim before it is bound
    PVCVG,       \* the vgName its storage class sets, or NoVG
    VolPod, VolVG, VolSize,  \* pod, vgName attribute and size of an inline volume
    Strategy,    \* "binpack" or "spread"
    NoVG, NoPVC, NoPod, NoRecord

ASSUME FiniteAssumption == /\ IsFiniteSet(PVCs)
                           /\ IsFiniteSet(PVs)
                           /\ IsFiniteSet(Volumes)

ASSUME SizeAssumption == /\ Capacities \subseteq Nat
                         /\ PVCRequest \in [PVCs -> Sizes]
                         /\ VolSize \in [Volumes -> Sizes]

ASSUME ShapeAssumption == /\ PodPVCs \in [Pods -> SUBSET PVCs]
                          /\ PVCVG \in [PVCs -> VGs \cup {NoVG}]
                          /\ VolPod \in [Volumes -> Pods]
                          /\ VolVG \in [Volumes -> VGs \cup {NoVG}]

ASSUME NullAssumption == NoVG \notin VGs /\ NoPVC \notin PVCs /\ NoPod \notin Pods

ASSUME NodeAssumption == Nodes # {}

VARIABLES
    nls,           \* states[n]: "absent", "created" by an event, or "inited" by its NLS
    known,         \* the keys of states[n].VGStates
    allocatable,   \* VGStates[v].Allocatable, 0 when v is not known
    requested,     \* VGStates[v].Requested, 0 when v is not known
    pvcAllocated,  \* claim -> record written by Reserve
    pvAllocated,   \* volume -> record written by PV and PVC events
    pvcInfos,      \* claim -> request of a bound claim, 0 when there is no entry
    inline,        \* node -> inline volume -> how its detail was recorded
    pc, need, at, unitOf, unitAllocated,  \* the scheduling cycle of each pod
    lock, todo, vtodo  \* the holder of the write lock and the units it has left

ledger  == <<nls, known, allocatable, requested>>
records == <<pvcAllocated, pvAllocated, pvcInfos, inline>>
cycle   == <<pc, need, at, unitOf, unitAllocated>>
locked  == <<lock, todo, vtodo>>
vars    == <<ledger, records, cycle, locked>>

(***************************************************************************)
(* Of a claim record only Allocated is kept: pvcAdd may refresh its         *)
(* Requested, which no code reads.  In a volume record `req' is the PV     *)
(* capacity at the last event that was stored and `alloc' what the ledger  *)
(* was charged.                                                            *)
(***************************************************************************)
ClaimRecord  == [node : Nodes, vg : VGs, alloc : Sizes]
VolumeRecord == [node : Nodes, vg : VGs, claim : PVCs \cup {NoPVC},
                 req : Sizes, alloc : Sizes]

ASSUME RecordAssumption == NoRecord \notin ClaimRecord /\ NoRecord \notin VolumeRecord

\* "reserved": recorded by Reserve, Allocated = VolumeSize.
\* "observed": recorded by a pod event, Allocated = 0.
Details == {"none", "reserved", "observed"}

Phases == {"idle", "prefiltered", "preallocated", "reserving", "reserved",
           "failed", "unreserving", "bound"}

\* Events of the PV and PVC informers, reduced to what the handlers read.
PVEvents  == [pv : PVs, node : Nodes, vg : VGs \cup {NoVG}, bound : BOOLEAN,
              claim : PVCs \cup {NoPVC}, cap : Sizes]
PVCEvents == [claim : PVCs, node : Nodes, pv : PVs, size : Sizes]

NoUnits == [c \in PVCs |-> NoVG]
AnyNode == CHOOSE n \in Nodes : TRUE

\* The one type invariant: every variable holds a value of the Go type it models.
TypeOK ==
    /\ nls \in [Nodes -> {"absent", "created", "inited"}]
    /\ known \in [Nodes -> SUBSET VGs]
    /\ allocatable \in [Nodes -> [VGs -> Nat]]
    /\ requested \in [Nodes -> [VGs -> Int]]
    /\ pvcAllocated \in [PVCs -> ClaimRecord \cup {NoRecord}]
    /\ pvAllocated \in [PVs -> VolumeRecord \cup {NoRecord}]
    /\ pvcInfos \in [PVCs -> 0..MaxSize]
    /\ inline \in [Nodes -> [Volumes -> Details]]
    /\ pc \in [Pods -> Phases]
    /\ need \in [Pods -> SUBSET PVCs]
    /\ at \in [Pods -> Nodes]
    /\ unitOf \in [Pods -> [PVCs -> VGs \cup {NoVG}]]
    /\ unitAllocated \in [Pods -> SUBSET PVCs]
    /\ lock \in Pods \cup {NoPod}
    /\ todo \in SUBSET PVCs
    /\ vtodo \in SUBSET Volumes

Init ==
    /\ nls = [n \in Nodes |-> "absent"]
    /\ known = [n \in Nodes |-> {}]
    /\ allocatable = [n \in Nodes |-> [v \in VGs |-> 0]]
    /\ requested = [n \in Nodes |-> [v \in VGs |-> 0]]
    /\ pvcAllocated = [c \in PVCs |-> NoRecord]
    /\ pvAllocated = [x \in PVs |-> NoRecord]
    /\ pvcInfos = [c \in PVCs |-> 0]
    /\ inline = [n \in Nodes |-> [w \in Volumes |-> "none"]]
    /\ pc = [p \in Pods |-> "idle"]
    /\ need = [p \in Pods |-> {}]
    /\ at = [p \in Pods |-> AnyNode]
    /\ unitOf = [p \in Pods |-> NoUnits]
    /\ unitAllocated = [p \in Pods |-> {}]
    /\ lock = NoPod
    /\ todo = {}
    /\ vtodo = {}

----------------------------------------------------------------------------
(* Helpers *)

PodVols(p) == {w \in Volumes : VolPod[w] = p}

HasDetails(n, p) == \E w \in PodVols(p) : inline[n][w] # "none"

\* What the inline volumes in W ask of volume group v.
InlineSize(W, v) ==
    Total([w \in Volumes |-> IF w \in W /\ VolVG[w] = v THEN VolSize[w] ELSE 0])

\* initIfNeedAndGetVGState: an event may create a node or a pool the NLS has
\* not reported; the new pool has Allocatable = Requested = 0.
InitIfNeed(n, W) ==
    /\ nls' = [nls EXCEPT ![n] = IF @ = "absent" THEN "created" ELSE @]
    /\ known' = [known EXCEPT ![n] = @ \cup W]
    /\ UNCHANGED allocatable

\* revertIfNeed gives the claim's record back to node n's pool of that name,
\* provided n is inited and has such a pool; kn is the pool set at that point.
Reverts(n, kn, c) ==
    /\ c # NoPVC
    /\ pvcAllocated[c] # NoRecord
    /\ nls[n] = "inited"
    /\ pvcAllocated[c].vg \in kn

Reverted(n, kn, c, v) ==
    IF Reverts(n, kn, c) /\ pvcAllocated[c].vg = v THEN pvcAllocated[c].alloc ELSE 0

\* Mutant: revertIfNeed without the DeleteByPVC.
DropClaimRecordNever(n, kn, c) == pvcAllocated

DropClaimRecord(n, kn, c) ==
    IF Reverts(n, kn, c) THEN [pvcAllocated EXCEPT ![c] = NoRecord] ELSE pvcAllocated

\* Mutant: the plan is trusted, the live ledger is not looked at.
FitsAsPlanned(n, v, size) == v \in known[n]

Fits(n, v, size) == v \in known[n] /\ requested[n][v] + size <= allocatable[n][v]

MaxOf(a, b) == IF a < b THEN b ELSE a

----------------------------------------------------------------------------
(* The scheduling cycle.  kube-scheduler runs PreFilter to Reserve for one  *)
(* pod at a time; binding, and the Unreserve of a failed binding, run       *)
(* concurrently with the next pods' cycles.                                 *)

Scheduling(p) == pc[p] \in {"prefiltered", "preallocated", "reserving", "failed"}

\* PreFilter skips bound claims and claims that already have a record; a pod
\* with an inline volume that names no VG is rejected.
PreFilter(p, bound) ==
    /\ lock = NoPod
    /\ pc[p] = "idle"
    /\ \A q \in Pods : ~Scheduling(q)
    /\ \A w \in PodVols(p) : VolVG[w] # NoVG
    /\ pc' = [pc EXCEPT ![p] = "prefiltered"]
    /\ need' = [need EXCEPT ![p] =
                  {c \in PodPVCs[p] \ bound : pvcAllocated[c] = NoRecord}]
    /\ UNCHANGED <<ledger, records, at, unitOf, unitAllocated, locked>>

\* The volume groups the strategy may pick for claim c, given the free bytes:
\* the tightest fit for binpack, the loosest for spread; ties are map order.
Picks(kn, free, c) ==
    LET fit == {v \in kn : PVCRequest[c] <= free[v]}
    IN  IF PVCVG[c] # NoVG THEN fit \cap {PVCVG[c]}
        ELSE {v \in fit : \A u \in fit :
                IF Strategy = "spread" THEN free[u] <= free[v] ELSE free[v] <= free[u]}

\* Every outcome of preAllocateByVGs for claims N on a clone with these free
\* bytes: claims whose class names a VG first, then the others, one by one.
Plans(kn, free, N) ==
    LET Last(S) == IF \E c \in S : PVCVG[c] = NoVG
                   THEN {c \in S : PVCVG[c] = NoVG} ELSE S
        left(a, S) == [v \in VGs |-> free[v] -
            Total([c \in S |-> IF a[c] = v THEN PVCRequest[c] ELSE 0])]
        plans[S \in SUBSET N] ==
            IF S = {} THEN {NoUnits}
            ELSE UNION {UNION {{[a EXCEPT ![c] = v] : v \in Picks(kn, left(a, S \ {c}), c)}
                               : a \in plans[S \ {c}]} : c \in Last(S)}
    IN  plans[N]

FreeAfterInline(n, p) ==
    [v \in VGs |-> allocatable[n][v] - requested[n][v] - InlineSize(PodVols(p), v)]

\* PreAllocate, as plugin.Reserve repeats it on the chosen node: inline volumes
\* first, then the claims, all on a copy of the node's state.
PreAllocate(p, n) ==
    /\ lock = NoPod
    /\ pc[p] = "prefiltered"
    /\ need[p] # {} \/ PodVols(p) # {}
    /\ nls[n] = "inited"
    /\ ~HasDetails(n, p)
    /\ \A w \in PodVols(p) : VolVG[w] \in known[n] /\ 0 <= FreeAfterInline(n, p)[VolVG[w]]
    /\ \E units \in [PVCs -> VGs \cup {NoVG}] :
          /\ units \in Plans(known[n], FreeAfterInline(n, p), need[p])
          /\ unitOf' = [unitOf EXCEPT ![p] = units]
    /\ pc' = [pc EXCEPT ![p] = "preallocated"]
    /\ at' = [at EXCEPT ![p] = n]
    /\ need' = [need EXCEPT ![p] = {}]
    /\ UNCHANGED <<ledger, records, unitAllocated, locked>>

\* A pod without local volumes to place passes Reserve untouched.
SkipReserve(p, n) ==
    /\ pc[p] = "prefiltered"
    /\ need[p] = {} /\ PodVols(p) = {}
    /\ pc' = [pc EXCEPT ![p] = "reserved"]
    /\ at' = [at EXCEPT ![p] = n]
    /\ UNCHANGED <<ledger, records, need, unitOf, unitAllocated, locked>>

\* No node fits, PreAllocate fails or another plugin rejects the pod before
\* Reserve: reservedState is nil and the framework's Unreserve is a no-op.
Unschedulable(p) ==
    /\ pc[p] = "prefiltered"
    /\ pc' = [pc EXCEPT ![p] = "idle"]
    /\ need' = [need EXCEPT ![p] = {}]
    /\ UNCHANGED <<ledger, records, at, unitOf, unitAllocated, locked>>

ReserveBegin(p) ==
    /\ lock = NoPod
    /\ pc[p] = "preallocated"
    /\ nls[at[p]] = "inited"
    /\ pc' = [pc EXCEPT ![p] = "reserving"]
    /\ lock' = p
    /\ todo' = {c \in PVCs : unitOf[p][c] # NoVG}
    /\ vtodo' = PodVols(p)
    /\ UNCHANGED <<ledger, records, need, at, unitOf, unitAllocated>>

Reserving(p) == lock = p /\ pc[p] = "reserving"

\* Mutant: plugin.Reserve keeps reservedState only when the cache reports success.
ReserveErrorForgets(p) ==
    /\ pc' = [pc EXCEPT ![p] = "failed"]
    /\ unitOf' = [unitOf EXCEPT ![p] = NoUnits]
    /\ unitAllocated' = [unitAllocated EXCEPT ![p] = {}]
    /\ lock' = NoPod /\ todo' = {} /\ vtodo' = {}
    /\ UNCHANGED <<ledger, records, need, at>>

ReserveError(p) ==
    /\ pc' = [pc EXCEPT ![p] = "failed"]
    /\ unitOf' = [unitOf EXCEPT ![p] = NoUnits]
    /\ lock' = NoPod /\ todo' = {} /\ vtodo' = {}
    /\ UNCHANGED <<ledger, records, need, at, unitAllocated>>

\* Allocated or bound by an event handler since PreFilter.
AlreadyPlaced(c) == pvcAllocated[c] # NoRecord \/ pvcInfos[c] # 0

ReserveClaimSkip(p, c) ==
    /\ Reserving(p) /\ c \in todo
    /\ AlreadyPlaced(c)
    /\ todo' = todo \ {c}
    /\ UNCHANGED <<ledger, records, cycle, lock, vtodo>>

\* reserve of lvm_common_volume.go, one unit: checked again on the live ledger.
ReserveClaim(p, c) ==
    LET n == at[p]
        v == unitOf[p][c]
    IN  /\ Reserving(p) /\ c \in todo
        /\ ~AlreadyPlaced(c)
        /\ Fits(n, v, PVCRequest[c])
        /\ requested' = [requested EXCEPT ![n][v] = @ + PVCRequest[c]]
        /\ pvcAllocated' = [pvcAllocated EXCEPT ![c] =
                              [node |-> n, vg |-> v, alloc |-> PVCRequest[c]]]
        /\ unitAllocated' = [unitAllocated EXCEPT ![p] = @ \cup {c}]
        /\ todo' = todo \ {c}
        /\ UNCHANGED <<nls, known, allocatable, pvAllocated, pvcInfos, inline,
                       pc, need, at, unitOf, lock, vtodo>>

ReserveClaimFail(p, c) ==
    /\ Reserving(p) /\ c \in todo
    /\ ~AlreadyPlaced(c)
    /\ ~Fits(at[p], unitOf[p][c], PVCRequest[c])
    /\ ReserveError(p)

\* inline_volume.go reserve rejects a pod that already has details on the node.
InlineClash(p) == vtodo = PodVols(p) /\ HasDetails(at[p], p)

ReserveVolume(p, w) ==
    LET n == at[p]
    IN  /\ Reserving(p) /\ todo = {} /\ w \in vtodo
        /\ ~InlineClash(p)
        /\ Fits(n, VolVG[w], VolSize[w])
        /\ requested' = [requested EXCEPT ![n][VolVG[w]] = @ + VolSize[w]]
        /\ inline' = [inline EXCEPT ![n][w] = "reserved"]
        /\ vtodo' = vtodo \ {w}
        /\ UNCHANGED <<nls, known, allocatable, pvcAllocated, pvAllocated, pvcInfos,
                       cycle, lock, todo>>

ReserveVolumeFail(p, w) ==
    /\ Reserving(p) /\ todo = {} /\ w \in vtodo
    /\ InlineClash(p) \/ ~Fits(at[p], VolVG[w], VolSize[w])
    /\ ReserveError(p)

\* The device allocator runs last and may still fail.
ReserveEnd(p) ==
    /\ Reserving(p) /\ todo = {} /\ vtodo = {}
    /\ \/ ReserveError(p)
       \/ /\ pc' = [pc EXCEPT ![p] = "reserved"]
          /\ unitOf' = [unitOf EXCEPT ![p] = NoUnits]
          /\ lock' = NoPod
          /\ UNCHANGED <<ledger, records, need, at, unitAllocated, todo, vtodo>>

\* Unreserve: after a Reserve that failed half way, or after a failed binding.
UnreserveBegin(p) ==
    /\ lock = NoPod
    /\ pc[p] \in {"reserved", "failed"}
    /\ pc' = [pc EXCEPT ![p] = "unreserving"]
    /\ lock' = p
    /\ todo' = unitAllocated[p]
    /\ UNCHANGED <<ledger, records, need, at, unitOf, unitAllocated, vtodo>>

UnreserveClaim(p, c) ==
    LET n == at[p]
    IN  /\ lock = p /\ pc[p] = "unreserving" /\ c \in todo
        /\ requested' = [requested EXCEPT ![n] =
                           [v \in VGs |-> @[v] - Reverted(n, known[n], c, v)]]
        /\ pvcAllocated' = DropClaimRecord(n, known[n], c)
        /\ unitAllocated' = [unitAllocated EXCEPT ![p] = @ \ {c}]
        /\ todo' = todo \ {c}
        /\ UNCHANGED <<nls, known, allocatable, pvAllocated, pvcInfos, inline,
                       pc, need, at, unitOf, lock, vtodo>>

\* Mutant: the pod's detail list is not emptied.
UnreserveEndKeepsDetails(p) ==
    LET W == {w \in PodVols(p) : inline[at[p]][w] = "reserved" /\ VolVG[w] \in known[at[p]]}
    IN  /\ lock = p /\ pc[p] = "unreserving" /\ todo = {}
        /\ requested' = [requested EXCEPT ![at[p]] =
                           [v \in VGs |-> @[v] - InlineSize(W, v)]]
        /\ pc' = [pc EXCEPT ![p] = "idle"]
        /\ at' = [at EXCEPT ![p] = AnyNode]
        /\ lock' = NoPod
        /\ UNCHANGED <<nls, known, allocatable, records, need, unitOf, unitAllocated,
                       todo, vtodo>>

\* unreserveDirect gives back detail.Allocated, which is 0 for "observed"
\* details, and empties the pod's detail list.
UnreserveEnd(p) ==
    LET n == at[p]
        W == {w \in PodVols(p) : inline[n][w] = "reserved" /\ VolVG[w] \in known[n]}
    IN  /\ lock = p /\ pc[p] = "unreserving" /\ todo = {}
        /\ requested' = [requested EXCEPT ![n] =
                           [v \in VGs |-> @[v] - InlineSize(W, v)]]
        /\ inline' = [inline EXCEPT ![n] =
                        [w \in Volumes |-> IF w \in PodVols(p) THEN "none" ELSE @[w]]]
        /\ pc' = [pc EXCEPT ![p] = "idle"]
        /\ at' = [at EXCEPT ![p] = AnyNode]
        /\ lock' = NoPod
        /\ UNCHANGED <<nls, known, allocatable, pvcAllocated, pvAllocated, pvcInfos,
                       need, unitOf, unitAllocated, todo, vtodo>>

\* The framework bound the pod; the units stay in a cycle state nobody reads again.
Bind(p) ==
    /\ pc[p] = "reserved"
    /\ pc' = [pc EXCEPT ![p] = "bound"]
    /\ UNCHANGED <<ledger, records, need, at, unitOf, unitAllocated, locked>>

----------------------------------------------------------------------------
(* Informer callbacks *)

\* The pools of an NLS: only the VGs W that its filter admits.
CreateStatesByNodeLocal(W, cap) == [v \in VGs |-> IF v \in W THEN cap[v] ELSE 0]

\* Pools that stay keep Requested, new ones start at 0, dropped ones are forgotten.
StatesForUpdate(n, W) == [v \in VGs |-> IF v \in W THEN requested[n][v] ELSE 0]

\* AddNodeStorage and an effective UpdateNodeStorage.
OnNodeLocalStorage(n, W, cap) ==
    /\ lock = NoPod
    /\ nls' = [nls EXCEPT ![n] = "inited"]
    /\ known' = [known EXCEPT ![n] = W]
    /\ allocatable' = [allocatable EXCEPT ![n] = CreateStatesByNodeLocal(W, cap)]
    /\ requested' = [requested EXCEPT ![n] = StatesForUpdate(n, W)]
    /\ UNCHANGED <<records, cycle, locked>>

\* The volume group of a PV: its annotation or attributes, else, for a bound
\* PV, the record Reserve left for its claim.
VGOfPV(e) ==
    IF e.vg # NoVG THEN e.vg
    ELSE IF e.bound /\ e.claim # NoPVC /\ pvcAllocated[e.claim] # NoRecord
         THEN pvcAllocated[e.claim].vg ELSE NoVG

\* Mutant: the larger of the two requests becomes their sum.
MaxRequestSum(e) == (IF e.claim = NoPVC THEN 0 ELSE pvcInfos[e.claim]) + e.cap

MaxRequest(e) ==
    MaxOf(IF e.claim = NoPVC THEN 0 ELSE pvcInfos[e.claim], e.cap)

\* Mutant: a repeated PV event is charged in full again.
DeltaAllocateRepeats(e) == MaxRequest(e)

DeltaAllocate(e) ==
    MaxRequest(e) - (IF pvAllocated[e.pv] = NoRecord THEN 0 ELSE pvAllocated[e.pv].alloc)

\* pvAdd/pvUpdate of a PV that is not Pending.
OnPVUpdate(e) ==
    LET n == e.node
        v == VGOfPV(e)
        kn == known[n] \cup {v}
    IN  /\ lock = NoPod
        /\ v # NoVG
        /\ InitIfNeed(n, {v})
        /\ requested' = [requested EXCEPT ![n] = [u \in VGs |->
                            @[u] - Reverted(n, kn, e.claim, u)
                                 + (IF u = v THEN DeltaAllocate(e) ELSE 0)]]
        /\ pvcAllocated' = DropClaimRecord(n, kn, e.claim)
        /\ pvAllocated' =
              IF DeltaAllocate(e) = 0 THEN pvAllocated
              ELSE [pvAllocated EXCEPT ![e.pv] =
                      [node |-> n, vg |-> v, claim |-> e.claim,
                       req |-> e.cap, alloc |-> MaxRequest(e)]]
        /\ UNCHANGED <<pvcInfos, inline, cycle, locked>>

\* pvDelete: charges the pool the PV names; DeleteByPV also drops the claim's
\* record, without giving it back.
OnPVDelete(e) ==
    LET rec == pvAllocated[e.pv]
    IN  /\ lock = NoPod
        /\ e.vg # NoVG
        /\ rec # NoRecord
        /\ InitIfNeed(e.node, {e.vg})
        /\ requested' = [requested EXCEPT ![e.node][e.vg] = @ - rec.alloc]
        /\ pvAllocated' = [pvAllocated EXCEPT ![e.pv] = NoRecord]
        /\ pvcAllocated' = IF rec.claim = NoPVC THEN pvcAllocated
                           ELSE [pvcAllocated EXCEPT ![rec.claim] = NoRecord]
        /\ UNCHANGED <<pvcInfos, inline, cycle, locked>>

\* What a claim asks beyond what its volume was charged.
ExpandDelta(e) ==
    IF pvAllocated[e.pv] = NoRecord THEN 0
    ELSE MaxOf(e.size, pvAllocated[e.pv].req) - pvAllocated[e.pv].alloc

\* OnPVCUpdate of a bound claim with a selected node: remember the request and
\* charge an expansion to the pool on the claim's node.
OnPVCUpdate(e) ==
    LET rec == pvAllocated[e.pv]
    IN  /\ lock = NoPod
        /\ pvcInfos' = [pvcInfos EXCEPT ![e.claim] = e.size]
        /\ \/ /\ ExpandDelta(e) <= 0
              /\ UNCHANGED <<ledger, pvAllocated>>
           \/ /\ ExpandDelta(e) > 0
              /\ InitIfNeed(e.node, {rec.vg})
              /\ requested' = [requested EXCEPT ![e.node][rec.vg] = @ + ExpandDelta(e)]
              /\ pvAllocated' = [pvAllocated EXCEPT ![e.pv].alloc = MaxOf(e.size, rec.req)]
        /\ UNCHANGED <<pvcAllocated, inline, cycle, locked>>

\* DeletePVC forgets the claim's record without giving it back.
OnPVCDelete(c) ==
    /\ lock = NoPod
    /\ pvcInfos' = [pvcInfos EXCEPT ![c] = 0]
    /\ pvcAllocated' = [pvcAllocated EXCEPT ![c] = NoRecord]
    /\ UNCHANGED <<ledger, pvAllocated, inline, cycle, locked>>

\* podAdd, for a pod on n that is neither Pending nor terminated.  A volume
\* without a VG ends the loop: what was charged before it, W, has no detail.
OnPodRunning(p, n, W) ==
    LET whole == \A w \in PodVols(p) : VolVG[w] # NoVG
    IN  /\ lock = NoPod
        /\ PodVols(p) # {} /\ ~HasDetails(n, p)
        /\ IF whole THEN W = PodVols(p) ELSE W \subseteq {w \in PodVols(p) : VolVG[w] # NoVG}
        /\ InitIfNeed(n, {VolVG[w] : w \in W})
        /\ requested' = [requested EXCEPT ![n] =
                           [v \in VGs |-> @[v] + InlineSize(W, v)]]
        /\ inline' = IF ~whole THEN inline ELSE [inline EXCEPT ![n] =
                        [w \in Volumes |-> IF w \in W THEN "observed" ELSE @[w]]]
        /\ UNCHANGED <<pvcAllocated, pvAllocated, pvcInfos, cycle, locked>>

\* podDelete: on the deletion of a pod, and on any update that shows it with
\* a node and Pending, Succeeded or Failed.
OnPodGone(p, n) ==
    LET W == {w \in PodVols(p) : inline[n][w] # "none" /\ VolVG[w] \in known[n]}
    IN  /\ lock = NoPod
        /\ HasDetails(n, p)
        /\ requested' = [requested EXCEPT ![n] =
                           [v \in VGs |-> @[v] - InlineSize(W, v)]]
        /\ inline' = [inline EXCEPT ![n] =
                        [w \in Volumes |-> IF w \in PodVols(p) THEN "none" ELSE @[w]]]
        /\ UNCHANGED <<nls, known, allocatable, pvcAllocated, pvAllocated, pvcInfos,
                       cycle, locked>>
----------------------------------------------------------------------------
(* Specifications *)

Cycle ==
    \E p \in Pods :
        \/ \E bound \in SUBSET PodPVCs[p] : PreFilter(p, bound)
        \/ \E n \in Nodes : PreAllocate(p, n) \/ SkipReserve(p, n)
        \/ Unschedulable(p)
        \/ ReserveBegin(p)
        \/ \E c \in PVCs : ReserveClaimSkip(p, c) \/ ReserveClaim(p, c) \/ ReserveClaimFail(p, c)
        \/ \E w \in Volumes : ReserveVolume(p, w) \/ ReserveVolumeFail(p, w)
        \/ ReserveEnd(p)
        \/ \E c \in PVCs : UnreserveClaim(p, c)
        \/ UnreserveEnd(p)
        \/ Bind(p)

Rollback == \E p \in Pods : UnreserveBegin(p)

Events ==
    \/ \E n \in Nodes, W \in SUBSET VGs, cap \in [VGs -> Capacities] :
          OnNodeLocalStorage(n, W, cap)
    \/ \E e \in PVEvents : OnPVUpdate(e) \/ OnPVDelete(e)
    \/ \E e \in PVCEvents : OnPVCUpdate(e)
    \/ \E c \in PVCs : OnPVCDelete(c)
    \/ \E p \in Pods, n \in Nodes :
          OnPodGone(p, n) \/ \E W \in SUBSET Volumes : OnPodRunning(p, n, W)

Next == Cycle \/ Rollback \/ Events

Spec == Init /\ [][Next]_vars

(***************************************************************************)
(* The ledger and the records come apart in the steps that CleanNext leaves *)
(* out: a revert on another node than the record's, a PV that changes pool, *)
(* a claim or PV deletion that drops a live claim record, an NLS that drops *)
(* a charged VG, an inline volume without VG, and an Unreserve that meets   *)
(* details written by a pod event.                                          *)
(***************************************************************************)
RecordOn(n, c) == c # NoPVC /\ pvcAllocated[c] # NoRecord => pvcAllocated[c].node = n

CleanRollback ==
    \E p \in Pods :
        /\ \A c \in unitAllocated[p] : RecordOn(at[p], c)
        /\ \A w \in PodVols(p) : inline[at[p]][w] # "observed"
        /\ UnreserveBegin(p)

CleanPVUpdate(e) ==
    /\ RecordOn(e.node, e.claim)
    /\ pvAllocated[e.pv] # NoRecord =>
          pvAllocated[e.pv].node = e.node /\ pvAllocated[e.pv].vg = VGOfPV(e)

CleanPVDelete(e) ==
    pvAllocated[e.pv] # NoRecord =>
        /\ pvAllocated[e.pv].node = e.node /\ pvAllocated[e.pv].vg = e.vg
        /\ pvAllocated[e.pv].claim # NoPVC =>
              pvcAllocated[pvAllocated[e.pv].claim] = NoRecord

CleanPVCUpdate(e) == pvAllocated[e.pv] # NoRecord => pvAllocated[e.pv].node = e.node

CleanEvents ==
    \/ \E n \in Nodes, W \in SUBSET VGs, cap \in [VGs -> Capacities] :
          /\ \A v \in known[n] \ W : requested[n][v] = 0
          /\ OnNodeLocalStorage(n, W, cap)
    \/ \E e \in PVEvents : CleanPVUpdate(e) /\ OnPVUpdate(e)
    \/ \E e \in PVEvents : CleanPVDelete(e) /\ OnPVDelete(e)
    \/ \E e \in PVCEvents : CleanPVCUpdate(e) /\ OnPVCUpdate(e)
    \/ \E c \in PVCs : pvcAllocated[c] = NoRecord /\ OnPVCDelete(c)
    \/ \E p \in Pods, n \in Nodes : OnPodGone(p, n)
    \/ \E p \in Pods, n \in Nodes, W \in SUBSET Volumes :
          /\ \A w \in PodVols(p) : VolVG[w] # NoVG
          /\ OnPodRunning(p, n, W)

CleanNext == Cycle \/ CleanRollback \/ CleanEvents

CleanSpec == Init /\ [][CleanNext]_vars

----------------------------------------------------------------------------
(* Properties *)

\* The bytes of pool (n, v) that record r, or all records of a map, explain.
HeldBy(r, n, v) == IF r # NoRecord /\ r.node = n /\ r.vg = v THEN r.alloc ELSE 0

RecordBytes(map, n, v) == Total([k \in DOMAIN map |-> HeldBy(map[k], n, v)])

\* The bytes of volume group v that the details of one node explain.
InlineBytes(details, v) ==
    InlineSize({w \in Volumes : details[w] # "none"}, v)

Held(n, v) == RecordBytes(pvcAllocated, n, v) + RecordBytes(pvAllocated, n, v)
              + InlineBytes(inline[n], v)

\* Requested of every pool is the sum of the claim, volume and inline records
\* on it: no charge is lost or counted twice across Reserve, a Reserve that
\* fails half way, Unreserve, provisioning, expansion and the pod callbacks.
LedgerMatchesRecords == \A n \in Nodes, v \in VGs : requested[n][v] = Held(n, v)

Live(p) == pc[p] \in {"reserving", "reserved", "failed", "unreserving", "bound"}

\* A record left by Reserve belongs to a pod that is reserved, bound or being
\* rolled back on the record's node.  An ownerless record would make PreFilter
\* skip the claim for ever.
ReservationsOwned ==
    \A c \in PVCs : pvcAllocated[c] # NoRecord =>
        \E p \in Pods : Live(p) /\ c \in unitAllocated[p] /\ at[p] = pvcAllocated[c].node

\* Inline details written by Reserve disappear with the cycle that wrote them,
\* whatever the pod informer delivers meanwhile.
InlineReservationsOwned ==
    \A n \in Nodes, w \in Volumes : inline[n][w] = "reserved" =>
        Live(VolPod[w]) /\ at[VolPod[w]] = n

\* Reserve works from a plan made on an older copy of the node, but a step of
\* its critical section never takes a pool beyond what the NLS reported.
ReserveWithinAllocatable ==
    [][\A n \in Nodes, v \in VGs :
         lock # NoPod /\ requested'[n][v] > requested[n][v] =>
             requested'[n][v] <= allocatable'[n][v]]_vars

(***************************************************************************)
(* The inductive invariant behind LedgerMatchesRecords.  A pool the cache  *)
(* does not know carries no charge, so nothing can be left on a record     *)
(* whose pool is skipped; and the loops that hold the lock find the        *)
(* details and records as their first step left them.                      *)
(***************************************************************************)
UnknownPoolsEmpty ==
    \A n \in Nodes, v \in VGs : v \notin known[n] => requested[n][v] = 0

LockDiscipline ==
    lock # NoPod =>
        /\ pc[lock] = "reserving" =>
             /\ vtodo \subseteq PodVols(lock)
             /\ vtodo # PodVols(lock) => \A w \in vtodo : inline[at[lock]][w] = "none"
        /\ pc[lock] = "unreserving" =>
             /\ \A c \in todo : RecordOn(at[lock], c)
             /\ \A w \in PodVols(lock) : inline[at[lock]][w] # "observed"

LedgerInv == TypeOK /\ UnknownPoolsEmpty /\ LockDiscipline /\ LedgerMatchesRecords

(***************************************************************************)
(* What makes ReservationsOwned inductive: Unreserve still has to visit    *)
(* every claim its pod reserved, and finds there, inited and with the pool *)
(* of the record, the node it gives the bytes back to; otherwise           *)
(* revertIfNeed would return early and leave the record behind.            *)
(***************************************************************************)
UnreserveCoversUnits ==
    lock # NoPod /\ pc[lock] = "unreserving" => unitAllocated[lock] \subseteq todo

ReservedNodesInited ==
    /\ lock # NoPod /\ pc[lock] = "reserving" => nls[at[lock]] = "inited"
    /\ \A c \in PVCs : pvcAllocated[c] # NoRecord => nls[pvcAllocated[c].node] = "inited"

OwnedInv == LedgerInv /\ ReservationsOwned /\ UnreserveCoversUnits /\ ReservedNodesInited

\* What makes InlineReservationsOwned inductive, in any environment.
ReservesOwnVolumes ==
    lock # NoPod /\ pc[lock] = "reserving" => vtodo \subseteq PodVols(lock)

InlineInv == TypeOK /\ InlineReservationsOwned /\ ReservesOwnVolumes
=============================================================================
