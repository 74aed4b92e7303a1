--------------------------- MODULE AllocateMigrate ---------------------------
(***************************************************************************)
(* How the pool chosen by the scheduler reaches the PV.  Reserve keeps the *)
(* choice in memory; PreBind writes it to the PV or, when there is no PV   *)
(* yet, to an annotation of the pod; open-local-controller watches pods    *)
(* and copies the annotation to the PV, retrying until the claim is bound  *)
(* (pkg/scheduling-framework/plugin.go, pkg/controller).                   *)
(*                                                                         *)
(* claim, pv and podInfo are the API server's objects.  The scheduler      *)
(* (s...) and the controller (k...) read informer copies of them, which    *)
(* lag.  A pool is a volume group, or a device when Kind says so.  Sizes,  *)
(* nodes and the ledger are those of module VGLedger and are left out: of  *)
(* the cache only the records remain, rec by claim and vrec by volume.     *)
(***************************************************************************)
EXTENDS Naturals

CONSTANTS
    Pods, PVCs, Pools,
    PodPVCs,        \* the claims a pod mounts
    StaticPool,     \* pool of the available PV a claim will be bound to, or NoPool
    Kind,           \* claim -> "LVM" or "Device"
    MaxFaults,      \* bound on failed requests, failed bindings and restarts
    NoPool, NoPV, NoPod

ASSUME PodAssumption == PodPVCs \in [Pods -> SUBSET PVCs]

ASSUME PoolAssumption == NoPool \notin Pools /\ StaticPool \in [PVCs -> Pools \cup {NoPool}]

ASSUME KindAssumption == Kind \in [PVCs -> {"LVM", "Device"}]

Volumes == [bound : BOOLEAN, pool : Pools \cup {NoPool}]

\* The AnnotationPodPVCAllocatedNeedMigrateKey annotation: claim -> pool.
Infos  == [PVCs -> Pools \cup {NoPool}]
NoInfo == [c \in PVCs |-> NoPool]

ASSUME NullAssumption == NoPV \notin Volumes /\ NoPod \notin Infos

ASSUME BoundAssumption == MaxFaults \in Nat

VARIABLES
    claim, pv, podInfo, pod,  \* API objects; pv[c] is the volume of claim c, and
                              \* its last version when the claim is gone
    rec, vrec,                \* the cache's records: reserved pool, charged pool
    sBound, sPV,              \* scheduler's listers: bound claims, volumes
    origin,                   \* the annotation of the pod object a cycle works on
    mine, done,               \* claims a cycle reserved, PreBinds it completed
    kInfo, kClaim, kPV,       \* controller's listers
    queue, later,             \* its work queue and the items to be added again
    ctrl, faults,
    openLocalFirst            \* the profile runs open-local's PreBind before
                              \* VolumeBinding's; nobody fixes the order

api        == <<claim, pv, podInfo, pod>>
scheduler  == <<openLocalFirst, rec, vrec, sBound, sPV, origin, mine, done>>
controller == <<kInfo, kClaim, kPV, queue, later, ctrl>>
vars       == <<api, scheduler, controller, faults>>

\* The one type invariant.
TypeOK ==
    /\ claim \in [PVCs -> {"pending", "selected", "bound", "gone"}]
    /\ pv \in [PVCs -> Volumes \cup {NoPV}]
    /\ podInfo \in [Pods -> Infos]
    /\ pod \in [Pods -> {"queued", "reserved", "bound", "completed", "deleted"}]
    /\ rec \in Infos /\ vrec \in Infos
    /\ sBound \subseteq PVCs
    /\ sPV \in [PVCs -> Volumes \cup {NoPV}]
    /\ origin \in [Pods -> Infos]
    /\ mine \in [Pods -> SUBSET PVCs]
    /\ done \in [Pods -> SUBSET {"open-local", "volume-binding"}]
    /\ kInfo \in [Pods -> Infos \cup {NoPod}]
    /\ kClaim \in [PVCs -> {"absent", "unbound", "bound"}]
    /\ kPV \in [PVCs -> Volumes \cup {NoPV}]
    /\ queue \subseteq Pods /\ later \subseteq Pods
    /\ ctrl \in {"up", "crashed", "panicked"}
    /\ faults \in 0..MaxFaults
    /\ openLocalFirst \in BOOLEAN

Available(c) == IF StaticPool[c] = NoPool THEN NoPV
                ELSE [bound |-> FALSE, pool |-> StaticPool[c]]

Init ==
    /\ claim = [c \in PVCs |-> "pending"]
    /\ pv = [c \in PVCs |-> Available(c)]
    /\ podInfo = [p \in Pods |-> NoInfo]
    /\ pod = [p \in Pods |-> "queued"]
    /\ rec = NoInfo
    /\ vrec = StaticPool
    /\ sBound = {}
    /\ sPV = pv
    /\ origin = podInfo
    /\ mine = [p \in Pods |-> {}]
    /\ done = [p \in Pods |-> {}]
    /\ kInfo = podInfo
    /\ kClaim = [c \in PVCs |-> "unbound"]
    /\ kPV = pv
    /\ queue = {} /\ later = {}
    /\ ctrl = "up"
    /\ faults = 0
    /\ openLocalFirst \in BOOLEAN

\* The PV a reader of the API server gets now.
Current(c) == IF claim[c] = "gone" THEN NoPV ELSE pv[c]

PVBound(c) == pv[c] # NoPV /\ pv[c].bound

Fault == faults < MaxFaults /\ faults' = faults + 1

\* A request to the API server that may fail: S is the set that failed.
FaultIf(S) == IF S = {} THEN UNCHANGED faults ELSE Fault

----------------------------------------------------------------------------
(* The scheduling and the binding cycle of a pod *)

\* Claims the listers show unbound and that have no record get a pool; the
\* choice itself is VGLedger's.  The pod object may be older than the API's.
Reserve(p, choice) ==
    /\ pod[p] = "queued"
    /\ mine' = [mine EXCEPT ![p] = {c \in PodPVCs[p] \ sBound : rec[c] = NoPool}]
    /\ rec' = [c \in PVCs |-> IF c \in mine'[p] THEN choice[c] ELSE rec[c]]
    /\ \E copy \in {origin[p], podInfo[p]} : origin' = [origin EXCEPT ![p] = copy]
    /\ pod' = [pod EXCEPT ![p] = "reserved"]
    /\ UNCHANGED <<openLocalFirst, claim, pv, podInfo, vrec, sBound, sPV, done, controller, faults>>

\* VolumeBinding's PreBind (kube-scheduler): selects the node on every claim it
\* believes unbound; the update is refused when the claim has changed since.
SelectNode(p) ==
    /\ pod[p] = "reserved" /\ "volume-binding" \notin done[p]
    /\ openLocalFirst => "open-local" \in done[p]
    /\ \E c \in PodPVCs[p] : claim[c] = "pending"
    /\ \A c \in PodPVCs[p] : claim[c] = "bound" => c \in sBound
    /\ claim' = [c \in PVCs |-> IF c \in PodPVCs[p] /\ claim[c] = "pending"
                                THEN "selected" ELSE claim[c]]
    /\ UNCHANGED <<pv, podInfo, pod, scheduler, controller, faults>>

VolumesBound(p) ==
    /\ pod[p] = "reserved" /\ "volume-binding" \notin done[p]
    /\ openLocalFirst => "open-local" \in done[p]
    /\ PodPVCs[p] \subseteq sBound
    /\ done' = [done EXCEPT ![p] = @ \cup {"volume-binding"}]
    /\ UNCHANGED <<openLocalFirst, api, rec, vrec, sBound, sPV, origin, mine, controller, faults>>

\* MakeAllocateInfo: the claim's record, else the record of the volume the
\* lister's copy of the claim names.
MakeAllocateInfo(c) ==
    IF rec[c] # NoPool THEN rec[c]
    ELSE IF c \in sBound THEN vrec[c] ELSE NoPool

\* patchPVOrAddPVCInfo: the claims whose PV is patched at once, and those whose
\* pool goes to the pod because the PV is not there or its patch failed.
Direct(p) ==
    {c \in PodPVCs[p] : /\ MakeAllocateInfo(c) # NoPool
                        /\ c \in sBound /\ sPV[c] # NoPV /\ sPV[c].pool = NoPool}

ViaPod(p) ==
    {c \in PodPVCs[p] : /\ MakeAllocateInfo(c) # NoPool
                        /\ c \notin sBound \/ sPV[c] = NoPV}

\* Mutant: a PV patch that failed is not handed to the pod.
PodInfosForgets(p, failed) ==
    [c \in PVCs |-> IF c \in ViaPod(p) THEN MakeAllocateInfo(c) ELSE NoPool]

PodInfos(p, failed) ==
    [c \in PVCs |-> IF c \in ViaPod(p) \cup failed THEN MakeAllocateInfo(c) ELSE NoPool]

PatchPV(S, info) ==
    pv' = [c \in PVCs |-> IF c \in S THEN [pv[c] EXCEPT !.pool = info[c]] ELSE pv[c]]

\* PreBind patches PVs, then the pod; nothing is sent for the pod when there
\* is no info or when it equals that of the pod object at hand.
PreBind(p, failed) ==
    LET info == PodInfos(p, failed)
    IN  /\ pod[p] = "reserved" /\ "open-local" \notin done[p]
        /\ ~openLocalFirst => "volume-binding" \in done[p]
        /\ failed \subseteq Direct(p) /\ FaultIf(failed)
        /\ PatchPV(Direct(p) \ failed, [c \in PVCs |-> MakeAllocateInfo(c)])
        /\ podInfo' = [podInfo EXCEPT ![p] =
                         IF info \in {NoInfo, origin[p]} THEN @ ELSE info]
        /\ done' = [done EXCEPT ![p] = @ \cup {"open-local"}]
        /\ UNCHANGED <<openLocalFirst, claim, pod, rec, vrec, sBound, sPV, origin, mine, controller>>

Bind(p) ==
    /\ pod[p] = "reserved" /\ done[p] = {"open-local", "volume-binding"}
    /\ pod' = [pod EXCEPT ![p] = "bound"]
    /\ UNCHANGED <<claim, pv, podInfo, scheduler, controller, faults>>

\* A PreBind, a timeout or the bind request failed: Unreserve drops the records
\* the cycle made and that are still there; the pod keeps its annotation.
FailBinding(p) ==
    /\ pod[p] = "reserved" /\ Fault
    /\ rec' = [c \in PVCs |-> IF c \in mine[p] THEN NoPool ELSE rec[c]]
    /\ mine' = [mine EXCEPT ![p] = {}]
    /\ done' = [done EXCEPT ![p] = {}]
    /\ pod' = [pod EXCEPT ![p] = "queued"]
    /\ UNCHANGED <<openLocalFirst, claim, pv, podInfo, vrec, sBound, sPV, origin, controller>>

\* The scheduler's memory is rebuilt from the listed PVs.
SchedulerRestart ==
    /\ Fault
    /\ rec' = NoInfo
    /\ vrec' = [c \in PVCs |-> IF Current(c) = NoPV THEN NoPool ELSE pv[c].pool]
    /\ sBound' = {c \in PVCs : claim[c] = "bound"}
    /\ sPV' = [c \in PVCs |-> Current(c)]
    /\ origin' = podInfo
    /\ mine' = [p \in Pods |-> {}]
    /\ done' = [p \in Pods |-> {}]
    /\ pod' = [p \in Pods |-> IF pod[p] = "reserved" THEN "queued" ELSE pod[p]]
    /\ UNCHANGED <<openLocalFirst, claim, pv, podInfo, controller>>

----------------------------------------------------------------------------
(* Kubernetes: provisioner, PV controller and users *)

\* A new PV without pool, or the available one, is bound to the claim ...
BindPV(c) ==
    /\ claim[c] = "selected" /\ ~PVBound(c)
    /\ pv' = [pv EXCEPT ![c] = IF pv[c] = NoPV THEN [bound |-> TRUE, pool |-> NoPool]
                               ELSE [bound |-> TRUE, pool |-> pv[c].pool]]
    /\ UNCHANGED <<claim, podInfo, pod, scheduler, controller, faults>>

\* ... and then the claim to the PV.
BindPVC(c) ==
    /\ claim[c] = "selected" /\ PVBound(c)
    /\ claim' = [claim EXCEPT ![c] = "bound"]
    /\ UNCHANGED <<pv, podInfo, pod, scheduler, controller, faults>>

EndPod(p, how) ==
    /\ pod[p] = "bound" \/ (pod[p] = "completed" /\ how = "deleted")
    /\ pod' = [pod EXCEPT ![p] = how]
    /\ UNCHANGED <<claim, pv, podInfo, scheduler, controller, faults>>

\* A claim is protected while a pod that has not ended mounts it; its PV goes
\* with it.
DeleteClaim(c) ==
    /\ claim[c] # "gone"
    /\ \A p \in Pods : c \in PodPVCs[p] => pod[p] \in {"completed", "deleted"}
    /\ claim' = [claim EXCEPT ![c] = "gone"]
    /\ UNCHANGED <<pv, podInfo, pod, scheduler, controller, faults>>

----------------------------------------------------------------------------
(* Informers of the scheduler *)

SeeClaim(c) ==
    /\ (claim[c] = "bound") # (c \in sBound)
    /\ sBound' = IF claim[c] = "bound" THEN sBound \cup {c} ELSE sBound \ {c}
    /\ UNCHANGED <<openLocalFirst, api, rec, vrec, sPV, origin, mine, done, controller, faults>>

\* Mutant: the claim's record is reverted but its pool is not taken over.
SeePVDropsRecord(c) ==
    /\ Current(c) # NoPV /\ sPV[c] # pv[c]
    /\ sPV' = [sPV EXCEPT ![c] = pv[c]]
    /\ vrec' = [vrec EXCEPT ![c] = IF @ = NoPool THEN pv[c].pool ELSE @]
    /\ rec' = [rec EXCEPT ![c] = IF pv[c].bound THEN NoPool ELSE @]
    /\ UNCHANGED <<openLocalFirst, api, sBound, origin, mine, done, controller, faults>>

\* AddOrUpdatePV: a bound PV without pool is charged where its claim was
\* reserved; a volume already charged is not moved, since its size is the same.
SeePV(c) ==
    LET pool == IF pv[c].pool = NoPool /\ pv[c].bound THEN rec[c] ELSE pv[c].pool
    IN  /\ Current(c) # NoPV /\ sPV[c] # pv[c]
        /\ sPV' = [sPV EXCEPT ![c] = pv[c]]
        /\ vrec' = [vrec EXCEPT ![c] = IF @ = NoPool THEN pool ELSE @]
        /\ rec' = [rec EXCEPT ![c] = IF pv[c].bound THEN NoPool ELSE @]
        /\ UNCHANGED <<openLocalFirst, api, sBound, origin, mine, done, controller, faults>>

\* DeletePV: nothing is given back for a PV that names no pool.
SeePVDeleted(c) ==
    /\ Current(c) = NoPV /\ sPV[c] # NoPV
    /\ sPV' = [sPV EXCEPT ![c] = NoPV]
    /\ IF pv[c].pool = NoPool THEN UNCHANGED <<rec, vrec>>
       ELSE /\ vrec' = [vrec EXCEPT ![c] = NoPool]
            /\ rec' = [rec EXCEPT ![c] = NoPool]
    /\ UNCHANGED <<openLocalFirst, api, sBound, origin, mine, done, controller, faults>>

----------------------------------------------------------------------------
(* open-local-controller *)

\* handlePod: an added pod is queued, an updated one when its annotation
\* changed to something not empty.
SeePod(p) ==
    LET new == IF pod[p] = "deleted" THEN NoPod ELSE podInfo[p]
    IN  /\ ctrl = "up" /\ kInfo[p] # new
        /\ kInfo' = [kInfo EXCEPT ![p] = new]
        /\ queue' = IF new \in {NoPod, NoInfo} THEN queue ELSE queue \cup {p}
        /\ UNCHANGED <<api, scheduler, kClaim, kPV, later, ctrl, faults>>

ClaimState(c) == CASE claim[c] = "gone" -> "absent"
                   [] claim[c] = "bound" -> "bound"
                   [] OTHER -> "unbound"

KSeeClaim(c) ==
    /\ ctrl = "up" /\ kClaim[c] # ClaimState(c)
    /\ kClaim' = [kClaim EXCEPT ![c] = ClaimState(c)]
    /\ UNCHANGED <<api, scheduler, kInfo, kPV, queue, later, ctrl, faults>>

KSeePV(c) ==
    /\ ctrl = "up" /\ kPV[c] # Current(c)
    /\ kPV' = [kPV EXCEPT ![c] = Current(c)]
    /\ UNCHANGED <<api, scheduler, kInfo, kClaim, queue, later, ctrl, faults>>

\* The claims an item still has to migrate, as the controller sees them.
Listed(p) == IF kInfo[p] = NoPod THEN {} ELSE {c \in PVCs : kInfo[p][c] # NoPool}

NotReady(p) == {c \in Listed(p) : kClaim[c] # "bound" \/ kPV[c] = NoPV}

\* Mutant: a PV that has a pool is patched again.
ToPatchAlways(p) == Listed(p) \ NotReady(p)

\* patchAllocateInfoToPV skips a PV that has a VG.  A Device PV is looked up by
\* GetVGNameFromCsiPV as well, which is empty, and so is never skipped.
ToPatch(p) ==
    {c \in Listed(p) \ NotReady(p) : kPV[c].pool = NoPool \/ Kind[c] = "Device"}

\* A patch fails when the PV is gone, and may fail otherwise.
Patched(p, failed) == {c \in ToPatch(p) \ failed : Current(c) # NoPV}

\* Mutant: only a failed patch is retried, a claim that is not ready is not.
SyncPVByPodForgets(p, failed) ==
    /\ ctrl = "up" /\ p \in queue
    /\ \A c \in Listed(p) : kClaim[c] # "absent"
    /\ failed \subseteq ToPatch(p) /\ FaultIf(failed)
    /\ PatchPV(Patched(p, failed), kInfo[p])
    /\ queue' = queue \ {p}
    /\ later' = IF Patched(p, failed) = ToPatch(p) THEN later ELSE later \cup {p}
    /\ UNCHANGED <<claim, podInfo, pod, scheduler, kInfo, kClaim, kPV, ctrl>>

\* addVGInfoToPVsForPod: an item with nothing left to migrate ends, and so does
\* that of a pod that is gone; any other is added again.
SyncPVByPod(p, failed) ==
    /\ ctrl = "up" /\ p \in queue
    /\ \A c \in Listed(p) : kClaim[c] # "absent"
    /\ failed \subseteq ToPatch(p) /\ FaultIf(failed)
    /\ PatchPV(Patched(p, failed), kInfo[p])
    /\ queue' = queue \ {p}
    /\ later' = IF NotReady(p) = {} /\ Patched(p, failed) = ToPatch(p)
                THEN later ELSE later \cup {p}
    /\ UNCHANGED <<claim, podInfo, pod, scheduler, kInfo, kClaim, kPV, ctrl>>

\* The claim is not in the lister: the error message dereferences the nil
\* claim.  Claims that the loop met before it have been patched.
SyncPanics(p, before) ==
    /\ ctrl = "up" /\ p \in queue
    /\ \E c \in Listed(p) : kClaim[c] = "absent"
    /\ before \subseteq Patched(p, {})
    /\ PatchPV(before, kInfo[p])
    /\ ctrl' = "panicked"
    /\ UNCHANGED <<claim, podInfo, pod, scheduler, kInfo, kClaim, kPV, queue, later, faults>>

\* AddAfter 500ms.
AddAgain(p) ==
    /\ ctrl = "up" /\ p \in later
    /\ later' = later \ {p}
    /\ queue' = queue \cup {p}
    /\ UNCHANGED <<api, scheduler, kInfo, kClaim, kPV, ctrl, faults>>

Crash ==
    /\ ctrl = "up" /\ Fault
    /\ ctrl' = "crashed"
    /\ UNCHANGED <<api, scheduler, kInfo, kClaim, kPV, queue, later>>

\* Run waits for the node, NLS and snapshot informers only: of the claims, and
\* of their PVs, the listers may hold just those in K when the workers start.
Restart(K) ==
    /\ ctrl # "up"
    /\ ctrl' = "up"
    /\ kInfo' = [p \in Pods |-> IF pod[p] = "deleted" THEN NoPod ELSE podInfo[p]]
    /\ kClaim' = [c \in PVCs |-> IF c \in K THEN ClaimState(c) ELSE "absent"]
    /\ kPV' = [c \in PVCs |-> IF c \in K THEN Current(c) ELSE NoPV]
    /\ queue' = {p \in Pods : pod[p] # "deleted"}
    /\ later' = {}
    /\ UNCHANGED <<api, scheduler, faults>>

----------------------------------------------------------------------------
(* Specifications *)

Binding ==
    \E p \in Pods :
        \/ SelectNode(p) \/ VolumesBound(p) \/ Bind(p)
        \/ \E failed \in SUBSET PVCs : PreBind(p, failed)
        \/ EndPod(p, "completed") \/ EndPod(p, "deleted")

Kubernetes == \E c \in PVCs : BindPV(c) \/ BindPVC(c)

Informers ==
    \/ \E c \in PVCs : SeeClaim(c) \/ SeePV(c) \/ SeePVDeleted(c) \/ KSeeClaim(c) \/ KSeePV(c)
    \/ \E p \in Pods : SeePod(p)

Worker ==
    \E p \in Pods : AddAgain(p) \/ \E failed \in SUBSET PVCs : SyncPVByPod(p, failed)

Next ==
    \/ \E p \in Pods, choice \in [PVCs -> Pools] : Reserve(p, choice)
    \/ \E p \in Pods : FailBinding(p) \/ \E before \in SUBSET PVCs : SyncPanics(p, before)
    \/ \E c \in PVCs : DeleteClaim(c)
    \/ \E K \in SUBSET PVCs : Restart(K)
    \/ Binding \/ Kubernetes \/ Informers \/ Worker \/ Crash \/ SchedulerRestart

Spec == Init /\ [][Next]_vars

(***************************************************************************)
(* The environment in which a choice is never abandoned once it has left   *)
(* the scheduler: a claim is not reserved when a PV has already been bound *)
(* to it, a cycle fails only before its claims or their pools are written  *)
(* and while no other pod relies on its records, the controller starts     *)
(* with synced listers, and a claim is deleted once the controller is done *)
(* with its pods.                                                          *)
(***************************************************************************)
Unused(p, c) ==
    /\ claim[c] = "pending"
    /\ \A q \in Pods : podInfo[q][c] = NoPool
    /\ \A q \in Pods \ {p} : c \in PodPVCs[q] => pod[q] # "reserved"

CleanReserve ==
    \E p \in Pods, choice \in [PVCs -> Pools] :
        /\ \A c \in PodPVCs[p] \ sBound : ~PVBound(c)
        /\ Reserve(p, choice)

CleanFail == \E p \in Pods : (\A c \in mine[p] : Unused(p, c)) /\ FailBinding(p)

CleanDelete ==
    \E c \in PVCs :
        /\ \A p \in Pods : c \in PodPVCs[p] =>
              pod[p] = "deleted" /\ kInfo[p] = NoPod /\ p \notin queue \cup later
        /\ DeleteClaim(c)

CleanNext ==
    \/ CleanReserve \/ CleanFail \/ CleanDelete
    \/ Binding \/ Kubernetes \/ Informers \/ Worker \/ Crash \/ Restart(PVCs)

CleanSpec == Init /\ [][CleanNext]_vars

\* The same, but a binding may fail at any point.
RetrySpec == Init /\ [][CleanNext \/ \E p \in Pods : FailBinding(p)]_vars

\* Informers deliver, workers and the 500ms timer run, a crashed controller is
\* restarted.
FairCleanSpec ==
    /\ CleanSpec
    /\ WF_vars(Restart(PVCs))
    /\ \A p \in Pods : WF_vars(SeePod(p)) /\ WF_vars(AddAgain(p))
    /\ \A c \in PVCs : WF_vars(KSeeClaim(c)) /\ WF_vars(KSeePV(c))
    /\ \A p \in Pods : WF_vars(\E failed \in SUBSET PVCs : SyncPVByPod(p, failed))

----------------------------------------------------------------------------
(* Properties *)

Unplaced(c) == claim[c] # "gone" /\ (pv[c] = NoPV \/ pv[c].pool = NoPool)

\* The controller never forgets a migration: while a pod it knows of lists a
\* pool for a claim whose PV has none, or is not there yet, the pod's item is
\* queued or waits to be.
MigrationsQueued ==
    ctrl = "up" => \A p \in Pods : \A c \in Listed(p) :
        Unplaced(c) => p \in queue \cup later

\* Once the scheduler has seen the pool of a PV, that is the pool it charges:
\* the volume is created where the ledger counted it.
ChargedWherePlaced ==
    \A c \in PVCs : sPV[c] # NoPV /\ sPV[c].pool # NoPool => vrec[c] = sPV[c].pool

Charged(c) == rec[c] # NoPool \/ vrec[c] # NoPool

\* The volume of a bound claim is charged to some pool.
BoundStaysCharged == \A c \in PVCs : claim[c] = "bound" => Charged(c)

\* A PV that has an allocation keeps it ("must skip if exist").
AllocationKept ==
    [][\A c \in PVCs : pv[c] # NoPV /\ pv[c].pool # NoPool
                       => pv'[c].pool = pv[c].pool]_vars

\* Every volume of a pod that stays bound gets its pool, across lagging
\* informers, failed patches and controller restarts.
BoundPodMigrates ==
    \A p \in Pods : \A c \in PodPVCs[p] :
        pod[p] = "bound" ~> pod[p] # "bound" \/ (pv[c] # NoPV /\ pv[c].pool # NoPool)

(***************************************************************************)
(* What makes MigrationsQueued inductive: the controller skips a PV on the *)
(* strength of its lister, so a pool seen there must still be on the PV.   *)
(***************************************************************************)
ViewsBehind ==
    \A c \in PVCs :
        /\ sPV[c] # NoPV => pv[c] # NoPV
        /\ kPV[c] # NoPV /\ kPV[c].pool # NoPool => pv[c] # NoPV /\ pv[c].pool # NoPool

MigrateInv == TypeOK /\ ViewsBehind /\ MigrationsQueued

(***************************************************************************)
(* What makes BoundStaysCharged inductive in the clean environment: a      *)
(* claim is charged from its reservation on.                               *)
(***************************************************************************)
BoundHasPV ==
    \A c \in PVCs : /\ claim[c] = "bound" => pv[c] # NoPV
                    /\ c \in sBound => pv[c] # NoPV /\ claim[c] \in {"bound", "gone"}

StillCharged ==
    \A c \in PVCs :
        /\ claim[c] \in {"selected", "bound"} => Charged(c)
        /\ claim[c] # "gone" => \A p \in Pods : c \in PodPVCs[p] /\ pod[p] = "reserved" => Charged(c)

ChargeInv == BoundHasPV /\ StillCharged

(***************************************************************************)
(* What makes ChargedWherePlaced and AllocationKept inductive there, when  *)
(* no available PV is a device: a PV that was there first keeps its pool,  *)
(* and for any other claim one choice is left, wherever it is recorded.    *)
(***************************************************************************)
Dynamic(c) == StaticPool[c] = NoPool

NoStaticDevice == \A c \in PVCs : Kind[c] = "LVM" \/ Dynamic(c)

StaticStays ==
    \A c \in PVCs : ~Dynamic(c) =>
        /\ pv[c] # NoPV /\ pv[c].pool = StaticPool[c]
        /\ kPV[c] # NoPV => kPV[c].pool = StaticPool[c]
        /\ sPV[c] # NoPV => sPV[c].pool = StaticPool[c] /\ vrec[c] = StaticPool[c]
        /\ vrec[c] \in {StaticPool[c], NoPool}

\* The pool pod p lists for claim c, and the one the controller sees there.
SeenInfo(p, c) == IF kInfo[p] = NoPod THEN NoPool ELSE kInfo[p][c]

\* Before its PV exists, what the pods list is the record of the scheduler.
ListedIsReserved ==
    \A c \in PVCs :
        /\ Dynamic(c) /\ pv[c] = NoPV => vrec[c] = NoPool
        /\ \A p \in Pods :
              /\ podInfo[p][c] # NoPool => c \in PodPVCs[p]
              /\ Dynamic(c) /\ pv[c] = NoPV =>
                    /\ podInfo[p][c] # NoPool => rec[c] = podInfo[p][c]
                    /\ SeenInfo(p, c) # NoPool => podInfo[p][c] = SeenInfo(p, c)

\* Pool g, or none yet, wherever the choice for claim c is kept.
Agrees(c, g) ==
    /\ rec[c] \in {g, NoPool} /\ vrec[c] \in {g, NoPool}
    /\ \A p \in Pods : podInfo[p][c] \in {g, NoPool} /\ SeenInfo(p, c) \in {g, NoPool}
    /\ pv[c] # NoPV => pv[c].bound /\ pv[c].pool \in {g, NoPool}
    /\ sPV[c] # NoPV => sPV[c].pool \in {g, NoPool}

OneChoice == \A c \in PVCs : Dynamic(c) => \E g \in Pools \cup {NoPool} : Agrees(c, g)

PlaceInv == StaticStays /\ ListedIsReserved /\ OneChoice /\ ChargedWherePlaced
=============================================================================
