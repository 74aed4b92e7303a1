--------------------------- MODULE ExtenderCache ----------------------------
(***************************************************************************)
(* The scheduler extender (pkg/scheduler): its node caches, the table of   *)
(* answered claims (BindingInfo), the pod-to-claim mapping, the informer   *)
(* handlers that maintain them and the two requests it serves: the filter  *)
(* of kube-scheduler and SchedulingPVC, which the CSI controller asks      *)
(* where to create a volume.  Every handler and SchedulingPVC run under    *)
(* CtxLock, so each is one action.                                         *)
(*                                                                         *)
(* Around it stand the API objects the handlers read (pods, claims,        *)
(* volumes, NodeLocalStorages) and the CSI controller's CreateVolume,      *)
(* which reads the selected node, asks, and creates the volume: two steps  *)
(* between which anything may happen.  PV and NLS events reach the         *)
(* extender late; a volume or NLS does not change twice before its event   *)
(* is handled, unless a fault says otherwise.                              *)
(***************************************************************************)
EXTENDS ExtenderAlgo

CONSTANTS
    Nodes, Pods,
    Batches,       \* bound: the sets of pods that are created together
    PodClaims,     \* pod -> the sequence of claims it mounts
    InlineVG,      \* pod -> volume group of its inline volume, or None
    InlineSize,
    SpdkNodes, SpdkPods,
    FirstCap, MaxCap, \* capacity of each volume group: reported first, and bound
    FirstDisks,    \* the disks that are reported first
    MaxDisturbances, \* bound on NLS changes, restarts and selected-node removals
    Faults         \* what the environment does beyond the orderly

\* restart: the extender restarts while answers are not yet volumes;
\* early: it answers, and volumes are bound, before it has seen what exists;
\* relist: a volume is first seen when it is bound already;
\* abandon: a claim that was answered is deleted before it has a volume;
\* recreate: the name of a deleted claim is used again;
\* inline: a running pod is seen before the NodeLocalStorage of its node;
\* late: the deletion of a claim is seen before that of the pod that used it;
\* reselect: the node of a claim is taken back when its pod was answered or a volume
\* of it is under way, or the pod is answered before the extender has noticed.
ASSUME FaultAssumption ==
    Faults \subseteq {"restart", "early", "relist", "abandon", "recreate", "inline",
                     "late", "reselect"}

ASSUME PodAssumption == /\ PodClaims \in [Pods -> Seq(Claims)]
                        /\ InlineVG \in [Pods -> VGs \cup {None}]
                        /\ InlineSize \in [Pods -> Sizes]
                        /\ IsFiniteSet(Pods)

ASSUME StatusAssumption == /\ FirstDisks \subseteq Disks
                           /\ FirstCap \in [VGs -> Nat] /\ MaxCap \in [VGs -> Nat]

\* A pod mounts a claim once, and the pods of a batch have claims of their own:
\* the mapping from a claim to its pod (PvcPod) has room for one.
ASSUME BatchAssumption ==
    /\ Batches \subseteq SUBSET Pods
    /\ \A p \in Pods : IsInjective(PodClaims[p])
    /\ \A b \in Batches : \A p, q \in b :
          p # q => Range(PodClaims[p]) \cap Range(PodClaims[q]) = {}

VARIABLES
    pod, podNode,      \* phase and spec.nodeName of each pod
    claim, selected,   \* phase and selected-node annotation of each claim
    pv,                \* the volume of each claim, or None
    nls,               \* the status of each NodeLocalStorage
    answer,            \* a CreateVolume under way: target node and place, or None
    used,              \* the claim names used so far
    batch,             \* the pods of this behaviour
    cache, binding, info, pvcPod, \* the extender's state
    seenPod, seenPV, seenNLS,     \* what its informers have delivered
    disturbances

api      == <<pod, podNode, claim, selected, pv, nls, answer, used, batch>>
extender == <<cache, binding, info, pvcPod>>
seen     == <<seenPod, seenPV, seenNLS>>
vars     == <<api, extender, seen, disturbances>>

Mounts(p)     == Range(PodClaims[p])
HasVolumes(p) == Mounts(p) # {} \/ InlineVG[p] # None

Volumes  == [phase : {"pending", "bound"}, node : Nodes, where : VGs \cup Disks,
             size : Sizes]
Statuses == [cap : [VGs -> Nat], disks : SUBSET Disks]
Places   == [claim : Claims, node : Nodes, where : VGs \cup Disks]
Answers  == [target : Nodes, unit : Places]

ASSUME NoneAssumption == /\ None \notin Nodes \cup Pods
                         /\ None \notin Volumes \cup Places
                         /\ None \notin Statuses \cup Answers

NewNodeCache ==
    [known |-> FALSE, vgs |-> {}, cap |-> [v \in VGs |-> 0], req |-> [v \in VGs |-> 0],
     disks |-> {}, held |-> {}, localPVs |-> [c \in Claims |-> None],
     records |-> [c \in Claims |-> None], inline |-> [p \in Pods |-> "none"]]

Init ==
    /\ pod = [p \in Pods |-> "absent"]
    /\ podNode = [p \in Pods |-> None]
    /\ claim = [c \in Claims |-> "absent"]
    /\ selected = [c \in Claims |-> None]
    /\ pv = [c \in Claims |-> None]
    /\ nls = [n \in Nodes |-> [cap |-> FirstCap, disks |-> FirstDisks]]
    /\ answer = [c \in Claims |-> None]
    /\ used = {}
    /\ batch \in Batches
    /\ cache = [n \in Nodes |-> NewNodeCache]
    /\ binding = [c \in Claims |-> None]
    /\ info = [p \in Pods |-> None]
    /\ pvcPod = [c \in Claims |-> None]
    /\ seenPod = {}
    /\ seenPV = [c \in Claims |-> None]
    /\ seenNLS = [n \in Nodes |-> None]
    /\ disturbances = 0

----------------------------------------------------------------------------
(* NodeCache *)

\* The node cache an event handler works on; a missing one is created.
Got(n) == [cache[n] EXCEPT !.known = TRUE]

SizeOn(nc, v) ==
    Total([c \in Claims |-> IF nc.localPVs[c] # None /\ nc.localPVs[c].where = v
                            THEN nc.localPVs[c].size ELSE 0])

NewNodeCacheFromStorage(st) ==
    [NewNodeCache EXCEPT !.known = TRUE, !.vgs = VGs, !.cap = st.cap, !.disks = st.disks]

\* The inline volumes whose pod was seen before their volume group.  The loop
\* marks a copy of the entry, so it finds the same ones at the next update.
Unrecorded(nc, v) ==
    Total([p \in Pods |-> IF nc.inline[p] = "unrecorded" /\ InlineVG[p] = v
                          THEN InlineSize[p] ELSE 0])

\* A volume group that appears is charged for the volumes known on it.
UpdateVGs(nc, st) ==
    [nc EXCEPT
       !.vgs = VGs,
       !.cap = st.cap,
       !.req = [v \in VGs |-> (IF v \in nc.vgs THEN nc.req[v] ELSE SizeOn(nc, v))
                              + Unrecorded(nc, v)]]

IsLocalPVExist(nc, d) == \E c \in Claims : nc.localPVs[c] # None /\ nc.localPVs[c].where = d

\* A disk that appears is held if a known volume is on it; one that is held
\* stays when it is no longer reported.
UpdateDisks(nc, st) ==
    [nc EXCEPT
       !.held = @ \cup {d \in st.disks \ nc.disks : IsLocalPVExist(nc, d)},
       !.disks = st.disks \cup (nc.disks \cap nc.held)]

UpdateNodeInfo(nc, st) == UpdateDisks(UpdateVGs(nc, st), st)

Charge(nc, v, size) == IF v \in nc.vgs THEN [nc EXCEPT !.req[v] = @ + size] ELSE nc

AddLVM(nc, c, vol) == [Charge(nc, vol.where, vol.size) EXCEPT !.localPVs[c] = vol]

IsPVAllocated(nc, c) == nc.localPVs[c] # None \/ nc.records[c] # None

\* Mutant: the first update of a volume is taken for a new charge.
UpdateLVMAlways(nc, c, old, vol) ==
    [Charge(nc, vol.where, IF nc.localPVs[c] # None THEN vol.size - old.size ELSE vol.size)
        EXCEPT !.localPVs[c] = vol]

UpdateLVM(nc, c, old, vol) ==
    [Charge(nc, vol.where, IF IsPVAllocated(nc, c) THEN vol.size - old.size ELSE vol.size)
        EXCEPT !.localPVs[c] = vol]

RemoveLVM(nc, c, vol) == [Charge(nc, vol.where, 0 - vol.size) EXCEPT !.localPVs[c] = None]

AddLocalMountPoint(nc, c, vol) ==
    [nc EXCEPT !.held = @ \cup ({vol.where} \cap nc.disks), !.localPVs[c] = vol]
AddLocalDevice(nc, c, vol) ==
    [nc EXCEPT !.held = @ \cup ({vol.where} \cap nc.disks), !.localPVs[c] = vol]

RemoveLocalMountPoint(nc, c, vol) ==
    [nc EXCEPT !.held = @ \ {vol.where}, !.localPVs[c] = None]
RemoveLocalDevice(nc, c, vol) ==
    [nc EXCEPT !.held = @ \ {vol.where}, !.localPVs[c] = None]

AddDisk(nc, c, vol) ==
    IF Kind[c] = "Device" THEN AddLocalDevice(nc, c, vol) ELSE AddLocalMountPoint(nc, c, vol)
RemoveDisk(nc, c, vol) ==
    IF Kind[c] = "Device" THEN RemoveLocalDevice(nc, c, vol)
    ELSE RemoveLocalMountPoint(nc, c, vol)

\* A pod's inline volume is charged once, when the pod runs on the node.
AddPodInlineVolumeInfo(nc, p, n) ==
    IF InlineVG[p] = None \/ pod[p] # "running" \/ podNode[p] # n \/ nc.inline[p] # "none"
    THEN nc
    ELSE [Charge(nc, InlineVG[p], InlineSize[p]) EXCEPT
            !.inline[p] = IF InlineVG[p] \in nc.vgs THEN "recorded" ELSE "unrecorded"]

\* Mutant: the entry goes, the charge stays.
DeletePodInlineKeeps(nc, p) == [nc EXCEPT !.inline[p] = "none"]

DeletePodInlineVolumeInfo(nc, p) ==
    IF nc.inline[p] = "none" THEN nc
    ELSE [Charge(nc, InlineVG[p], 0 - InlineSize[p]) EXCEPT !.inline[p] = "none"]

----------------------------------------------------------------------------
(* Informer handlers *)

OnNodeLocalStorage(n) ==
    /\ seenNLS[n] # nls[n]
    /\ seenNLS' = [seenNLS EXCEPT ![n] = nls[n]]
    /\ cache' = [cache EXCEPT ![n] = IF @.known THEN UpdateNodeInfo(@, nls[n])
                                     ELSE NewNodeCacheFromStorage(nls[n])]
    /\ UNCHANGED <<api, binding, info, pvcPod, seenPod, seenPV, disturbances>>

SeePV(c) == seenPV' = [seenPV EXCEPT ![c] = pv[c]]
PVHandled == UNCHANGED <<api, info, pvcPod, seenPod, seenNLS, disturbances>>

\* onPVAdd: a pending volume is skipped, any other one is charged.
OnPVAdd(c) ==
    /\ pv[c] # None /\ seenPV[c] = None
    /\ SeePV(c)
    /\ IF pv[c].phase = "pending" THEN UNCHANGED <<cache, binding>>
       ELSE LET n == pv[c].node
            IN  /\ cache' = [cache EXCEPT ![n] = IF Kind[c] = "LVM" THEN AddLVM(Got(n), c, pv[c])
                                                 ELSE AddDisk(Got(n), c, pv[c])]
                /\ binding' = [binding EXCEPT ![c] = Unit(c, n, pv[c].where)]
    /\ PVHandled

\* onPVUpdate: nothing happens while the volume is pending or its node unknown.
OnPVUpdate(c) ==
    /\ pv[c] # None /\ seenPV[c] # None /\ pv[c] # seenPV[c]
    /\ SeePV(c)
    /\ LET n == pv[c].node
       IN  IF pv[c].phase = "pending" \/ ~cache[n].known THEN UNCHANGED cache
           ELSE cache' = [cache EXCEPT ![n] =
                            IF Kind[c] = "LVM" THEN UpdateLVM(@, c, seenPV[c], pv[c])
                            ELSE AddDisk(@, c, pv[c])]
    /\ UNCHANGED binding
    /\ PVHandled

\* onPVDelete: the record of the claim in PVCRecordsByExtend stays.
OnPVDelete(c) ==
    /\ pv[c] = None /\ seenPV[c] # None
    /\ SeePV(c)
    /\ LET vol == seenPV[c]
       IN  IF ~cache[vol.node].known THEN UNCHANGED <<cache, binding>>
           ELSE /\ cache' = [cache EXCEPT ![vol.node] = IF Kind[c] = "LVM" THEN RemoveLVM(@, c, vol)
                                                        ELSE RemoveDisk(@, c, vol)]
                /\ binding' = [binding EXCEPT ![c] = None]
    /\ PVHandled

PutPod(p) ==
    /\ info' = [info EXCEPT ![p] = IF Mounts(p) = {} THEN @
                                   ELSE {c \in Mounts(p) : selected[c] = None}]
    /\ pvcPod' = [c \in Claims |-> IF c \in Mounts(p) THEN p ELSE pvcPod[c]]

ForgetPod(p) ==
    /\ info' = [info EXCEPT ![p] = None]
    /\ pvcPod' = [c \in Claims |-> IF c \in Mounts(p) THEN None ELSE pvcPod[c]]

PutPvc(c) ==
    LET p == pvcPod[c]
    IN  /\ info[p] # None
        /\ info' = [info EXCEPT ![p] = IF selected[c] = None THEN @ \cup {c} ELSE @ \ {c}]

Listed(p)  == \A c \in Mounts(p) : claim[c] # "absent"
PodHandled == UNCHANGED <<api, binding, seenPV, seenNLS, disturbances>>

\* The node cache of a scheduled pod is created when missing; that of an
\* unscheduled one has no name and is dropped.
WithInline(p) ==
    IF podNode[p] = None THEN UNCHANGED cache
    ELSE cache' = [cache EXCEPT ![podNode[p]] =
                     AddPodInlineVolumeInfo(Got(podNode[p]), p, podNode[p])]

InlineInOrder(p) ==
    "inline" \notin Faults /\ InlineVG[p] # None /\ podNode[p] # None
        => InlineVG[p] \in cache[podNode[p]].vgs

\* onPodAdd: gives up when a claim of the pod is not in the lister.
OnPodAdd(p) ==
    /\ pod[p] \in {"pending", "running"} /\ p \notin seenPod /\ InlineInOrder(p)
    /\ seenPod' = seenPod \cup {p}
    /\ IF Listed(p) /\ HasVolumes(p) THEN PutPod(p) /\ WithInline(p)
       ELSE UNCHANGED <<cache, info, pvcPod>>
    /\ PodHandled

\* onPodUpdate: returns before the inline volumes when a claim is bound.
OnPodUpdate(p) ==
    /\ pod[p] \in {"pending", "running"} /\ p \in seenPod /\ InlineInOrder(p)
    /\ Listed(p) /\ HasVolumes(p)
    /\ PutPod(p)
    /\ IF \A c \in Mounts(p) : claim[c] = "pending" THEN WithInline(p) ELSE UNCHANGED cache
    /\ UNCHANGED seenPod
    /\ PodHandled

\* onPodDelete
OnPodDelete(p) ==
    /\ pod[p] = "gone"
    /\ pod' = [pod EXCEPT ![p] = "absent"]
    /\ podNode' = [podNode EXCEPT ![p] = None]
    /\ seenPod' = seenPod \ {p}
    /\ IF p \in seenPod /\ Listed(p) /\ HasVolumes(p)
       THEN /\ ForgetPod(p)
            /\ IF podNode[p] = None THEN UNCHANGED cache
               ELSE cache' = [cache EXCEPT ![podNode[p]] =
                                DeletePodInlineVolumeInfo(Got(podNode[p]), p)]
       ELSE UNCHANGED <<cache, info, pvcPod>>
    /\ UNCHANGED <<claim, selected, pv, nls, answer, used, batch, binding, seenPV, seenNLS, disturbances>>

\* onPvcAdd, onPvcUpdate
OnPvcUpdate(c) ==
    /\ claim[c] # "absent" /\ pvcPod[c] # None
    /\ PutPvc(c)
    /\ UNCHANGED <<api, cache, binding, pvcPod, seen, disturbances>>

----------------------------------------------------------------------------
(* The filter and SchedulingPVC *)

\* GetPodPvcs without the bound claims.
Unbound(p) == {c \in Mounts(p) : claim[c] # "bound"}

\* A node serves SPDK to the pods that ask for it and to no other.
StorageTypePredicate(p, n) == (n \in SpdkNodes) = (p \in SpdkPods)

HandleInlineLVMVolume(p, n) ==
    InlineVG[p] # None =>
        /\ InlineVG[p] \in cache[n].vgs
        /\ cache[n].cap[InlineVG[p]] - cache[n].req[InlineVG[p]] >= InlineSize[p]

\* Predicates; the inline volume and the claims are looked at separately.
Fits(p, n) ==
    /\ StorageTypePredicate(p, n)
    /\ HandleInlineLVMVolume(p, n)
    /\ CapacityPredicate(cache[n], PodClaims[p], Unbound(p))

\* Predicate.Handler: a node without a cache fails the pod on every node.
Filter(p) == IF \E n \in Nodes : ~cache[n].known THEN {} ELSE {n \in Nodes : Fits(p, n)}

\* The NodeLocalStorages and the volumes there were before a restart have all
\* been seen again.
Synced ==
    "early" \notin Faults =>
        /\ \A n \in Nodes : seenNLS[n] # None
        /\ \A c \in Claims : pv[c] # None /\ pv[c].phase = "bound" => seenPV[c] # None

\* kube-scheduler: a node for a pending pod, written to its unbound claims.
Schedule(p) ==
    /\ pod[p] = "pending" /\ podNode[p] = None /\ Listed(p) /\ Mounts(p) # {} /\ Synced
    /\ \E c \in Mounts(p) : claim[c] = "pending"
    /\ \A c \in Mounts(p) : claim[c] = "pending" => selected[c] = None
    /\ \E n \in Filter(p) :
         /\ \A c \in Mounts(p) : claim[c] = "bound" => pv[c].node = n
         /\ selected' = [c \in Claims |-> IF c \in Mounts(p) /\ claim[c] = "pending" THEN n
                                          ELSE selected[c]]
    /\ UNCHANGED <<pod, podNode, claim, pv, nls, answer, used, batch, extender, seen, disturbances>>

\* The claim is asked about unless its storage class names the volume group.
Asks(c) == ~(Kind[c] = "LVM" /\ VGParam[c] # None)

\* CreateVolume of an extender volume that is not there yet.
CreateVolume(c) ==
    /\ claim[c] = "pending" /\ selected[c] # None
    /\ pv[c] = None /\ seenPV[c] = None /\ answer[c] = None

Answered(c, u) == answer' = [answer EXCEPT ![c] = [target |-> selected[c], unit |-> u]]

\* A claim that was answered before gets the same answer.
SchedulingPVCAgain(c) ==
    /\ CreateVolume(c) /\ Asks(c)
    /\ binding[c] # None
    /\ Answered(c, binding[c])
    /\ UNCHANGED <<pod, podNode, claim, selected, pv, nls, used, batch, extender, seen, disturbances>>

\* Every claim of the pod of c has a node, as far as the mapping knows.
IsPodPvcReady(c) == pvcPod[c] # None => info[pvcPod[c]] \in {None, {}}

\* GetPodUnboundPvcs finds the pod of c and its claims.
PodKnown(c) == /\ pvcPod[c] # None
               /\ pod[pvcPod[c]] \in {"pending", "running"} /\ Listed(pvcPod[c])

\* Otherwise the unbound claims of its pod are placed together, once all of
\* them have a node.  Fewer units than claims is no answer and no error.
SchedulingPVC(c) ==
    /\ CreateVolume(c) /\ Asks(c) /\ Synced
    /\ binding[c] = None
    /\ IsPodPvcReady(c) /\ PodKnown(c)
    /\ LET n == selected[c]
           S == Unbound(pvcPod[c])
       IN  /\ cache[n].known
           /\ "reselect" \notin Faults => \A d \in S : selected[d] = n
           /\ \E units \in AllocatedUnits(cache[n], n, PodClaims[pvcPod[c]], S) :
                LET r == Assume(cache[n], units)
                IN  /\ cache' = [cache EXCEPT ![n] = r.nc]
                    /\ IF ~r.err
                       THEN /\ binding' = [d \in Claims |->
                                  IF d \in S THEN CHOOSE u \in Range(units) : u.claim = d
                                  ELSE binding[d]]
                            /\ Answered(c, binding'[c])
                       ELSE UNCHANGED <<binding, answer>>
    /\ UNCHANGED <<pod, podNode, claim, selected, pv, nls, used, batch, info, pvcPod, seen, disturbances>>

\* The storage class names the volume group: no request is made.
CreateVolumeNamed(c) ==
    /\ CreateVolume(c) /\ ~Asks(c)
    /\ Answered(c, Unit(c, selected[c], VGParam[c]))
    /\ UNCHANGED <<pod, podNode, claim, selected, pv, nls, used, batch, extender, seen, disturbances>>

----------------------------------------------------------------------------
(* The rest of the cluster *)

UsedOn(n, v) ==
    Total([c \in Claims |-> IF pv[c] # None /\ pv[c].node = n /\ pv[c].where = v
                            THEN pv[c].size ELSE 0])

Inline(n, v) ==
    Total([p \in Pods |-> IF podNode[p] = n /\ InlineVG[p] = v /\ pod[p] = "running"
                          THEN InlineSize[p] ELSE 0])

Room(n, v, size) == UsedOn(n, v) + Inline(n, v) + size <= nls[n].cap[v]

\* lvcreate succeeds if there is room; a disk is taken as answered.  The event
\* of the pending volume, which onPVAdd skips, is not delayed.
VolumeCreated(c) ==
    /\ answer[c] # None
    /\ LET n == answer[c].target
           w == answer[c].unit.where
       IN  /\ Kind[c] = "LVM" => Room(n, w, Size[c])
           /\ pv' = [pv EXCEPT ![c] = [phase |-> "pending", node |-> n, where |-> w,
                                       size |-> Size[c]]]
    /\ answer' = [answer EXCEPT ![c] = None]
    /\ seenPV' = IF "relist" \in Faults THEN seenPV ELSE [seenPV EXCEPT ![c] = pv'[c]]
    /\ UNCHANGED <<pod, podNode, claim, selected, nls, used, batch, extender, seenPod,
                   seenNLS, disturbances>>

\* The node cannot be reached, lvcreate fails, or the reply is lost: retried.
VolumeFailed(c) ==
    /\ answer[c] # None
    /\ answer' = [answer EXCEPT ![c] = None]
    /\ UNCHANGED <<pod, podNode, claim, selected, pv, nls, used, batch, extender, seen, disturbances>>

BindPV(c) ==
    /\ pv[c] # None /\ pv[c].phase = "pending" /\ claim[c] = "pending"
    /\ Synced
    /\ pv' = [pv EXCEPT ![c].phase = "bound"]
    /\ claim' = [claim EXCEPT ![c] = "bound"]
    /\ UNCHANGED <<pod, podNode, selected, nls, answer, used, batch, extender, seen, disturbances>>

ExpandPV(c) ==
    /\ pv[c] # None /\ pv[c].phase = "bound" /\ seenPV[c] = pv[c] /\ Kind[c] = "LVM"
    /\ pv[c].size < MaxSize /\ Room(pv[c].node, pv[c].where, 1)
    /\ pv' = [pv EXCEPT ![c].size = @ + 1]
    /\ UNCHANGED <<pod, podNode, claim, selected, nls, answer, used, batch, extender, seen, disturbances>>

DeleteClaim(c) ==
    /\ \/ claim[c] = "bound" /\ pv[c].phase = "bound" /\ seenPV[c] = pv[c]
       \/ /\ claim[c] = "pending" /\ pv[c] = None /\ answer[c] = None
          /\ "abandon" \notin Faults => binding[c] = None
    /\ \A p \in Pods : 
         c \in Mounts(p) => pod[p] \in {"absent"} \cup (IF "late" \in Faults THEN {"gone"} ELSE {})
    /\ claim' = [claim EXCEPT ![c] = "absent"]
    /\ selected' = [selected EXCEPT ![c] = None]
    /\ pv' = [pv EXCEPT ![c] = None]
    /\ pvcPod' = [pvcPod EXCEPT ![c] = None]   \* onPvcDelete
    /\ UNCHANGED <<pod, podNode, nls, answer, used, batch, cache, binding, info, seen, disturbances>>

CreatePod(p) ==
    /\ p \in batch /\ pod[p] = "absent"
    /\ \A c \in Mounts(p) : claim[c] = "absent" => "recreate" \in Faults \/ c \notin used
    /\ pod' = [pod EXCEPT ![p] = "pending"]
    /\ claim' = [c \in Claims |-> IF c \in Mounts(p) /\ claim[c] = "absent" THEN "pending"
                                  ELSE claim[c]]
    /\ used' = used \cup Mounts(p)
    /\ UNCHANGED <<podNode, selected, pv, nls, answer, batch, extender, seen, disturbances>>

\* The pod runs once its claims are bound; one without claims where it fits.
RunPod(p) ==
    /\ pod[p] = "pending" /\ Listed(p)
    /\ \A c \in Mounts(p) : claim[c] = "bound"
    /\ \E n \in IF Mounts(p) = {} THEN Filter(p) ELSE {pv[c].node : c \in Mounts(p)} :
         /\ InlineVG[p] # None => Room(n, InlineVG[p], InlineSize[p])
         /\ podNode' = [podNode EXCEPT ![p] = n]
    /\ pod' = [pod EXCEPT ![p] = "running"]
    /\ UNCHANGED <<claim, selected, pv, nls, answer, used, batch, extender, seen, disturbances>>

DeletePod(p) ==
    /\ pod[p] \in {"pending", "running"}
    /\ pod' = [pod EXCEPT ![p] = "gone"]
    /\ UNCHANGED <<podNode, claim, selected, pv, nls, answer, used, batch, extender, seen, disturbances>>

Disturbance ==
    /\ disturbances < MaxDisturbances
    /\ disturbances' = disturbances + 1

\* PodPvcAllowReschedule; that five minutes have passed is left open.
PodPvcAllowReschedule(p) ==
    pod[p] = "pending" /\ podNode[p] = None /\ \A d \in Mounts(p) : claim[d] = "pending"

\* onPodUpdate's goroutine takes the selected node of a claim away.
RemoveSelectedNode(c) ==
    /\ Disturbance
    /\ selected[c] # None /\ claim[c] = "pending"
    /\ \E p \in seenPod :
          /\ c \in Mounts(p) /\ PodPvcAllowReschedule(p)
          /\ "reselect" \notin Faults =>
                \A d \in Mounts(p) : binding[d] = None /\ answer[d] = None /\ pv[d] = None
    /\ selected' = [selected EXCEPT ![c] = None]
    /\ UNCHANGED <<pod, podNode, claim, pv, nls, answer, used, batch, extender, seen>>

\* A volume group is extended, a free disk comes or goes.
ChangeNLS(n) ==
    /\ seenNLS[n] = nls[n] /\ Disturbance
    /\ \/ \E v \in VGs : /\ nls[n].cap[v] < MaxCap[v]
                         /\ nls' = [nls EXCEPT ![n].cap[v] = @ + 1]
       \/ \E d \in nls[n].disks : nls' = [nls EXCEPT ![n].disks = @ \ {d}]
       \/ \E d \in Disks \ nls[n].disks : nls' = [nls EXCEPT ![n].disks = @ \cup {d}]
    /\ UNCHANGED <<pod, podNode, claim, selected, pv, answer, used, batch, extender, seen>>

Restart ==
    /\ Disturbance
    /\ \/ "restart" \in Faults
       \/ \A c \in Claims :
             /\ binding[c] # None => pv[c] # None
             /\ pv[c] # None => pv[c].phase = "bound"
             /\ answer[c] = None
    /\ cache' = [n \in Nodes |-> NewNodeCache]
    /\ binding' = [c \in Claims |-> None]
    /\ info' = [p \in Pods |-> None]
    /\ pvcPod' = [c \in Claims |-> None]
    /\ seenPod' = {}
    /\ seenPV' = [c \in Claims |-> None]
    /\ seenNLS' = [n \in Nodes |-> None]
    /\ UNCHANGED api

NextClaim(c) ==
    \/ OnPVAdd(c) \/ OnPVUpdate(c) \/ OnPVDelete(c) \/ OnPvcUpdate(c)
    \/ SchedulingPVC(c) \/ SchedulingPVCAgain(c) \/ CreateVolumeNamed(c)
    \/ VolumeCreated(c) \/ VolumeFailed(c) \/ BindPV(c) \/ ExpandPV(c)
    \/ DeleteClaim(c) \/ RemoveSelectedNode(c)

NextPod(p) ==
    \/ CreatePod(p) \/ OnPodAdd(p) \/ OnPodUpdate(p) \/ OnPodDelete(p)
    \/ Schedule(p) \/ RunPod(p) \/ DeletePod(p)

Next ==
    \/ \E c \in Claims : NextClaim(c)
    \/ \E p \in Pods : NextPod(p)
    \/ \E n \in Nodes : OnNodeLocalStorage(n) \/ ChangeNLS(n)
    \/ Restart

Spec == Init /\ [][Next]_vars

----------------------------------------------------------------------------
(* Properties *)

\* What claim c takes in v on n: the size of its volume once the node cache
\* knows it, before that the size it was promised.
Takes(n, v, c) ==
    LET nc == cache[n]
    IN  IF nc.localPVs[c] # None
        THEN IF nc.localPVs[c].where = v THEN nc.localPVs[c].size ELSE 0
        ELSE IF binding[c] = Unit(c, n, v) /\ nc.records[c] = binding[c] THEN Size[c] ELSE 0

\* All that is owed in v on n, the inline volumes of running pods included.
Owed(n, v) ==
    Total([c \in Claims |-> Takes(n, v, c)])
    + Total([p \in Pods |-> IF cache[n].inline[p] # "none" /\ InlineVG[p] = v
                            THEN InlineSize[p] ELSE 0])

\* Requested is exactly what is owed: no order of the events of volumes and pods,
\* of answers, expansions and restarts, and of NodeLocalStorage events that bring
\* groups or change their capacity charges anything twice or loses a charge
\* (AddLVM, UpdateLVM, RemoveLVM, UpdateNodeInfo and Assume each adjust Requested
\* on their own).  A group that disappears from the status takes its charges
\* along (node.go:163-166) and is not in the model.
LedgerExact ==
    \A n \in Nodes : \A v \in cache[n].vgs : cache[n].req[v] = Owed(n, v)

\* The answers on a volume group never add up to more than its capacity:
\* what Assume reserves is not promised again ("to avoid any potential
\* resource over allocated").
PromisesFit ==
    \A n \in Nodes, v \in VGs :
        Total([c \in Claims |-> IF binding[c] = Unit(c, n, v) THEN Size[c] ELSE 0])
            <= nls[n].cap[v]

\* Where the volume of c is, or will be if CreateVolume goes on.
Target(c) ==
    IF pv[c] # None THEN <<pv[c].node, pv[c].where>>
    ELSE IF answer[c] # None THEN <<answer[c].target, answer[c].unit.where>>
    ELSE None

\* Two claims never get the same disk, not even between the answer and the
\* event of the volume.
DiskExclusive ==
    \A c, d \in Claims :
        c # d /\ Kind[c] # "LVM" /\ Target(c) # None => Target(c) # Target(d)

\* While CreateVolume acts on an answer, the cache of the node where the volume
\* will be created holds a record of the claim: SchedulingPVC "reports error if
\* failed to reserve storage for pvc".  (Without the fault "reselect", after which
\* scheduling.go:56 gives the answer of another node.)
AnswerIsReserved ==
    \A c \in Claims : answer[c] # None /\ Asks(c) => IsPVAllocated(cache[answer[c].target], c)

\* No two claims of S compete for the disks of one kind and media type.
NoDiskRivals(S) ==
    \A c, d \in S : c # d /\ Kind[c] # "LVM" => Kind[c] # Kind[d] \/ Media[c] # Media[d]

\* A node that passes the filter can serve the pod: the request for its
\* claims finds a place for each of them and Assume accepts it, although the
\* filter and the request place the claims with different loops.  Claims that
\* compete for disks are left out: CheckExclusiveResourceMeetsPVCSize passes
\* them also when the disks run out before the claims.
FilterIsSound ==
    \A p \in Pods : \A n \in Nodes :
        LET S == Unbound(p)
        IN  /\ pod[p] = "pending" /\ Listed(p) /\ S # {} /\ NoDiskRivals(S)
            /\ \A c \in S : binding[c] = None
            /\ cache[n].known /\ Fits(p, n)
            => /\ AllocatedUnits(cache[n], n, PodClaims[p], S) # {}
               /\ \A units \in AllocatedUnits(cache[n], n, PodClaims[p], S) :
                     ~Assume(cache[n], units).err

\* When every pod and claim is gone and every event handled, nothing is
\* charged and no disk is held.
NothingLeaks ==
    /\ \A p \in Pods : pod[p] = "absent"
    /\ \A c \in Claims : claim[c] = "absent" /\ pv[c] = None /\ seenPV[c] = None
    => \A n \in Nodes : cache[n].held = {} /\ \A v \in VGs : cache[n].req[v] = 0

=============================================================================
