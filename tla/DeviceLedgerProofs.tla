------------------------- MODULE DeviceLedgerProofs -------------------------
(***************************************************************************)
(* Proof that no disk is shared and none is lost, for every value of the   *)
(* constants.  TypeOK and OwnedInv hold in the unrestricted environment;   *)
(* the other parts of DeviceInv need the clean one.                        *)
(***************************************************************************)
EXTENDS DeviceLedger, FiniteSetTheorems, WellFoundedInduction, TLAPS

USE CapacityAssumption, ClaimAssumption, NullAssumption, NodeAssumption, RecordAssumption

LEMMA AnyNodeIsNode == AnyNode \in Nodes
  BY DEF AnyNode

LEMMA DeviceOfPVType ==
  ASSUME TypeOK, NEW e \in PVEvents
  PROVE  DeviceOfPV(e) \in Devices \cup {NoDevice}
  BY DEF TypeOK, PVEvents, DeviceOfPV, ClaimRecord

LEMMA DropClaimRecordType ==
  ASSUME TypeOK, NEW c \in PVCs \cup {NoPVC}
  PROVE  DropClaimRecord(c) \in [PVCs -> ClaimRecord \cup {NoRecord}]
  BY DEF TypeOK, DropClaimRecord

LEMMA InitTypeOK == Init => TypeOK
  BY AnyNodeIsNode DEF Init, TypeOK, Phases, NoUnits

LEMMA CycleTypeOK ==
  ASSUME TypeOK, Cycle
  PROVE  TypeOK'
<1>1. PICK p \in Pods :
        \/ \E seen \in SUBSET PodPVCs[p] : PreFilter(p, seen)
        \/ \E n \in Nodes : PreAllocate(p, n) \/ SkipReserve(p, n)
        \/ Unschedulable(p)
        \/ ReserveBegin(p) \/ ReserveFail(p) \/ ReserveDone(p)
        \/ \E c \in PVCs : ReserveSkip(p, c) \/ ReserveUnit(p, c) \/ UnreserveUnit(p, c)
        \/ UnreserveEnd(p)
        \/ Bind(p)
  BY DEF Cycle
<1> USE DEF TypeOK, Phases, states, records, cycle
<1>2. CASE \E seen \in SUBSET PodPVCs[p] : PreFilter(p, seen)
  BY <1>2 DEF PreFilter
<1>3. ASSUME NEW n \in Nodes, PreAllocate(p, n)
      PROVE  TypeOK'
  BY <1>3 DEF PreAllocate
<1>4. ASSUME NEW n \in Nodes, SkipReserve(p, n)
      PROVE  TypeOK'
  BY <1>4 DEF SkipReserve
<1>5. CASE Unschedulable(p)
  BY <1>5 DEF Unschedulable
<1>6. CASE ReserveBegin(p)
  BY <1>6 DEF ReserveBegin
<1>7. CASE ReserveFail(p) \/ ReserveDone(p)
  <2>1. PICK verdict \in Phases : ReserveEnds(p, verdict)
    BY <1>7 DEF ReserveFail, ReserveDone
  <2> QED
    BY <2>1 DEF ReserveEnds, NoUnits
<1>8. ASSUME NEW c \in PVCs, ReserveSkip(p, c)
      PROVE  TypeOK'
  BY <1>8 DEF ReserveSkip
<1>9. ASSUME NEW c \in PVCs, ReserveUnit(p, c)
      PROVE  TypeOK'
  BY <1>9 DEF ReserveUnit, Takes, ClaimRecord
<1>10. ASSUME NEW c \in PVCs, UnreserveUnit(p, c)
       PROVE  TypeOK'
  BY <1>10, DropClaimRecordType DEF UnreserveUnit
<1>11. CASE UnreserveEnd(p)
  BY <1>11, AnyNodeIsNode DEF UnreserveEnd
<1>12. CASE Bind(p)
  BY <1>12 DEF Bind
<1> QED
  BY <1>1, <1>2, <1>3, <1>4, <1>5, <1>6, <1>7, <1>8, <1>9, <1>10, <1>11, <1>12

LEMMA EventsTypeOK ==
  ASSUME TypeOK, Events
  PROVE  TypeOK'
<1> USE DEF TypeOK, states, records, cycle
<1>1. ASSUME NEW n \in Nodes, NEW W \in SUBSET Devices,
             NEW total \in [Devices -> Capacities], OnNodeLocalStorage(n, W, total)
      PROVE  TypeOK'
  BY <1>1 DEF OnNodeLocalStorage
<1>2. ASSUME NEW e \in PVEvents, OnPVUpdate(e)
      PROVE  TypeOK'
  <2>1. /\ e.pv \in PVs /\ e.node \in Nodes /\ e.claim \in PVCs \cup {NoPVC}
        /\ DeviceOfPV(e) \in Devices
    BY <1>2, DeviceOfPVType DEF PVEvents, OnPVUpdate
  <2>2. [node |-> e.node, dev |-> DeviceOfPV(e), claim |-> e.claim] \in VolumeRecord
    BY <2>1 DEF VolumeRecord
  <2> QED
    BY <1>2, <2>1, <2>2, DropClaimRecordType DEF OnPVUpdate, AllocatedByPV
<1>3. ASSUME NEW e \in PVEvents, OnPVDelete(e)
      PROVE  TypeOK'
  <2>1. /\ e.pv \in PVs /\ e.node \in Nodes
        /\ pvAllocated[e.pv].claim \in PVCs \cup {NoPVC}
    BY <1>3 DEF PVEvents, OnPVDelete, VolumeRecord
  <2> QED
    BY <1>3, <2>1, DropClaimRecordType DEF OnPVDelete
<1>4. ASSUME NEW c \in PVCs, OnPVCUpdate(c) \/ OnPVCDelete(c)
      PROVE  TypeOK'
  BY <1>4, DropClaimRecordType DEF OnPVCUpdate, OnPVCDelete
<1> QED
  BY <1>1, <1>2, <1>3, <1>4 DEF Events

LEMMA UnreserveBeginTypeOK ==
  ASSUME TypeOK, NEW p \in Pods, UnreserveBegin(p)
  PROVE  TypeOK'
  BY DEF TypeOK, UnreserveBegin, Phases, states, records

\* The clean environment only leaves steps out.
LEMMA CleanStepIsStep == CleanNext => Next
  BY DEF CleanNext, Next, CleanRollback, CleanEvents, Events

LEMMA NextTypeOK ==
  ASSUME TypeOK, [Next]_vars
  PROVE  TypeOK'
<1>1. CASE UNCHANGED vars
  BY <1>1 DEF TypeOK, vars, states, records, cycle
<1> QED
  BY <1>1, CycleTypeOK, EventsTypeOK, UnreserveBeginTypeOK DEF Next

----------------------------------------------------------------------------
(* The records and IsAllocated *)

LEMMA SameRecords ==
  ASSUME DeviceAccounting, DevicesExclusive, UNCHANGED <<held, pvcAllocated, pvAllocated>>
  PROVE  DeviceAccounting' /\ DevicesExclusive'
  BY DEF DeviceAccounting, DevicesExclusive, ClaimOn, VolumeOn

\* The steps of a pod's cycle.  Only ReserveUnit and UnreserveUnit touch records.
LEMMA CycleSafe ==
  ASSUME DeviceInv, Cycle
  PROVE  DeviceAccounting' /\ DevicesExclusive' /\ UnreserveOnRecordNode'
<1>1. PICK p \in Pods :
        \/ \E seen \in SUBSET PodPVCs[p] : PreFilter(p, seen)
        \/ \E n \in Nodes : PreAllocate(p, n) \/ SkipReserve(p, n)
        \/ Unschedulable(p)
        \/ ReserveBegin(p) \/ ReserveFail(p) \/ ReserveDone(p)
        \/ \E c \in PVCs : ReserveSkip(p, c) \/ ReserveUnit(p, c) \/ UnreserveUnit(p, c)
        \/ UnreserveEnd(p)
        \/ Bind(p)
  BY DEF Cycle
<1> USE DEF DeviceInv, TypeOK, states, records, cycle
<1>2. CASE \E seen \in SUBSET PodPVCs[p] : PreFilter(p, seen)
  BY <1>2, SameRecords DEF PreFilter, UnreserveOnRecordNode
<1>3. ASSUME NEW n \in Nodes, PreAllocate(p, n)
      PROVE  DeviceAccounting' /\ DevicesExclusive' /\ UnreserveOnRecordNode'
  BY <1>3, SameRecords DEF PreAllocate, UnreserveOnRecordNode
<1>4. ASSUME NEW n \in Nodes, SkipReserve(p, n)
      PROVE  DeviceAccounting' /\ DevicesExclusive' /\ UnreserveOnRecordNode'
  BY <1>4, SameRecords DEF SkipReserve, UnreserveOnRecordNode, RecordOn
<1>5. CASE Unschedulable(p)
  BY <1>5, SameRecords DEF Unschedulable, UnreserveOnRecordNode, RecordOn
<1>6. CASE ReserveBegin(p)
  BY <1>6, SameRecords DEF ReserveBegin, UnreserveOnRecordNode
<1>7. CASE ReserveFail(p) \/ ReserveDone(p)
  BY <1>7, SameRecords DEF ReserveFail, ReserveDone, ReserveEnds, UnreserveOnRecordNode
<1>8. ASSUME NEW c \in PVCs, ReserveSkip(p, c)
      PROVE  DeviceAccounting' /\ DevicesExclusive' /\ UnreserveOnRecordNode'
  BY <1>8, SameRecords DEF ReserveSkip, UnreserveOnRecordNode, RecordOn
<1>9. ASSUME NEW c \in PVCs, ReserveUnit(p, c)
      PROVE  DeviceAccounting' /\ DevicesExclusive' /\ UnreserveOnRecordNode'
  <2> DEFINE n == at[p]
             d == unitOf[p][c]
  <2>1. /\ n \in Nodes /\ d \in Devices /\ d \notin held[n]
        /\ held' = [held EXCEPT ![n] = @ \cup {d}]
        /\ pvcAllocated' = [pvcAllocated EXCEPT ![c] = [node |-> n, dev |-> d]]
        /\ pvAllocated' = pvAllocated
        /\ pvcAllocated[c] = NoRecord
    BY <1>9 DEF ReserveUnit, Takes, AlreadyPlaced
  <2> HIDE DEF n, d
  \* A device that is not held has no owner.
  <2>2. \A b \in PVCs : ~ClaimOn(b, n, d)
    BY <2>1 DEF DeviceAccounting
  <2>3. \A x \in PVs : ~VolumeOn(x, n, d)
    BY <2>1 DEF DeviceAccounting
  <2>4. \A b \in PVCs, i \in Nodes, j \in Devices :
           ClaimOn(b, i, j)' <=> (ClaimOn(b, i, j) \/ (b = c /\ i = n /\ j = d))
    BY <2>1 DEF ClaimOn, ClaimRecord
  <2>5. \A x \in PVs, i \in Nodes, j \in Devices : VolumeOn(x, i, j)' <=> VolumeOn(x, i, j)
    BY <2>1 DEF VolumeOn
  <2>6. \A i \in Nodes, j \in Devices : ~ClaimOn(c, i, j)
    BY <2>1 DEF ClaimOn
  <2>7. \A i \in Nodes, j \in Devices : j \in held'[i] <=> j \in held[i] \/ (i = n /\ j = d)
    BY <2>1
  <2>8. DeviceAccounting'
    <3> SUFFICES ASSUME NEW i \in Nodes, NEW j \in Devices
                 PROVE  j \in held'[i] <=> \/ \E b \in PVCs : ClaimOn(b, i, j)'
                                           \/ \E x \in PVs : VolumeOn(x, i, j)'
      BY DEF DeviceAccounting
    <3>1. j \in held[i] <=> \/ \E b \in PVCs : ClaimOn(b, i, j)
                            \/ \E x \in PVs : VolumeOn(x, i, j)
      BY DEF DeviceAccounting
    <3> QED
      BY <3>1, <2>4, <2>5, <2>7
  <2>9. DevicesExclusive'
    BY <2>2, <2>3, <2>4, <2>5, <2>6 DEF DevicesExclusive
  <2>10. UnreserveOnRecordNode'
    BY <1>9 DEF ReserveUnit, Reserving, UnreserveOnRecordNode
  <2> QED
    BY <2>8, <2>9, <2>10
<1>10. ASSUME NEW c \in PVCs, UnreserveUnit(p, c)
       PROVE  DeviceAccounting' /\ DevicesExclusive' /\ UnreserveOnRecordNode'
  <2> DEFINE n == at[p]
  <2>1. /\ n \in Nodes /\ RecordOn(n, c)
        /\ held' = [held EXCEPT ![n] = @ \ RevertedDevice(n, c)]
        /\ pvcAllocated' = [pvcAllocated EXCEPT ![c] = NoRecord]
        /\ pvAllocated' = pvAllocated
    BY <1>10 DEF UnreserveUnit, UnreserveOnRecordNode, DropClaimRecord
  <2> HIDE DEF n
  <2>2. \A b \in PVCs, i \in Nodes, j \in Devices :
           ClaimOn(b, i, j)' <=> ClaimOn(b, i, j) /\ b # c
    BY <2>1 DEF ClaimOn
  <2>3. \A x \in PVs, i \in Nodes, j \in Devices : VolumeOn(x, i, j)' <=> VolumeOn(x, i, j)
    BY <2>1 DEF VolumeOn
  <2>4. \A i \in Nodes, j \in Devices : j \in held'[i] <=> j \in held[i] /\ ~ClaimOn(c, i, j)
    BY <2>1 DEF RevertedDevice, ClaimOn, RecordOn, ClaimRecord
  <2>5. DeviceAccounting'
    <3> SUFFICES ASSUME NEW i \in Nodes, NEW j \in Devices
                 PROVE  j \in held'[i] <=> \/ \E b \in PVCs : ClaimOn(b, i, j)'
                                           \/ \E x \in PVs : VolumeOn(x, i, j)'
      BY DEF DeviceAccounting
    <3>1. j \in held[i] <=> \/ \E b \in PVCs : ClaimOn(b, i, j)
                            \/ \E x \in PVs : VolumeOn(x, i, j)
      BY DEF DeviceAccounting
    <3> QED
      BY <3>1, <2>2, <2>3, <2>4 DEF DevicesExclusive
  <2>6. DevicesExclusive'
    BY <2>2, <2>3 DEF DevicesExclusive
  <2>7. UnreserveOnRecordNode'
    BY <1>10, <2>1 DEF UnreserveUnit, UnreserveOnRecordNode, RecordOn, n
  <2> QED
    BY <2>5, <2>6, <2>7
<1>11. CASE UnreserveEnd(p)
  BY <1>11, SameRecords DEF UnreserveEnd, UnreserveOnRecordNode
<1>12. CASE Bind(p)
  BY <1>12, SameRecords DEF Bind, UnreserveOnRecordNode, RecordOn
<1> QED
  BY <1>1, <1>2, <1>3, <1>4, <1>5, <1>6, <1>7, <1>8, <1>9, <1>10, <1>11, <1>12

\* A pod whose Unreserve may begin has its records on its own node.
LEMMA CleanRollbackSafe ==
  ASSUME DeviceInv, CleanRollback
  PROVE  DeviceAccounting' /\ DevicesExclusive' /\ UnreserveOnRecordNode'
<1>1. PICK p \in Pods : /\ \A c \in unitAllocated[p] : RecordOn(at[p], c)
                       /\ UnreserveBegin(p)
  BY DEF CleanRollback
<1> QED
  BY <1>1, SameRecords
     DEF DeviceInv, UnreserveBegin, UnreserveOnRecordNode, RecordOn, states, records

\* Events come while nobody holds the lock, so only the records matter.
LEMMA CleanEventsSafe ==
  ASSUME DeviceInv, CleanEvents
  PROVE  DeviceAccounting' /\ DevicesExclusive' /\ UnreserveOnRecordNode'
<1> USE DEF DeviceInv, TypeOK, states, records, cycle
<1>1. ASSUME NEW n \in Nodes, NEW W \in SUBSET Devices,
             NEW total \in [Devices -> Capacities],
             held[n] \subseteq W, OnNodeLocalStorage(n, W, total)
      PROVE  DeviceAccounting' /\ DevicesExclusive' /\ UnreserveOnRecordNode'
  <2>1. held' = held
    BY <1>1 DEF OnNodeLocalStorage
  <2> QED
    BY <1>1, <2>1, SameRecords DEF OnNodeLocalStorage, UnreserveOnRecordNode
<1>2. ASSUME NEW e \in PVEvents, CleanPVUpdate(e), OnPVUpdate(e)
      PROVE  DeviceAccounting' /\ DevicesExclusive' /\ UnreserveOnRecordNode'
  <2> DEFINE n == e.node
             d == DeviceOfPV(e)
             c == e.claim
             v == e.pv
  <2>1. n \in Nodes /\ d \in Devices /\ c \in PVCs \cup {NoPVC} /\ v \in PVs
    BY <1>2, DeviceOfPVType DEF PVEvents, OnPVUpdate
  <2>2. /\ held' = [held EXCEPT ![n] = (@ \ RevertedDevice(n, c)) \cup {d}]
        /\ pvcAllocated' = DropClaimRecord(c)
        /\ pvAllocated' = [pvAllocated EXCEPT ![v] = [node |-> n, dev |-> d, claim |-> c]]
    BY <1>2 DEF OnPVUpdate, AllocatedByPV
  <2>3. /\ RecordOn(n, c)
        /\ \A i \in Nodes, j \in Devices : VolumeOn(v, i, j) => i = n /\ j = d
        /\ \A b \in PVCs : ClaimOn(b, n, d) => b = c
        /\ \A x \in PVs : VolumeOn(x, n, d) => x = v
    BY <1>2, <2>1 DEF CleanPVUpdate, VolumeOn
  <2> HIDE DEF n, d, c, v
  <2>4. \A b \in PVCs, i \in Nodes, j \in Devices :
           ClaimOn(b, i, j)' <=> (ClaimOn(b, i, j) /\ b # c)
    BY <2>1, <2>2 DEF ClaimOn, DropClaimRecord
  <2>5. [node |-> n, dev |-> d, claim |-> c] # NoRecord
    BY <2>1 DEF VolumeRecord
  <2>6. \A x \in PVs, i \in Nodes, j \in Devices :
           VolumeOn(x, i, j)' <=> (VolumeOn(x, i, j) \/ (x = v /\ i = n /\ j = d))
    BY <2>1, <2>2, <2>3, <2>5 DEF VolumeOn
  <2>7. \A i \in Nodes, j \in Devices :
           j \in held'[i] <=> \/ j \in held[i] /\ ~(c \in PVCs /\ ClaimOn(c, i, j))
                              \/ i = n /\ j = d
    BY <2>1, <2>2, <2>3 DEF RevertedDevice, ClaimOn, RecordOn
  <2>8. DeviceAccounting'
    <3> SUFFICES ASSUME NEW i \in Nodes, NEW j \in Devices
                 PROVE  j \in held'[i] <=> \/ \E b \in PVCs : ClaimOn(b, i, j)'
                                           \/ \E x \in PVs : VolumeOn(x, i, j)'
      BY DEF DeviceAccounting
    <3>1. j \in held[i] <=> \/ \E b \in PVCs : ClaimOn(b, i, j)
                            \/ \E x \in PVs : VolumeOn(x, i, j)
      BY DEF DeviceAccounting
    <3> QED
      BY <3>1, <2>1, <2>4, <2>6, <2>7 DEF DevicesExclusive
  <2>9. DevicesExclusive'
    BY <2>1, <2>3, <2>4, <2>6 DEF DevicesExclusive
  <2> QED
    BY <1>2, <2>8, <2>9 DEF OnPVUpdate, UnreserveOnRecordNode
<1>3. ASSUME NEW e \in PVEvents, CleanPVDelete(e), OnPVDelete(e)
      PROVE  DeviceAccounting' /\ DevicesExclusive' /\ UnreserveOnRecordNode'
  <2> DEFINE n == e.node
             d == e.dev
             v == e.pv
  <2>1. n \in Nodes /\ d \in Devices /\ v \in PVs /\ VolumeOn(v, n, d)
    BY <1>3 DEF PVEvents, OnPVDelete, CleanPVDelete
  \* The claim of the volume has no record left to drop.
  <2>2. pvcAllocated' = pvcAllocated
    BY <1>3, <2>1 DEF OnPVDelete, CleanPVDelete, DropClaimRecord, VolumeRecord
  <2>3. /\ held' = [held EXCEPT ![n] = @ \ {d}]
        /\ pvAllocated' = [pvAllocated EXCEPT ![v] = NoRecord]
    BY <1>3 DEF OnPVDelete
  <2> HIDE DEF n, d, v
  <2>4. \A b \in PVCs, i \in Nodes, j \in Devices : ClaimOn(b, i, j)' <=> ClaimOn(b, i, j)
    BY <2>2 DEF ClaimOn
  <2>5. \A x \in PVs, i \in Nodes, j \in Devices :
           VolumeOn(x, i, j)' <=> (VolumeOn(x, i, j) /\ x # v)
    BY <2>1, <2>3 DEF VolumeOn
  <2>6. \A i \in Nodes, j \in Devices : VolumeOn(v, i, j) => i = n /\ j = d
    BY <2>1 DEF VolumeOn
  <2>7. \A i \in Nodes, j \in Devices :
           j \in held'[i] <=> (j \in held[i] /\ ~VolumeOn(v, i, j))
    BY <2>1, <2>3, <2>6
  <2>8. DeviceAccounting'
    <3> SUFFICES ASSUME NEW i \in Nodes, NEW j \in Devices
                 PROVE  j \in held'[i] <=> \/ \E b \in PVCs : ClaimOn(b, i, j)'
                                           \/ \E x \in PVs : VolumeOn(x, i, j)'
      BY DEF DeviceAccounting
    <3>1. j \in held[i] <=> \/ \E b \in PVCs : ClaimOn(b, i, j)
                            \/ \E x \in PVs : VolumeOn(x, i, j)
      BY DEF DeviceAccounting
    <3> QED
      BY <3>1, <2>1, <2>4, <2>5, <2>7 DEF DevicesExclusive
  <2>9. DevicesExclusive'
    BY <2>4, <2>5 DEF DevicesExclusive
  <2> QED
    BY <1>3, <2>8, <2>9 DEF OnPVDelete, UnreserveOnRecordNode
<1>4. ASSUME NEW c \in PVCs, OnPVCUpdate(c)
      PROVE  DeviceAccounting' /\ DevicesExclusive' /\ UnreserveOnRecordNode'
  BY <1>4, SameRecords DEF OnPVCUpdate, UnreserveOnRecordNode
<1>5. ASSUME NEW c \in PVCs, pvcAllocated[c] = NoRecord, OnPVCDelete(c)
      PROVE  DeviceAccounting' /\ DevicesExclusive' /\ UnreserveOnRecordNode'
  <2>1. pvcAllocated' = pvcAllocated
    BY <1>5 DEF OnPVCDelete, DropClaimRecord
  <2> QED
    BY <1>5, <2>1, SameRecords DEF OnPVCDelete, UnreserveOnRecordNode
<1> QED
  BY <1>1, <1>2, <1>3, <1>4, <1>5 DEF CleanEvents

LEMMA InitDeviceInv == Init => DeviceInv
  BY InitTypeOK
     DEF Init, DeviceInv, DeviceAccounting, DevicesExclusive, UnreserveOnRecordNode,
         ClaimOn, VolumeOn

LEMMA CleanNextDeviceInv ==
  ASSUME DeviceInv, [CleanNext]_vars
  PROVE  DeviceInv'
<1>1. TypeOK'
  BY NextTypeOK, CleanStepIsStep DEF DeviceInv
<1>2. CASE UNCHANGED vars
  BY <1>1, <1>2, SameRecords
     DEF DeviceInv, UnreserveOnRecordNode, RecordOn, vars, states, records, cycle
<1> QED
  BY <1>1, <1>2, CycleSafe, CleanRollbackSafe, CleanEventsSafe DEF CleanNext, DeviceInv

----------------------------------------------------------------------------
\* Whatever the informers deliver, the cache's device records keep their types:
\* a PV event never records a device name that is missing.
THEOREM DeviceTypeCorrect == Spec => []TypeOK
  BY InitTypeOK, NextTypeOK, PTL DEF Spec

LEMMA DeviceInvariant == CleanSpec => []DeviceInv
  BY InitDeviceInv, CleanNextDeviceInv, PTL DEF CleanSpec

\* In the clean environment no disk is given to two owners, for any number of
\* nodes, disks, claims, volumes and pods.
THEOREM DisksSafe == CleanSpec => []DevicesExclusive
<1>1. DeviceInv => DevicesExclusive
  BY DEF DeviceInv
<1> QED
  BY <1>1, DeviceInvariant, PTL

\* There, IsAllocated is set exactly for the disks that have an owner: a claim
\* that ends on another disk than the reserved one, a failed Reserve and a
\* deleted PV neither lose a disk nor free one in use.
THEOREM DisksAccounted == CleanSpec => []DeviceAccounting
<1>1. DeviceInv => DeviceAccounting
  BY DEF DeviceInv
<1> QED
  BY <1>1, DeviceInvariant, PTL

----------------------------------------------------------------------------
(* Who owns a reserved device *)

\* A step that writes no claim record, takes no unit from a pod and moves no
\* pod that is live keeps the owners.
LEMMA OwnersFrame ==
  ASSUME TypeOK, DeviceReservationsOwned,
         \A c \in PVCs : pvcAllocated'[c] \in {pvcAllocated[c], NoRecord},
         unitAllocated' = unitAllocated,
         \A p \in Pods : Live(p) => Live(p)' /\ at'[p] = at[p]
  PROVE  DeviceReservationsOwned'
<1> SUFFICES ASSUME NEW c \in PVCs, pvcAllocated'[c] # NoRecord
             PROVE  \E p \in Pods : /\ Live(p)' /\ c \in unitAllocated'[p]
                                    /\ at'[p] = pvcAllocated'[c].node
  BY DEF DeviceReservationsOwned
<1>1. PICK p \in Pods : Live(p) /\ c \in unitAllocated[p] /\ at[p] = pvcAllocated[c].node
  BY DEF DeviceReservationsOwned
<1> QED
  BY <1>1

LEMMA DropOnly ==
  ASSUME TypeOK, NEW c \in PVCs \cup {NoPVC}
  PROVE  \A b \in PVCs : DropClaimRecord(c)[b] \in {pvcAllocated[b], NoRecord}
  BY DEF TypeOK, DropClaimRecord

LEMMA CycleOwned ==
  ASSUME OwnedInv, Cycle
  PROVE  DeviceReservationsOwned' /\ UnreserveCoversUnits'
<1>1. PICK p \in Pods :
        \/ \E seen \in SUBSET PodPVCs[p] : PreFilter(p, seen)
        \/ \E n \in Nodes : PreAllocate(p, n) \/ SkipReserve(p, n)
        \/ Unschedulable(p)
        \/ ReserveBegin(p) \/ ReserveFail(p) \/ ReserveDone(p)
        \/ \E c \in PVCs : ReserveSkip(p, c) \/ ReserveUnit(p, c) \/ UnreserveUnit(p, c)
        \/ UnreserveEnd(p)
        \/ Bind(p)
  BY DEF Cycle
<1> USE DEF OwnedInv, TypeOK, states, records, cycle
\* The steps before Reserve move a pod that has reserved nothing, or nothing
\* that anybody can still give back.
<1>2. CASE \E seen \in SUBSET PodPVCs[p] : PreFilter(p, seen)
  BY <1>2, OwnersFrame DEF PreFilter, Live, UnreserveCoversUnits
<1>3. ASSUME NEW n \in Nodes, PreAllocate(p, n)
      PROVE  DeviceReservationsOwned' /\ UnreserveCoversUnits'
  BY <1>3, OwnersFrame DEF PreAllocate, Live, UnreserveCoversUnits
<1>4. ASSUME NEW n \in Nodes, SkipReserve(p, n)
      PROVE  DeviceReservationsOwned' /\ UnreserveCoversUnits'
  BY <1>4, OwnersFrame DEF SkipReserve, Live, UnreserveCoversUnits
<1>5. CASE Unschedulable(p)
  BY <1>5, OwnersFrame DEF Unschedulable, Live, UnreserveCoversUnits
<1>6. CASE ReserveBegin(p)
  BY <1>6, OwnersFrame DEF ReserveBegin, Live, UnreserveCoversUnits
<1>7. CASE ReserveFail(p) \/ ReserveDone(p)
  <2>1. PICK verdict \in {"failed", "reserved"} : ReserveEnds(p, verdict)
    BY <1>7 DEF ReserveFail, ReserveDone
  <2> QED
    BY <2>1, OwnersFrame DEF ReserveEnds, Live, UnreserveCoversUnits
<1>8. ASSUME NEW c \in PVCs, ReserveSkip(p, c)
      PROVE  DeviceReservationsOwned' /\ UnreserveCoversUnits'
  BY <1>8, OwnersFrame DEF ReserveSkip, Reserving, Live, UnreserveCoversUnits
<1>9. ASSUME NEW c \in PVCs, ReserveUnit(p, c)
      PROVE  DeviceReservationsOwned' /\ UnreserveCoversUnits'
  <2>1. /\ pc[p] = "reserving" /\ lock = p /\ UNCHANGED <<pc, at, lock>>
        /\ unitAllocated' = [unitAllocated EXCEPT ![p] = @ \cup {c}]
        /\ pvcAllocated' = [pvcAllocated EXCEPT ![c] = [node |-> at[p], dev |-> unitOf[p][c]]]
    BY <1>9 DEF ReserveUnit, Reserving
  <2>2. DeviceReservationsOwned'
    <3> SUFFICES ASSUME NEW b \in PVCs, pvcAllocated'[b] # NoRecord
                 PROVE  \E q \in Pods : /\ Live(q)' /\ b \in unitAllocated'[q]
                                        /\ at'[q] = pvcAllocated'[b].node
      BY DEF DeviceReservationsOwned
    <3>1. CASE b = c
      <4>1. Live(p)' /\ b \in unitAllocated'[p] /\ at'[p] = pvcAllocated'[b].node
        BY <2>1, <3>1 DEF Live
      <4> QED
        BY <4>1
    <3>2. CASE b # c
      <4>1. PICK q \in Pods : Live(q) /\ b \in unitAllocated[q] /\ at[q] = pvcAllocated[b].node
        BY <2>1, <3>2 DEF DeviceReservationsOwned
      <4> QED
        BY <2>1, <3>2, <4>1 DEF Live
    <3> QED
      BY <3>1, <3>2
  <2> QED
    BY <2>1, <2>2 DEF UnreserveCoversUnits
<1>10. ASSUME NEW c \in PVCs, UnreserveUnit(p, c)
       PROVE  DeviceReservationsOwned' /\ UnreserveCoversUnits'
  <2>1. /\ lock = p /\ pc[p] = "unreserving" /\ todo' = todo \ {c} /\ UNCHANGED <<pc, at, lock>>
        /\ unitAllocated' = [unitAllocated EXCEPT ![p] = @ \ {c}]
        /\ pvcAllocated' = [pvcAllocated EXCEPT ![c] = NoRecord]
    BY <1>10 DEF UnreserveUnit, DropClaimRecord
  <2>2. DeviceReservationsOwned'
    <3> SUFFICES ASSUME NEW b \in PVCs, pvcAllocated'[b] # NoRecord
                 PROVE  \E q \in Pods : /\ Live(q)' /\ b \in unitAllocated'[q]
                                        /\ at'[q] = pvcAllocated'[b].node
      BY DEF DeviceReservationsOwned
    <3>1. b # c /\ pvcAllocated'[b] = pvcAllocated[b]
      BY <2>1
    <3>2. PICK q \in Pods : Live(q) /\ b \in unitAllocated[q] /\ at[q] = pvcAllocated[b].node
      BY <3>1 DEF DeviceReservationsOwned
    <3> QED
      BY <2>1, <3>1, <3>2 DEF Live
  <2> QED
    BY <2>1, <2>2 DEF UnreserveCoversUnits
<1>11. CASE UnreserveEnd(p)
  <2>1. /\ unitAllocated[p] = {} /\ lock' = NoPod /\ UNCHANGED <<unitAllocated, pvcAllocated>>
        /\ \A q \in Pods : q # p => pc'[q] = pc[q] /\ at'[q] = at[q]
    BY <1>11 DEF UnreserveEnd, UnreserveCoversUnits
  <2>2. DeviceReservationsOwned'
    <3> SUFFICES ASSUME NEW b \in PVCs, pvcAllocated[b] # NoRecord
                 PROVE  \E q \in Pods : /\ Live(q)' /\ b \in unitAllocated[q]
                                        /\ at'[q] = pvcAllocated[b].node
      BY <2>1 DEF DeviceReservationsOwned
    <3>1. PICK q \in Pods : Live(q) /\ b \in unitAllocated[q] /\ at[q] = pvcAllocated[b].node
      BY DEF DeviceReservationsOwned
    <3>2. q # p
      BY <2>1, <3>1
    <3> QED
      BY <2>1, <3>1, <3>2 DEF Live
  <2> QED
    BY <2>1, <2>2 DEF UnreserveCoversUnits
<1>12. CASE Bind(p)
  BY <1>12, OwnersFrame DEF Bind, Live, UnreserveCoversUnits
<1> QED
  BY <1>1, <1>2, <1>3, <1>4, <1>5, <1>6, <1>7, <1>8, <1>9, <1>10, <1>11, <1>12

LEMMA EventsOwned ==
  ASSUME OwnedInv, Events
  PROVE  DeviceReservationsOwned' /\ UnreserveCoversUnits'
<1>1. lock = NoPod /\ UNCHANGED <<cycle, lock, todo>>
  BY DEF Events, OnNodeLocalStorage, OnPVUpdate, OnPVDelete, OnPVCUpdate, OnPVCDelete
<1>2. \A b \in PVCs : pvcAllocated'[b] \in {pvcAllocated[b], NoRecord}
  <2>1. ASSUME NEW e \in PVEvents, OnPVUpdate(e)
        PROVE  \A b \in PVCs : pvcAllocated'[b] \in {pvcAllocated[b], NoRecord}
    BY <2>1, DropOnly DEF OnPVUpdate, OwnedInv, PVEvents
  <2>2. ASSUME NEW e \in PVEvents, OnPVDelete(e)
        PROVE  \A b \in PVCs : pvcAllocated'[b] \in {pvcAllocated[b], NoRecord}
    <3>1. pvAllocated[e.pv].claim \in PVCs \cup {NoPVC}
      BY <2>2 DEF PVEvents, OnPVDelete, VolumeRecord, OwnedInv, TypeOK
    <3> QED
      BY <2>2, <3>1, DropOnly DEF OnPVDelete, OwnedInv
  <2>3. ASSUME NEW c \in PVCs, OnPVCDelete(c)
        PROVE  \A b \in PVCs : pvcAllocated'[b] \in {pvcAllocated[b], NoRecord}
    BY <2>3, DropOnly DEF OnPVCDelete, OwnedInv
  <2> QED
    BY <2>1, <2>2, <2>3 DEF Events, OnNodeLocalStorage, OnPVCUpdate, records
<1>3. DeviceReservationsOwned'
  BY <1>1, <1>2, OwnersFrame DEF OwnedInv, Live, cycle
<1> QED
  BY <1>1, <1>3 DEF UnreserveCoversUnits

LEMMA UnreserveBeginOwned ==
  ASSUME OwnedInv, NEW p \in Pods, UnreserveBegin(p)
  PROVE  DeviceReservationsOwned' /\ UnreserveCoversUnits'
<1>1. DeviceReservationsOwned'
  BY OwnersFrame DEF UnreserveBegin, OwnedInv, TypeOK, Live, records
<1> QED
  BY <1>1 DEF UnreserveBegin, OwnedInv, TypeOK, UnreserveCoversUnits

\* Whatever the informers deliver and wherever a Reserve fails, the record of a
\* reserved disk names the node of a pod whose Unreserve would still free it,
\* or that is bound: no cycle ends with a disk nobody can give back.
THEOREM DevicesOwned == Spec => []DeviceReservationsOwned
<1>1. Init => OwnedInv
  BY InitTypeOK DEF Init, OwnedInv, DeviceReservationsOwned, UnreserveCoversUnits
<1>2. OwnedInv /\ [Next]_vars => OwnedInv'
  <2> SUFFICES ASSUME OwnedInv, [Next]_vars
               PROVE  OwnedInv'
    OBVIOUS
  <2>1. TypeOK'
    BY NextTypeOK DEF OwnedInv
  <2>2. CASE UNCHANGED vars
    BY <2>1, <2>2 DEF OwnedInv, DeviceReservationsOwned, UnreserveCoversUnits, Live,
                      vars, states, records, cycle
  <2> QED
    BY <2>1, <2>2, CycleOwned, EventsOwned, UnreserveBeginOwned DEF Next, OwnedInv
<1>3. OwnedInv => DeviceReservationsOwned
  BY DEF OwnedInv
<1> QED
  BY <1>1, <1>2, <1>3, PTL DEF Spec

----------------------------------------------------------------------------
(* The greedy walk over the disks *)

\* Induction over the naturals, for a set instead of a predicate.
LEMMA NatInductionSet ==
  ASSUME NEW T, 0 \in T, \A j \in Nat : j \in T => j + 1 \in T
  PROVE  Nat \subseteq T
<1> DEFINE R == OpToRel(<, Nat)
           Bad == Nat \ T
<1> SUFFICES ASSUME Bad # {} PROVE FALSE
  OBVIOUS
<1>1. IsWellFoundedOn(R, Nat)
  BY NatLessThanWellFounded
<1>2. \A x, y \in Nat : y < x => <<y, x>> \in R
  BY DEF OpToRel
<1> HIDE DEF R
<1>3. PICK x \in Bad : \A y \in Bad : ~(<<y, x>> \in R)
  <2>1. Bad \subseteq Nat
    OBVIOUS
  <2> HIDE DEF Bad
  <2> QED
    BY <1>1, <2>1, WFMin
<1>4. x \in Nat /\ x # 0
  OBVIOUS
<1>5. x - 1 \in Nat /\ x - 1 < x /\ (x - 1) + 1 = x
  BY <1>4
<1>6. x - 1 \in T
  BY <1>2, <1>3, <1>4, <1>5
<1> QED
  BY <1>5, <1>6

\* The claims served after disk i, when q were served before it.
ServedBy(n, cs, k, ds, q, i) ==
  IF q < k /\ PVCRequest[cs[q + 1]] <= size[n][ds[i]] THEN q + 1 ELSE q

\* The recursive definition of Served has a solution, so its equations hold.
LEMMA ServedRecursion ==
  ASSUME NEW n, NEW cs, NEW k \in Nat, NEW ds, NEW m \in Nat
  PROVE  LET s == Served(n, cs, k, ds, m)
         IN  /\ s \in [0..m -> Nat]
             /\ s[0] = 0
             /\ \A i \in 1..m : s[i] = ServedBy(n, cs, k, ds, s[i - 1], i)
<1> DEFINE step(q, i) == ServedBy(n, cs, k, ds, q, i)
           Is(g, j) == /\ g \in [0..j -> Nat] /\ g[0] = 0
                       /\ \A i \in 1..j : g[i] = step(g[i - 1], i)
           T == {j \in Nat : \E g : Is(g, j)}
<1>0. \A i : \A q \in Nat : step(q, i) \in Nat
  BY DEF ServedBy
<1> HIDE DEF step
<1>1. 0 \in T
  <2> DEFINE g == [x \in 0..0 |-> 0]
  <2>1. Is(g, 0)
    OBVIOUS
  <2> QED
    BY <2>1
<1>2. ASSUME NEW j \in Nat, j \in T PROVE j + 1 \in T
  <2>1. PICK h : Is(h, j)
    BY <1>2
  <2> DEFINE g == [x \in 0..(j + 1) |-> IF x = j + 1 THEN step(h[j], j + 1) ELSE h[x]]
  <2>2. g \in [0..(j + 1) -> Nat] /\ g[0] = 0
    BY <1>0, <2>1
  <2>3. ASSUME NEW i \in 1..(j + 1) PROVE g[i] = step(g[i - 1], i)
    <3>1. CASE i = j + 1
      BY <2>1, <3>1
    <3>2. CASE i # j + 1
      <4>1. i \in 1..j /\ i - 1 \in 0..j /\ i - 1 # j + 1
        BY <3>2
      <4>2. g[i] = h[i] /\ g[i - 1] = h[i - 1]
        BY <3>2, <4>1
      <4> QED
        BY <2>1, <4>1, <4>2
    <3> QED
      BY <3>1, <3>2
  <2>4. Is(g, j + 1)
    BY <2>2, <2>3
  <2> HIDE DEF Is, g
  <2> QED
    BY <2>4
<1>3. m \in T
  <2>1. \A j \in Nat : j \in T => j + 1 \in T
    BY <1>2
  <2> HIDE DEF T
  <2>2. Nat \subseteq T
    BY <1>1, <2>1, NatInductionSet
  <2> QED
    BY <2>2
<1>4. PICK g : Is(g, m)
  BY <1>3
<1> DEFINE F(f) == [i \in 0..m |-> IF i = 0 THEN 0 ELSE step(f[i - 1], i)]
<1>5. g = F(g)
  BY <1>4
<1> DEFINE s == Served(n, cs, k, ds, m)
<1>6. s = CHOOSE f : f = F(f)
  BY DEF Served, ServedBy, step
<1>7. s = F(s)
  <2> HIDE DEF F, s
  <2> QED
    BY <1>5, <1>6, Zenon
<1> HIDE DEF s
<1>8. s[0] = 0 /\ \A i \in 1..m : s[i] = step(s[i - 1], i)
  BY <1>7
<1> DEFINE U == {j \in Nat : j <= m => s[j] \in Nat}
<1>9. \A j \in Nat : j \in U => j + 1 \in U
  <2> SUFFICES ASSUME NEW j \in Nat, j \in U, j + 1 <= m PROVE s[j + 1] \in Nat
    OBVIOUS
  <2>1. j + 1 \in 1..m /\ (j + 1) - 1 = j /\ s[j] \in Nat
    OBVIOUS
  <2> QED
    BY <1>0, <1>8, <2>1
<1>10. 0 \in U
  BY <1>8
<1>11. Nat \subseteq U
  <2> HIDE DEF U
  <2> QED
    BY <1>9, <1>10, NatInductionSet
<1>12. s \in [0..m -> Nat]
  <2>1. \A j \in 0..m : s[j] \in Nat
    BY <1>11
  <2> QED
    BY <1>7, <2>1
<1> QED
  BY <1>8, <1>12 DEF step, s

\* While claims are left over, the walk has served a claim with every disk since
\* disk p, and p was too small for the claim it met (or there is no such disk).
LEMMA ServedChain ==
  ASSUME NEW n, NEW cs, NEW k \in Nat, NEW ds, NEW m \in Nat,
         NEW s, s = Served(n, cs, k, ds, m)
  PROVE  /\ s[m] \in 0..k
         /\ s[m] < k =>
              \E p \in 0..m : /\ s[p] \in 0..k
                              /\ s[m] - s[p] = m - p
                              /\ p # 0 => ~(PVCRequest[cs[s[p] + 1]] <= size[n][ds[p]])
                              /\ p = 0 => s[p] = 0
<1> DEFINE small(p) == ~(PVCRequest[cs[s[p] + 1]] <= size[n][ds[p]])
           Chain(i, p) == /\ s[p] \in 0..k /\ s[i] - s[p] = i - p
                          /\ p # 0 => small(p)
                          /\ p = 0 => s[p] = 0
           T == {i \in Nat : i <= m => /\ s[i] \in 0..k
                                       /\ s[i] < k => \E p \in 0..i : Chain(i, p)}
<1>1. /\ s[0] = 0
      /\ \A i \in 1..m : s[i] = ServedBy(n, cs, k, ds, s[i - 1], i)
  BY ServedRecursion
<1>2. 0 \in T
  <2>1. Chain(0, 0)
    BY <1>1
  <2> QED
    BY <1>1, <2>1
<1>3. ASSUME NEW i \in Nat, i \in T, i + 1 <= m
      PROVE  /\ s[i + 1] \in 0..k
             /\ s[i + 1] < k => \E p \in 0..(i + 1) : Chain(i + 1, p)
  <2>1. s[i + 1] = ServedBy(n, cs, k, ds, s[i], i + 1)
    BY <1>1, <1>3
  <2>2. s[i] \in 0..k
    BY <1>3
  <2>3. CASE s[i + 1] = s[i] + 1 /\ s[i] < k
    <3>1. PICK p \in 0..i : Chain(i, p)
      BY <1>3, <2>3
    <3>2. Chain(i + 1, p)
      BY <2>2, <2>3, <3>1
    <3> QED
      BY <2>2, <2>3, <3>2
  <2>4. CASE s[i + 1] = s[i] /\ (s[i] < k => small(i + 1))
    <3>1. s[i + 1] < k => Chain(i + 1, i + 1)
      BY <2>2, <2>4
    <3> QED
      BY <2>2, <2>4, <3>1
  <2> QED
    BY <2>1, <2>2, <2>3, <2>4 DEF ServedBy
<1>4. \A i \in Nat : i \in T => i + 1 \in T
  <2> HIDE DEF Chain
  <2> QED
    BY <1>3
<1>5. Nat \subseteq T
  <2> HIDE DEF T
  <2> QED
    BY <1>2, <1>4, NatInductionSet
<1>6. m \in T
  BY <1>5
<1> QED
  BY <1>6

\* A sorted slice of a finite set has every element.
LEMMA OrderIsOnto ==
  ASSUME NEW S, IsFiniteSet(S), NEW key, NEW s \in Orders(S, key), NEW x \in S
  PROVE  \E i \in 1..Cardinality(S) : s[i] = x
<1> DEFINE K == Cardinality(S)
<1>1. K \in Nat /\ IsFiniteSet(1..K) /\ Cardinality(1..K) = K
  BY FS_CardinalityType, FS_Interval
<1>2. s \in Injection(1..K, S)
  BY DEF Orders, Injection, IsInjective
<1>3. s \in Surjection(1..K, S)
  BY <1>1, <1>2, FS_Injection
<1> QED
  BY <1>3 DEF Surjection

\* If the walk leaves a claim over, then more claims than there are disks after p need
\* more than disk p has: no assignment gives them all different disks.
LEMMA GreedyServesAll ==
  ASSUME NEW n, NEW C, IsFiniteSet(C), NEW F, IsFiniteSet(F),
         \A c \in C : PVCRequest[c] \in Nat, \A d \in F : size[n][d] \in Nat,
         NEW f \in [C -> F], Fit(n, C, F, f), \A a, b \in C : f[a] = f[b] => a = b,
         NEW cs \in Orders(C, PVCRequest), NEW ds \in Orders(F, size[n])
  PROVE  Served(n, cs, Cardinality(C), ds, Cardinality(F))[Cardinality(F)] = Cardinality(C)
<1> DEFINE k == Cardinality(C)
           m == Cardinality(F)
           s == Served(n, cs, k, ds, m)
<1>1. k \in Nat /\ m \in Nat
  BY FS_CardinalityType
<1>2. /\ cs \in [1..k -> C]
      /\ \A i, j \in 1..k : (cs[i] = cs[j] => i = j) /\
                            (i < j => PVCRequest[cs[i]] <= PVCRequest[cs[j]])
  BY DEF Orders
<1>3. /\ ds \in [1..m -> F]
      /\ \A i, j \in 1..m : i < j => size[n][ds[i]] <= size[n][ds[j]]
  BY DEF Orders
<1>4. \A d \in F : \E i \in 1..m : ds[i] = d
  BY OrderIsOnto
<1> HIDE DEF k, m
<1> SUFFICES ASSUME s[m] # k PROVE FALSE
  BY DEF k, m
<1>0. s = Served(n, cs, k, ds, m)
  OBVIOUS
<1> HIDE DEF s
<1>5. s[m] \in 0..k /\ s[m] < k
  <2>1. s[m] \in 0..k
    BY <1>0, <1>1, ServedChain
  <2> QED
    BY <1>1, <2>1
<1>6. PICK p \in 0..m : /\ s[p] \in 0..k
                        /\ s[m] - s[p] = m - p
                        /\ p # 0 => ~(PVCRequest[cs[s[p] + 1]] <= size[n][ds[p]])
                        /\ p = 0 => s[p] = 0
  BY <1>0, <1>1, <1>5, ServedChain
<1> DEFINE q == s[p]
<1>7. q \in 0..k /\ q < k /\ k - q > m - p
  BY <1>1, <1>5, <1>6
<1> HIDE DEF q
<1>8. ASSUME NEW x \in (q + 1)..k PROVE \E y \in (p + 1)..m : ds[y] = f[cs[x]]
  <2>1. x \in 1..k /\ q + 1 \in 1..k /\ cs[x] \in C /\ cs[q + 1] \in C
    BY <1>1, <1>2, <1>7
  <2>2. PICK y \in 1..m : ds[y] = f[cs[x]]
    BY <1>4, <2>1
  <2>3. PVCRequest[cs[x]] <= size[n][ds[y]]
    BY <2>1, <2>2 DEF Fit
  <2>4. PVCRequest[cs[q + 1]] <= PVCRequest[cs[x]]
    <3>1. CASE x = q + 1
      BY <2>1, <3>1
    <3>2. CASE x # q + 1
      BY <1>2, <1>7, <2>1, <3>2
    <3> QED
      BY <3>1, <3>2
  <2>5. ASSUME y <= p PROVE FALSE
    <3>1. p \in 1..m /\ p # 0
      BY <1>1, <2>5
    <3>2. size[n][ds[y]] <= size[n][ds[p]]
      <4>1. CASE y = p
        BY <1>3, <3>1, <4>1
      <4>2. CASE y # p
        BY <1>3, <2>5, <3>1, <4>2
      <4> QED
        BY <4>1, <4>2
    <3>3. /\ PVCRequest[cs[x]] \in Nat /\ PVCRequest[cs[q + 1]] \in Nat
          /\ size[n][ds[y]] \in Nat /\ size[n][ds[p]] \in Nat
      BY <1>3, <2>1, <3>1
    <3> QED
      BY <1>6, <2>3, <2>4, <3>1, <3>2, <3>3 DEF q
  <2> QED
    BY <1>1, <2>2, <2>5
<1> DEFINE X == (q + 1)..k
           Y == (p + 1)..m
           place == [x \in X |-> CHOOSE y \in Y : ds[y] = f[cs[x]]]
<1>9. place \in [X -> Y] /\ \A x \in X : ds[place[x]] = f[cs[x]]
  BY <1>8
<1>10. /\ IsFiniteSet(X) /\ Cardinality(X) = k - q
       /\ IsFiniteSet(Y) /\ Cardinality(Y) = m - p
  <2>1. q + 1 \in Int /\ k \in Int /\ p + 1 \in Int /\ m \in Int /\ q < k /\ p <= m
    BY <1>1, <1>7
  <2> QED
    <3>1. /\ IsFiniteSet(X) /\ Cardinality(X) = IF q + 1 > k THEN 0 ELSE k - (q + 1) + 1
          /\ IsFiniteSet(Y) /\ Cardinality(Y) = IF p + 1 > m THEN 0 ELSE m - (p + 1) + 1
      BY <2>1, FS_Interval
    <3> HIDE DEF X, Y
    <3>2. q \in Int /\ p \in Int
      BY <1>1, <1>7
    <3> QED
      BY <2>1, <3>1, <3>2
<1> HIDE DEF place
<1>11. PICK x1, x2 \in X : x1 # x2 /\ place[x1] = place[x2]
  <2>1. Cardinality(Y) < Cardinality(X)
    BY <1>1, <1>7, <1>10
  <2> HIDE DEF X, Y
  <2> QED
    BY <1>9, <1>10, <2>1, FS_PigeonHole
<1>12. f[cs[x1]] = f[cs[x2]] /\ x1 \in 1..k /\ x2 \in 1..k
  BY <1>1, <1>7, <1>9, <1>11
<1> QED
  BY <1>2, <1>11, <1>12

\* For any claims, disks, sizes and sort orders, in the unrestricted environment:
\* processDeviceByMediaType serves every claim whenever some assignment of free
\* devices would.
THEOREM GreedyLosesNothing == Spec => []GreedyIsComplete
<1>1. TypeOK => GreedyIsComplete
  <2> SUFFICES ASSUME TypeOK,
                      NEW n \in Nodes, NEW N \in SUBSET PVCs,
                      NEW media \in {PVCMedia[c] : c \in PVCs},
                      NEW f \in [ClaimsOf(N, media) -> FreeDevices(n, media)],
                      Fit(n, ClaimsOf(N, media), FreeDevices(n, media), f),
                      \A a, b \in ClaimsOf(N, media) : f[a] = f[b] => a = b,
                      NEW cs \in Orders(ClaimsOf(N, media), PVCRequest),
                      NEW ds \in Orders(FreeDevices(n, media), size[n])
               PROVE  Served(n, cs, Cardinality(ClaimsOf(N, media)), ds,
                             Cardinality(FreeDevices(n, media)))[Cardinality(FreeDevices(n, media))]
                        = Cardinality(ClaimsOf(N, media))
    BY DEF GreedyIsComplete
  <2> DEFINE C == ClaimsOf(N, media)
             F == FreeDevices(n, media)
  <2>1. C \in SUBSET PVCs /\ F \in SUBSET Devices
    BY DEF ClaimsOf, FreeDevices, TypeOK
  <2>2. IsFiniteSet(C) /\ IsFiniteSet(F)
    BY <2>1, FiniteAssumption, FS_Subset
  <2>3. (\A c \in C : PVCRequest[c] \in Nat) /\ (\A d \in F : size[n][d] \in Nat)
    BY <2>1 DEF TypeOK
  <2> QED
    BY <2>2, <2>3, GreedyServesAll
<1> QED
  BY <1>1, DeviceTypeCorrect, PTL
=============================================================================
