--------------------------- MODULE VGLedgerProofs ---------------------------
(* Theorems about VGLedger, for every instance that meets its assumptions. *)
EXTENDS VGLedger, FunctionTheorems, FiniteSetTheorems, TLAPS

USE MaxSizeAssumption

(***************************************************************************)
(* What Total does when the function it sums changes.                      *)
(***************************************************************************)

\* A function with a finite domain has finitely many units, so its total is a
\* natural number: the amounts the ledger handlers add and subtract are numbers.
LEMMA TotalType ==
    ASSUME NEW K, IsFiniteSet(K), NEW f \in [K -> 0..MaxSize]
    PROVE  IsFiniteSet(Units(f)) /\ Total(f) \in Nat
<1>1. IsFiniteSet(Sizes)
  BY MaxSizeAssumption, FS_Interval DEF Sizes
<1>2. IsFiniteSet(K \X Sizes)
  BY <1>1, FS_Product
<1>3. Units(f) \in SUBSET (K \X Sizes)
  BY DEF Units
<1>4. IsFiniteSet(Units(f))
  BY <1>2, <1>3, FS_Subset
<1> QED
  BY <1>4, FS_CardinalityType DEF Total

\* If every key's amount goes whole either to g or to h, the totals add up.
\* This is what removing or adding the details of one pod does to a pool.
LEMMA TotalSplit ==
    ASSUME NEW K, IsFiniteSet(K),
           NEW f \in [K -> 0..MaxSize], NEW g \in [K -> 0..MaxSize],
           NEW h \in [K -> 0..MaxSize],
           \A k \in K : \/ g[k] = f[k] /\ h[k] = 0
                        \/ g[k] = 0 /\ h[k] = f[k]
    PROVE  Total(f) = Total(g) + Total(h)
<1>1. Units(f) = Units(g) \cup Units(h)
  BY MaxSizeAssumption DEF Units, Sizes
<1>2. Units(g) \cap Units(h) = {}
  BY MaxSizeAssumption DEF Units, Sizes
<1>3. IsFiniteSet(Units(g)) /\ IsFiniteSet(Units(h))
  BY TotalType
<1>4. Total(g) \in Nat /\ Total(h) \in Nat
  BY TotalType
<1>5. Cardinality(Units(g) \cup Units(h))
        = Cardinality(Units(g)) + Cardinality(Units(h)) - Cardinality(Units(g) \cap Units(h))
  BY <1>3, FS_Union
<1>6. Cardinality(Units(g) \cap Units(h)) = 0
  BY <1>2, FS_EmptySet
<1> QED
  BY <1>1, <1>4, <1>5, <1>6 DEF Total

\* A function that is zero everywhere has total zero.
LEMMA TotalZero ==
    ASSUME NEW K, NEW f \in [K -> 0..MaxSize], \A k \in K : f[k] = 0
    PROVE  Total(f) = 0
<1>1. Units(f) = {}
  BY MaxSizeAssumption DEF Units, Sizes
<1> QED
  BY <1>1, FS_EmptySet DEF Total

\* A function that is zero away from k has total f[k].
LEMMA TotalPoint ==
    ASSUME NEW K, NEW f \in [K -> 0..MaxSize], NEW k \in K,
           \A j \in K : j # k => f[j] = 0
    PROVE  Total(f) = f[k]
<1> DEFINE count == [i \in 1..f[k] |-> <<k, i>>]
<1>1. f[k] \in Nat /\ 1..f[k] \subseteq Sizes
  BY MaxSizeAssumption DEF Sizes
<1>2. \A i \in 1..f[k] : count[i] \in Units(f)
  BY <1>1, MaxSizeAssumption DEF Units, Sizes
<1>3. \A q \in Units(f) : q[1] = k /\ q[2] \in 1..f[k] /\ q = <<k, q[2]>>
  BY MaxSizeAssumption DEF Units, Sizes
<1>4. count \in Bijection(1..f[k], Units(f))
  <2>1. count \in [1..f[k] -> Units(f)]
    BY <1>2
  <2>2. \A a, b \in 1..f[k] : count[a] = count[b] => a = b
    OBVIOUS
  <2>3. \A q \in Units(f) : \E i \in 1..f[k] : count[i] = q
    BY <1>3
  <2> QED
    BY <2>1, <2>2, <2>3, Fun_IsBij
<1>5. ExistsBijection(1..f[k], Units(f))
  BY <1>4 DEF ExistsBijection
<1> QED
  BY <1>1, <1>5, FS_CountingElements DEF Total

\* Changing one key's amount changes the total by the difference: one claim
\* reserved, one record replaced or one volume expanded.
LEMMA TotalUpdate ==
    ASSUME NEW K, IsFiniteSet(K),
           NEW f \in [K -> 0..MaxSize], NEW g \in [K -> 0..MaxSize], NEW k \in K,
           \A j \in K : j # k => g[j] = f[j]
    PROVE  Total(g) = Total(f) - f[k] + g[k]
<1> DEFINE rest == [j \in K |-> IF j = k THEN 0 ELSE f[j]]
           old  == [j \in K |-> IF j = k THEN f[j] ELSE 0]
           new  == [j \in K |-> IF j = k THEN g[j] ELSE 0]
<1>1. rest \in [K -> 0..MaxSize] /\ old \in [K -> 0..MaxSize] /\ new \in [K -> 0..MaxSize]
  BY MaxSizeAssumption
<1>2. Total(f) = Total(rest) + Total(old)
  <2>1. \A j \in K : \/ rest[j] = f[j] /\ old[j] = 0
                     \/ rest[j] = 0 /\ old[j] = f[j]
    OBVIOUS
  <2> HIDE DEF rest, old
  <2> QED
    BY <1>1, <2>1, TotalSplit
<1>3. Total(g) = Total(rest) + Total(new)
  <2>1. \A j \in K : \/ rest[j] = g[j] /\ new[j] = 0
                     \/ rest[j] = 0 /\ new[j] = g[j]
    OBVIOUS
  <2> HIDE DEF rest, new
  <2> QED
    BY <1>1, <2>1, TotalSplit
<1>4. Total(old) = f[k] /\ Total(new) = g[k]
  <2>1. \A j \in K : j # k => old[j] = 0 /\ new[j] = 0
    OBVIOUS
  <2>2. old[k] = f[k] /\ new[k] = g[k]
    OBVIOUS
  <2> HIDE DEF old, new
  <2> QED
    BY <1>1, <2>1, <2>2, TotalPoint
<1>5. Total(rest) \in Nat /\ f[k] \in Nat /\ g[k] \in Nat
  <2> HIDE DEF rest
  <2> QED
    BY <1>1, TotalType, MaxSizeAssumption
<1> QED
  BY <1>2, <1>3, <1>4, <1>5

(***************************************************************************)
(* Type correctness, and what Reserve and the inline volumes promise.      *)
(***************************************************************************)

\* The amount InlineSize charges or gives back is a natural number.
LEMMA InlineSizeType ==
    ASSUME NEW W, NEW v
    PROVE  InlineSize(W, v) \in Nat
<1> DEFINE f == [w \in Volumes |-> IF w \in W /\ VolVG[w] = v THEN VolSize[w] ELSE 0]
<1>1. f \in [Volumes -> 0..MaxSize]
  BY SizeAssumption DEF Sizes
<1> HIDE DEF f
<1>2. Total(f) \in Nat
  BY <1>1, FiniteAssumption, TotalType
<1> QED
  BY <1>2 DEF InlineSize, f

\* Giving back a claim's record keeps records and amounts well typed.
LEMMA RevertType ==
    ASSUME TypeOK, NEW n \in Nodes, NEW kn, NEW c \in PVCs \cup {NoPVC}
    PROVE  /\ DropClaimRecord(n, kn, c) \in [PVCs -> ClaimRecord \cup {NoRecord}]
           /\ \A v : Reverted(n, kn, c, v) \in Nat
BY NullAssumption DEF TypeOK, DropClaimRecord, Reverted, Reverts, ClaimRecord, Sizes

\* The initial state, an empty cache, is well typed.
LEMMA InitType == Init => TypeOK
BY NodeAssumption, NullAssumption DEF Init, TypeOK, NoUnits, AnyNode, Details, Phases, Sizes

\* Every step of the scheduling cycle keeps the types.
LEMMA CycleType == TypeOK /\ (Cycle \/ Rollback) => TypeOK'
<1> SUFFICES ASSUME TypeOK, Cycle \/ Rollback PROVE TypeOK'
  OBVIOUS
<1> USE DEF ledger, records, cycle, locked
<1> PICK p \in Pods :
        \/ \E bound \in SUBSET PodPVCs[p] : PreFilter(p, bound)
        \/ \E n \in Nodes : PreAllocate(p, n) \/ SkipReserve(p, n)
        \/ Unschedulable(p)
        \/ ReserveBegin(p)
        \/ \E c \in PVCs : ReserveClaimSkip(p, c) \/ ReserveClaim(p, c) \/ ReserveClaimFail(p, c)
        \/ \E w \in Volumes : ReserveVolume(p, w) \/ ReserveVolumeFail(p, w)
        \/ ReserveEnd(p)
        \/ \E c \in PVCs : UnreserveClaim(p, c)
        \/ UnreserveEnd(p)
        \/ Bind(p)
        \/ UnreserveBegin(p)
  BY DEF Cycle, Rollback
<1>1. CASE \E bound \in SUBSET PodPVCs[p] : PreFilter(p, bound)
  <2> PICK bound \in SUBSET PodPVCs[p] : PreFilter(p, bound)
    BY <1>1
  <2>1. {c \in PodPVCs[p] \ bound : pvcAllocated[c] = NoRecord} \in SUBSET PVCs
    BY ShapeAssumption
  <2> QED
    BY <2>1 DEF PreFilter, TypeOK, Phases
<1>2. CASE \E n \in Nodes : PreAllocate(p, n)
  BY <1>2 DEF PreAllocate, TypeOK, Phases
<1>3. CASE \E n \in Nodes : SkipReserve(p, n)
  BY <1>3 DEF SkipReserve, TypeOK, Phases
<1>4. CASE Unschedulable(p)
  BY <1>4 DEF Unschedulable, TypeOK, Phases
<1>5. CASE ReserveBegin(p)
  BY <1>5 DEF ReserveBegin, TypeOK, Phases, PodVols
<1>6. CASE \E c \in PVCs : ReserveClaimSkip(p, c)
  BY <1>6 DEF ReserveClaimSkip, TypeOK
<1>7. CASE \E c \in PVCs : ReserveClaim(p, c)
  <2> PICK c \in PVCs : ReserveClaim(p, c)
    BY <1>7
  <2> DEFINE n == at[p]  v == unitOf[p][c]
  <2>1. n \in Nodes /\ v \in VGs /\ PVCRequest[c] \in Sizes
    BY SizeAssumption DEF ReserveClaim, Fits, TypeOK
  <2>2. requested' \in [Nodes -> [VGs -> Int]]
    BY <2>1 DEF ReserveClaim, TypeOK, Sizes
  <2>3. pvcAllocated' \in [PVCs -> ClaimRecord \cup {NoRecord}]
    BY <2>1 DEF ReserveClaim, TypeOK, ClaimRecord
  <2> QED
    BY <2>2, <2>3 DEF ReserveClaim, TypeOK
<1>8. CASE \E c \in PVCs : ReserveClaimFail(p, c)
  BY <1>8, NullAssumption DEF ReserveClaimFail, ReserveError, TypeOK, Phases, NoUnits
<1>9. CASE \E w \in Volumes : ReserveVolume(p, w)
  <2> PICK w \in Volumes : ReserveVolume(p, w)
    BY <1>9
  <2>1. at[p] \in Nodes /\ VolVG[w] \in VGs /\ VolSize[w] \in Sizes
    BY SizeAssumption DEF ReserveVolume, Fits, TypeOK
  <2>2. requested' \in [Nodes -> [VGs -> Int]]
    BY <2>1 DEF ReserveVolume, TypeOK, Sizes
  <2> QED
    BY <2>1, <2>2 DEF ReserveVolume, TypeOK, Details
<1>10. CASE \E w \in Volumes : ReserveVolumeFail(p, w)
  BY <1>10, NullAssumption DEF ReserveVolumeFail, ReserveError, TypeOK, Phases, NoUnits
<1>11. CASE ReserveEnd(p)
  <2>1. CASE ReserveError(p)
    BY <2>1, NullAssumption DEF ReserveError, TypeOK, Phases, NoUnits
  <2>2. CASE /\ pc' = [pc EXCEPT ![p] = "reserved"]
             /\ unitOf' = [unitOf EXCEPT ![p] = NoUnits]
             /\ lock' = NoPod
             /\ UNCHANGED <<ledger, records, need, at, unitAllocated, todo, vtodo>>
    BY <2>2, NullAssumption DEF TypeOK, Phases, NoUnits
  <2> QED
    BY <1>11, <2>1, <2>2 DEF ReserveEnd
<1>12. CASE UnreserveBegin(p)
  BY <1>12 DEF UnreserveBegin, TypeOK, Phases
<1>13. CASE \E c \in PVCs : UnreserveClaim(p, c)
  <2> PICK c \in PVCs : UnreserveClaim(p, c)
    BY <1>13
  <2>1. at[p] \in Nodes
    BY DEF TypeOK
  <2>2. /\ pvcAllocated' \in [PVCs -> ClaimRecord \cup {NoRecord}]
        /\ \A v : Reverted(at[p], known[at[p]], c, v) \in Nat
    BY <2>1, RevertType DEF UnreserveClaim
  <2>3. requested' \in [Nodes -> [VGs -> Int]]
    BY <2>1, <2>2 DEF UnreserveClaim, TypeOK
  <2> QED
    BY <2>2, <2>3 DEF UnreserveClaim, TypeOK
<1>14. CASE UnreserveEnd(p)
  <2>1. at[p] \in Nodes /\ AnyNode \in Nodes
    BY NodeAssumption DEF TypeOK, AnyNode
  <2>2. requested' \in [Nodes -> [VGs -> Int]]
    BY <1>14, <2>1, InlineSizeType DEF UnreserveEnd, TypeOK
  <2> QED
    BY <1>14, <2>1, <2>2 DEF UnreserveEnd, TypeOK, Phases, Details
<1>15. CASE Bind(p)
  BY <1>15 DEF Bind, TypeOK, Phases
<1> QED
  BY <1>1, <1>2, <1>3, <1>4, <1>5, <1>6, <1>7, <1>8, <1>9, <1>10, <1>11, <1>12,
     <1>13, <1>14, <1>15

\* Every informer callback keeps the types.
LEMMA EventsType == TypeOK /\ Events => TypeOK'
<1> SUFFICES ASSUME TypeOK, Events PROVE TypeOK'
  OBVIOUS
<1> USE DEF ledger, records, cycle, locked
<1>1. CASE \E n \in Nodes, W \in SUBSET VGs, cap \in [VGs -> Capacities] :
              OnNodeLocalStorage(n, W, cap)
  <2> PICK n \in Nodes, W \in SUBSET VGs, cap \in [VGs -> Capacities] :
              OnNodeLocalStorage(n, W, cap)
    BY <1>1
  <2>1. /\ [v \in VGs |-> IF v \in W THEN cap[v] ELSE 0] \in [VGs -> Nat]
        /\ [v \in VGs |-> IF v \in W THEN requested[n][v] ELSE 0] \in [VGs -> Int]
    <3>1. \A v \in VGs : cap[v] \in Nat /\ requested[n][v] \in Int
      BY SizeAssumption DEF TypeOK
    <3> QED
      BY <3>1
  <2>2. allocatable' \in [Nodes -> [VGs -> Nat]] /\ requested' \in [Nodes -> [VGs -> Int]]
    BY <2>1 DEF OnNodeLocalStorage, CreateStatesByNodeLocal, StatesForUpdate, TypeOK
  <2> QED
    BY <2>2 DEF OnNodeLocalStorage, TypeOK
<1>2. CASE \E e \in PVEvents : OnPVUpdate(e)
  <2> PICK e \in PVEvents : OnPVUpdate(e)
    BY <1>2
  <2> DEFINE n == e.node  v == VGOfPV(e)  kn == known[n] \cup {v}
  <2>1. /\ n \in Nodes /\ e.pv \in PVs /\ e.claim \in PVCs \cup {NoPVC}
        /\ e.cap \in Sizes /\ v \in VGs
    BY DEF PVEvents, OnPVUpdate, VGOfPV, TypeOK, ClaimRecord
  <2>2. MaxRequest(e) \in Sizes
    BY <2>1 DEF MaxRequest, MaxOf, TypeOK, Sizes
  <2>3. DeltaAllocate(e) \in Int
    BY <2>1, <2>2 DEF DeltaAllocate, TypeOK, VolumeRecord, Sizes
  <2>4. /\ pvcAllocated' \in [PVCs -> ClaimRecord \cup {NoRecord}]
        /\ \A u : Reverted(n, kn, e.claim, u) \in Nat
    BY <2>1, RevertType DEF OnPVUpdate
  <2> HIDE DEF n, v, kn
  <2>5. requested' \in [Nodes -> [VGs -> Int]]
    <3> DEFINE row == [u \in VGs |-> requested[n][u] - Reverted(n, kn, e.claim, u)
                                       + (IF u = v THEN DeltaAllocate(e) ELSE 0)]
    <3>1. row \in [VGs -> Int]
      BY <2>1, <2>3, <2>4 DEF TypeOK, n
    <3>2. requested' = [requested EXCEPT ![n] = row]
      BY DEF OnPVUpdate, n, v, kn
    <3> QED
      BY <2>1, <3>1, <3>2 DEF TypeOK
  <2>6. pvAllocated' \in [PVs -> VolumeRecord \cup {NoRecord}]
    BY <2>1, <2>2 DEF OnPVUpdate, TypeOK, VolumeRecord, n, v
  <2>7. nls' \in [Nodes -> {"absent", "created", "inited"}] /\ known' \in [Nodes -> SUBSET VGs]
    BY <2>1 DEF OnPVUpdate, InitIfNeed, TypeOK, n, v
  <2> QED
    BY <2>4, <2>5, <2>6, <2>7 DEF OnPVUpdate, InitIfNeed, TypeOK
<1>3. CASE \E e \in PVEvents : OnPVDelete(e)
  <2> PICK e \in PVEvents : OnPVDelete(e)
    BY <1>3
  <2>1. /\ e.node \in Nodes /\ e.pv \in PVs /\ e.vg \in VGs
        /\ pvAllocated[e.pv] \in VolumeRecord
    BY DEF PVEvents, OnPVDelete, TypeOK
  <2>2. requested' \in [Nodes -> [VGs -> Int]]
    BY <2>1 DEF OnPVDelete, TypeOK, VolumeRecord, Sizes
  <2>3. pvcAllocated' \in [PVCs -> ClaimRecord \cup {NoRecord}]
    BY <2>1 DEF OnPVDelete, TypeOK
  <2>4. nls' \in [Nodes -> {"absent", "created", "inited"}] /\ known' \in [Nodes -> SUBSET VGs]
    BY <2>1 DEF OnPVDelete, InitIfNeed, TypeOK
  <2> QED
    BY <2>1, <2>2, <2>3, <2>4 DEF OnPVDelete, InitIfNeed, TypeOK
<1>4. CASE \E e \in PVCEvents : OnPVCUpdate(e)
  <2> PICK e \in PVCEvents : OnPVCUpdate(e)
    BY <1>4
  <2>1. e.node \in Nodes /\ e.pv \in PVs /\ e.claim \in PVCs /\ e.size \in Sizes
    BY DEF PVCEvents
  <2>2. pvcInfos' \in [PVCs -> 0..MaxSize]
    BY <2>1 DEF OnPVCUpdate, TypeOK, Sizes
  <2>3. CASE UNCHANGED <<ledger, pvAllocated>>
    BY <2>2, <2>3 DEF OnPVCUpdate, TypeOK
  <2>4. CASE ExpandDelta(e) > 0
    <3> DEFINE rec == pvAllocated[e.pv]
    <3>1. rec \in VolumeRecord
      BY <2>1, <2>4 DEF ExpandDelta, TypeOK
    <3>2. MaxOf(e.size, rec.req) \in Sizes /\ ExpandDelta(e) \in Int /\ rec.vg \in VGs
      BY <2>1, <3>1 DEF MaxOf, ExpandDelta, VolumeRecord, Sizes
    <3>3. /\ InitIfNeed(e.node, {rec.vg})
          /\ requested' = [requested EXCEPT ![e.node][rec.vg] = @ + ExpandDelta(e)]
          /\ pvAllocated' = [pvAllocated EXCEPT ![e.pv].alloc = MaxOf(e.size, rec.req)]
      BY <2>4, <3>2 DEF OnPVCUpdate
    <3>4. requested' \in [Nodes -> [VGs -> Int]]
      BY <2>1, <3>2, <3>3 DEF TypeOK
    <3>5. pvAllocated' \in [PVs -> VolumeRecord \cup {NoRecord}]
      BY <2>1, <3>1, <3>2, <3>3 DEF TypeOK, VolumeRecord
    <3>6. nls' \in [Nodes -> {"absent", "created", "inited"}] /\ known' \in [Nodes -> SUBSET VGs]
      BY <2>1, <3>2, <3>3 DEF InitIfNeed, TypeOK
    <3> QED
      BY <2>2, <3>3, <3>4, <3>5, <3>6 DEF OnPVCUpdate, InitIfNeed, TypeOK
  <2> QED
    BY <2>3, <2>4 DEF OnPVCUpdate
<1>5. CASE \E c \in PVCs : OnPVCDelete(c)
  BY <1>5 DEF OnPVCDelete, TypeOK
<1>6. CASE \E p \in Pods, n \in Nodes : OnPodGone(p, n)
  <2> PICK p \in Pods, n \in Nodes : OnPodGone(p, n)
    BY <1>6
  <2>1. requested' \in [Nodes -> [VGs -> Int]]
    BY InlineSizeType DEF OnPodGone, TypeOK
  <2> QED
    BY <2>1 DEF OnPodGone, TypeOK, Details
<1>7. CASE \E p \in Pods, n \in Nodes : \E W \in SUBSET Volumes : OnPodRunning(p, n, W)
  <2> PICK p \in Pods, n \in Nodes, W \in SUBSET Volumes : OnPodRunning(p, n, W)
    BY <1>7
  <2>1. requested' \in [Nodes -> [VGs -> Int]]
    BY InlineSizeType DEF OnPodRunning, TypeOK
  <2>2. {VolVG[w] : w \in W} \subseteq VGs
    BY ShapeAssumption DEF OnPodRunning, PodVols
  <2>3. nls' \in [Nodes -> {"absent", "created", "inited"}] /\ known' \in [Nodes -> SUBSET VGs]
    BY <2>2 DEF OnPodRunning, InitIfNeed, TypeOK
  <2>4. inline' \in [Nodes -> [Volumes -> Details]]
    BY DEF OnPodRunning, TypeOK, Details
  <2> QED
    BY <2>1, <2>3, <2>4 DEF OnPodRunning, InitIfNeed, TypeOK
<1> QED
  BY <1>1, <1>2, <1>3, <1>4, <1>5, <1>6, <1>7 DEF Events

\* Type correctness of the cache under any sequence of informer events and
\* scheduling cycles.
THEOREM TypeCorrect == Spec => []TypeOK
<1>1. TypeOK /\ [Next]_vars => TypeOK'
  <2>1. CASE UNCHANGED vars
    BY <2>1 DEF TypeOK, vars, ledger, records, cycle, locked
  <2> QED
    BY <2>1, CycleType, EventsType DEF Next
<1> QED
  BY <1>1, InitType, PTL DEF Spec

\* A step taken under the lock raises Requested only after checking it against
\* Allocatable; the other steps of the critical sections lower it or leave it.
LEMMA ReserveStep ==
    ASSUME TypeOK, Next, lock # NoPod, NEW m \in Nodes, NEW u \in VGs,
           requested'[m][u] > requested[m][u]
    PROVE  requested'[m][u] <= allocatable'[m][u]
<1> USE DEF ledger, records
<1>0. requested[m][u] \in Int /\ requested' \in [Nodes -> [VGs -> Int]]
  BY CycleType, EventsType DEF Next, TypeOK
<1>1. Cycle
  BY DEF Next, Rollback, UnreserveBegin, Events, OnNodeLocalStorage, OnPVUpdate, OnPVDelete,
         OnPVCUpdate, OnPVCDelete, OnPodGone, OnPodRunning
<1>2. PICK p \in Pods :
        \/ \E bound \in SUBSET PodPVCs[p] : PreFilter(p, bound)
        \/ \E n \in Nodes : PreAllocate(p, n) \/ SkipReserve(p, n)
        \/ Unschedulable(p)
        \/ ReserveBegin(p)
        \/ \E c \in PVCs : ReserveClaimSkip(p, c) \/ ReserveClaim(p, c) \/ ReserveClaimFail(p, c)
        \/ \E w \in Volumes : ReserveVolume(p, w) \/ ReserveVolumeFail(p, w)
        \/ ReserveEnd(p)
        \/ \E c \in PVCs : UnreserveClaim(p, c)
        \/ UnreserveEnd(p)
        \/ Bind(p)
  BY <1>1 DEF Cycle
<1>3. requested' # requested
  BY <1>0
<1>4. at[p] \in Nodes
  BY DEF TypeOK
<1>5. CASE \E c \in PVCs : ReserveClaim(p, c)
  <2> PICK c \in PVCs : ReserveClaim(p, c)
    BY <1>5
  <2>1. /\ requested' = [requested EXCEPT ![at[p]][unitOf[p][c]] = @ + PVCRequest[c]]
        /\ requested[at[p]][unitOf[p][c]] + PVCRequest[c] <= allocatable[at[p]][unitOf[p][c]]
        /\ allocatable' = allocatable
    BY DEF ReserveClaim, Fits
  <2>2. m = at[p] /\ u = unitOf[p][c]
    BY <1>0, <1>4, <2>1 DEF TypeOK
  <2>3. requested'[m][u] = requested[m][u] + PVCRequest[c]
    BY <2>1, <2>2 DEF TypeOK
  <2> QED
    BY <2>1, <2>2, <2>3
<1>6. CASE \E w \in Volumes : ReserveVolume(p, w)
  <2> PICK w \in Volumes : ReserveVolume(p, w)
    BY <1>6
  <2>1. /\ requested' = [requested EXCEPT ![at[p]][VolVG[w]] = @ + VolSize[w]]
        /\ requested[at[p]][VolVG[w]] + VolSize[w] <= allocatable[at[p]][VolVG[w]]
        /\ allocatable' = allocatable
    BY DEF ReserveVolume, Fits
  <2>2. m = at[p] /\ u = VolVG[w]
    BY <1>0, <1>4, <2>1 DEF TypeOK
  <2>3. requested'[m][u] = requested[m][u] + VolSize[w]
    BY <2>1, <2>2 DEF TypeOK
  <2> QED
    BY <2>1, <2>2, <2>3
<1>7. CASE \E c \in PVCs : UnreserveClaim(p, c)
  <2> PICK c \in PVCs : UnreserveClaim(p, c)
    BY <1>7
  <2>1. Reverted(at[p], known[at[p]], c, u) \in Nat
    BY <1>4, RevertType
  <2>2. m # at[p] => requested'[m][u] = requested[m][u]
    BY <1>4 DEF UnreserveClaim, TypeOK
  <2>3. m = at[p] => requested'[m][u] = requested[m][u] - Reverted(at[p], known[at[p]], c, u)
    BY <1>4 DEF UnreserveClaim, TypeOK
  <2> QED
    BY <1>0, <2>1, <2>2, <2>3
<1>8. CASE UnreserveEnd(p)
  <2> DEFINE W == {w \in PodVols(p) : inline[at[p]][w] = "reserved" /\ VolVG[w] \in known[at[p]]}
  <2>1. InlineSize(W, u) \in Nat
    BY InlineSizeType
  <2>2. m # at[p] => requested'[m][u] = requested[m][u]
    BY <1>4, <1>8 DEF UnreserveEnd, TypeOK
  <2>3. m = at[p] => requested'[m][u] = requested[m][u] - InlineSize(W, u)
    BY <1>4, <1>8 DEF UnreserveEnd, TypeOK
  <2> HIDE DEF W
  <2> QED
    BY <1>0, <2>1, <2>2, <2>3
<1> QED
  BY <1>2, <1>3, <1>5, <1>6, <1>7, <1>8
     DEF PreFilter, PreAllocate, SkipReserve, Unschedulable, ReserveBegin, ReserveClaimSkip,
         ReserveClaimFail, ReserveVolumeFail, ReserveError, ReserveEnd, Bind

\* No step of Reserve or Unreserve takes a pool beyond what its NLS reported,
\* whatever events were handled since the plan was made.
THEOREM ReserveBounded == Spec => ReserveWithinAllocatable
<1> DEFINE Bounded == \A n \in Nodes, v \in VGs :
              lock # NoPod /\ requested'[n][v] > requested[n][v] =>
                  requested'[n][v] <= allocatable'[n][v]
<1>1. TypeOK /\ [Next]_vars => [Bounded]_vars
  BY ReserveStep
<1> QED
  BY <1>1, TypeCorrect, PTL DEF Spec, ReserveWithinAllocatable

\* A step that reserves no inline volume and moves no live pod.
LEMMA InlineFrame ==
    ASSUME TypeOK, InlineReservationsOwned,
           \A n \in Nodes, w \in Volumes : inline'[n][w] = "reserved" => inline[n][w] = "reserved",
           \A p \in Pods : Live(p) => Live(p)' /\ at'[p] = at[p]
    PROVE  InlineReservationsOwned'
BY ShapeAssumption DEF InlineReservationsOwned

LEMMA CycleInline ==
    ASSUME InlineInv, Cycle \/ Rollback
    PROVE  InlineReservationsOwned' /\ ReservesOwnVolumes'
<1> USE DEF ledger, records, cycle, locked, InlineInv
<1> PICK p \in Pods :
        \/ \E bound \in SUBSET PodPVCs[p] : PreFilter(p, bound)
        \/ \E n \in Nodes : PreAllocate(p, n) \/ SkipReserve(p, n)
        \/ Unschedulable(p)
        \/ ReserveBegin(p)
        \/ \E c \in PVCs : ReserveClaimSkip(p, c) \/ ReserveClaim(p, c) \/ ReserveClaimFail(p, c)
        \/ \E w \in Volumes : ReserveVolume(p, w) \/ ReserveVolumeFail(p, w)
        \/ ReserveEnd(p)
        \/ \E c \in PVCs : UnreserveClaim(p, c)
        \/ UnreserveEnd(p)
        \/ Bind(p)
        \/ UnreserveBegin(p)
  BY DEF Cycle, Rollback
\* Before Reserve a pod is not live: it may still be sent to another node.
<1>1. CASE \/ \E bound \in SUBSET PodPVCs[p] : PreFilter(p, bound)
           \/ \E n \in Nodes : PreAllocate(p, n) \/ SkipReserve(p, n)
           \/ Unschedulable(p)
  <2>1. /\ UNCHANGED <<inline, lock, vtodo>> /\ ~Live(p) /\ pc'[p] # "reserving"
        /\ \A q \in Pods : q # p => pc'[q] = pc[q] /\ at'[q] = at[q]
    BY <1>1 DEF PreFilter, PreAllocate, SkipReserve, Unschedulable, TypeOK, Live
  <2> QED
    BY <2>1, InlineFrame DEF Live, ReservesOwnVolumes, TypeOK, PodVols
<1>2. CASE ReserveBegin(p)
  <2>1. /\ UNCHANGED <<inline, at>> /\ lock' = p /\ vtodo' = PodVols(p) /\ pc'[p] = "reserving"
        /\ \A q \in Pods : q # p => pc'[q] = pc[q]
    BY <1>2 DEF ReserveBegin, TypeOK
  <2> QED
    BY <2>1, InlineFrame DEF Live, ReservesOwnVolumes
<1>3. CASE \E c \in PVCs : ReserveClaimSkip(p, c) \/ ReserveClaim(p, c) \/ UnreserveClaim(p, c)
  <2>1. UNCHANGED <<inline, at, pc, lock, vtodo>>
    BY <1>3 DEF ReserveClaimSkip, ReserveClaim, UnreserveClaim
  <2> QED
    BY <2>1, InlineFrame DEF Live, ReservesOwnVolumes, PodVols
<1>4. CASE \/ \E c \in PVCs : ReserveClaimFail(p, c)
           \/ \E w \in Volumes : ReserveVolumeFail(p, w)
           \/ ReserveEnd(p)
  <2>1. /\ UNCHANGED <<inline, at>> /\ lock' = NoPod /\ pc'[p] \in {"failed", "reserved"}
        /\ \A q \in Pods : q # p => pc'[q] = pc[q]
    BY <1>4 DEF ReserveClaimFail, ReserveVolumeFail, ReserveEnd, ReserveError, TypeOK
  <2> QED
    BY <2>1, InlineFrame DEF Live, ReservesOwnVolumes
<1>5. CASE \E w \in Volumes : ReserveVolume(p, w)
  <2> PICK w \in Volumes : ReserveVolume(p, w)
    BY <1>5
  <2>1. /\ lock = p /\ pc[p] = "reserving" /\ w \in vtodo /\ vtodo' = vtodo \ {w}
        /\ UNCHANGED <<at, pc, lock>> /\ inline' = [inline EXCEPT ![at[p]][w] = "reserved"]
    BY DEF ReserveVolume, Reserving
  <2>2. VolPod[w] = p /\ vtodo \subseteq PodVols(p)
    BY <2>1, NullAssumption DEF ReservesOwnVolumes, PodVols
  <2>3. \A n \in Nodes, x \in Volumes :
           inline'[n][x] = "reserved" => inline[n][x] = "reserved" \/ (n = at[p] /\ x = w)
    BY <2>1 DEF TypeOK
  <2>4. InlineReservationsOwned'
    BY <2>1, <2>2, <2>3 DEF InlineReservationsOwned, Live
  <2> QED
    BY <2>1, <2>2, <2>4 DEF ReservesOwnVolumes, PodVols
<1>6. CASE UnreserveEnd(p)
  <2>1. /\ lock' = NoPod /\ \A q \in Pods : q # p => pc'[q] = pc[q] /\ at'[q] = at[q]
        /\ inline' = [inline EXCEPT ![at[p]] =
                        [w \in Volumes |-> IF w \in PodVols(p) THEN "none" ELSE inline[at[p]][w]]]
    BY <1>6 DEF UnreserveEnd, TypeOK
  <2>2. ASSUME NEW n \in Nodes, NEW w \in Volumes, inline'[n][w] = "reserved"
        PROVE  VolPod[w] # p /\ inline[n][w] = "reserved"
    <3>1. inline[n][w] = "reserved"
      BY <2>1, <2>2 DEF TypeOK
    <3>2. VolPod[w] = p => n = at[p] /\ w \in PodVols(p)
      BY <3>1 DEF InlineReservationsOwned, PodVols
    <3> QED
      BY <2>1, <2>2, <3>1, <3>2 DEF TypeOK
  <2>3. InlineReservationsOwned'
    BY <2>1, <2>2, ShapeAssumption DEF InlineReservationsOwned, Live
  <2> QED
    BY <2>1, <2>3 DEF ReservesOwnVolumes
<1>7. CASE Bind(p) \/ UnreserveBegin(p)
  <2>1. /\ UNCHANGED <<inline, at, vtodo>> /\ pc[p] \in {"reserved", "failed"}
        /\ pc'[p] \in {"bound", "unreserving"} /\ lock' \in {lock, p}
        /\ \A q \in Pods : q # p => pc'[q] = pc[q]
    BY <1>7 DEF Bind, UnreserveBegin, TypeOK
  <2> QED
    BY <2>1, InlineFrame DEF Live, ReservesOwnVolumes, TypeOK, PodVols
<1> QED
  BY <1>1, <1>2, <1>3, <1>4, <1>5, <1>6, <1>7

\* Pod events only write details of their own kind, or empty the list.
LEMMA EventsInline ==
    ASSUME InlineInv, Events
    PROVE  InlineReservationsOwned' /\ ReservesOwnVolumes'
<1> USE DEF ledger, records, cycle, locked, InlineInv
<1>1. UNCHANGED <<cycle, lock>> /\ lock = NoPod
  BY DEF Events, OnNodeLocalStorage, OnPVUpdate, OnPVDelete, OnPVCUpdate, OnPVCDelete,
         OnPodGone, OnPodRunning
<1>2. \A n \in Nodes, w \in Volumes : inline'[n][w] = "reserved" => inline[n][w] = "reserved"
  <2>1. ASSUME NEW p \in Pods, NEW n \in Nodes, OnPodGone(p, n)
        PROVE  \A m \in Nodes, w \in Volumes : inline'[m][w] = "reserved" => inline[m][w] = "reserved"
    BY <2>1 DEF OnPodGone, TypeOK
  <2>2. ASSUME NEW p \in Pods, NEW n \in Nodes, NEW W \in SUBSET Volumes, OnPodRunning(p, n, W)
        PROVE  \A m \in Nodes, w \in Volumes : inline'[m][w] = "reserved" => inline[m][w] = "reserved"
    BY <2>2 DEF OnPodRunning, TypeOK
  <2> QED
    BY <2>1, <2>2 DEF Events, OnNodeLocalStorage, OnPVUpdate, OnPVDelete, OnPVCUpdate, OnPVCDelete
<1>3. InlineReservationsOwned'
  BY <1>1, <1>2, InlineFrame DEF Live
<1> QED
  BY <1>1, <1>3 DEF ReservesOwnVolumes

\* The inline volumes Reserve charged belong to a pod whose Unreserve would
\* give them back, on the node where they are charged, whatever the pod
\* informer reports meanwhile.
THEOREM InlineOwned == Spec => []InlineReservationsOwned
<1>1. Init => InlineInv
  BY InitType DEF Init, InlineInv, InlineReservationsOwned, ReservesOwnVolumes
<1>2. InlineInv /\ [Next]_vars => InlineInv'
  <2> SUFFICES ASSUME InlineInv, [Next]_vars PROVE InlineInv'
    OBVIOUS
  <2>1. CASE UNCHANGED vars
    BY <2>1 DEF InlineInv, TypeOK, InlineReservationsOwned, ReservesOwnVolumes, Live, PodVols,
                vars, ledger, records, cycle, locked
  <2>2. CASE Next
    <3>1. TypeOK'
      BY <2>2, CycleType, EventsType DEF Next, InlineInv
    <3> QED
      BY <2>2, <3>1, CycleInline, EventsInline DEF Next, InlineInv
  <2> QED
    BY <2>1, <2>2
<1>3. InlineInv => InlineReservationsOwned
  BY DEF InlineInv
<1> QED
  BY <1>1, <1>2, <1>3, PTL DEF Spec

(***************************************************************************)
(* LedgerMatchesRecords holds in every behaviour of CleanSpec.  The        *)
(* inductive invariant is LedgerInv; each action gets one lemma that       *)
(* weighs what it does to Requested against what it does to the records.   *)
(* On top of it, OwnedInv gives every reservation an owner.                *)
(***************************************************************************)

AnyRecord == ClaimRecord \cup VolumeRecord \cup {NoRecord}

\* What one record holds of one pool is at most MaxSize.
LEMMA HeldByType ==
    ASSUME NEW r \in AnyRecord, NEW n, NEW v
    PROVE  HeldBy(r, n, v) \in 0..MaxSize
<1>1. CASE r = NoRecord
  BY <1>1 DEF HeldBy
<1>2. CASE r \in ClaimRecord
  <2>1. r.alloc \in 0..MaxSize
    BY <1>2 DEF ClaimRecord, Sizes
  <2> QED
    BY <2>1 DEF HeldBy
<1>3. CASE r \in VolumeRecord
  <2>1. r.alloc \in 0..MaxSize
    BY <1>3 DEF VolumeRecord, Sizes
  <2> QED
    BY <2>1 DEF HeldBy
<1> QED
  BY <1>1, <1>2, <1>3 DEF AnyRecord

\* The bytes held by a map of records form a natural number.
LEMMA RecordBytesType ==
    ASSUME NEW K, IsFiniteSet(K), NEW r \in [K -> AnyRecord], NEW n, NEW v
    PROVE  RecordBytes(r, n, v) \in Nat
<1> DEFINE f == [k \in DOMAIN r |-> HeldBy(r[k], n, v)]
<1>1. f \in [K -> 0..MaxSize]
  BY HeldByType
<1> HIDE DEF f
<1>2. Total(f) \in Nat
  BY <1>1, TotalType
<1> QED
  BY <1>2 DEF RecordBytes, f

\* Replacing one record changes the bytes held by the difference: Reserve of
\* one claim, a revert, a PV event or an expansion.
LEMMA RecordBytesUpdate ==
    ASSUME NEW K, IsFiniteSet(K), NEW r \in [K -> AnyRecord], NEW s \in [K -> AnyRecord],
           NEW k \in K, \A j \in K : j # k => s[j] = r[j], NEW n, NEW v
    PROVE  RecordBytes(s, n, v) = RecordBytes(r, n, v) - HeldBy(r[k], n, v) + HeldBy(s[k], n, v)
<1> DEFINE f == [j \in DOMAIN r |-> HeldBy(r[j], n, v)]
           g == [j \in DOMAIN s |-> HeldBy(s[j], n, v)]
<1>1. f \in [K -> 0..MaxSize] /\ g \in [K -> 0..MaxSize]
  BY HeldByType
<1>2. f[k] = HeldBy(r[k], n, v) /\ g[k] = HeldBy(s[k], n, v)
  OBVIOUS
<1>3. \A j \in K : j # k => g[j] = f[j]
  OBVIOUS
<1> HIDE DEF f, g
<1>4. Total(g) = Total(f) - f[k] + g[k]
  BY <1>1, <1>3, TotalUpdate
<1> QED
  BY <1>2, <1>4 DEF RecordBytes, f, g

\* Details recorded for the volumes of W, none of which had one, add InlineSize(W).
LEMMA InlineGrow ==
    ASSUME NEW d, NEW e, NEW W, NEW v,
           \A w \in Volumes : e[w] # "none" <=> (d[w] # "none" \/ w \in W),
           \A w \in Volumes : w \in W => d[w] = "none"
    PROVE  InlineBytes(e, v) = InlineBytes(d, v) + InlineSize(W, v)
<1> DEFINE D == {w \in Volumes : d[w] # "none"}
           E == {w \in Volumes : e[w] # "none"}
           f == [w \in Volumes |-> IF w \in E /\ VolVG[w] = v THEN VolSize[w] ELSE 0]
           g == [w \in Volumes |-> IF w \in D /\ VolVG[w] = v THEN VolSize[w] ELSE 0]
           h == [w \in Volumes |-> IF w \in W /\ VolVG[w] = v THEN VolSize[w] ELSE 0]
<1>0. \A w \in Volumes : VolSize[w] \in 0..MaxSize
  BY SizeAssumption DEF Sizes
<1>1. f \in [Volumes -> 0..MaxSize] /\ g \in [Volumes -> 0..MaxSize] /\ h \in [Volumes -> 0..MaxSize]
  <2> HIDE DEF D, E
  <2> QED
    BY <1>0
<1>2. \A w \in Volumes : w \in E <=> (w \in D \/ w \in W)
  OBVIOUS
<1>3. \A w \in Volumes : w \in W => w \notin D
  OBVIOUS
<1> HIDE DEF D, E
<1>4. \A w \in Volumes : \/ g[w] = f[w] /\ h[w] = 0
                         \/ g[w] = 0 /\ h[w] = f[w]
  BY <1>2, <1>3
<1>5. InlineBytes(e, v) = Total(f) /\ InlineBytes(d, v) = Total(g) /\ InlineSize(W, v) = Total(h)
  BY DEF InlineBytes, InlineSize, D, E
<1> HIDE DEF f, g, h
<1> QED
  BY <1>1, <1>4, <1>5, FiniteAssumption, TotalSplit

\* Volumes outside volume group v ask nothing of it.
LEMMA InlineSizeZero ==
    ASSUME NEW W, NEW v, \A w \in Volumes : w \in W => VolVG[w] # v
    PROVE  InlineSize(W, v) = 0
<1> DEFINE f == [w \in Volumes |-> IF w \in W /\ VolVG[w] = v THEN VolSize[w] ELSE 0]
<1>1. f \in [Volumes -> 0..MaxSize] /\ \A w \in Volumes : f[w] = 0
  OBVIOUS
<1> HIDE DEF f
<1> QED
  BY <1>1, TotalZero DEF InlineSize, f

\* Only the volumes of W in volume group v count.
LEMMA InlineSizeSame ==
    ASSUME NEW W, NEW X, NEW v,
           \A w \in Volumes : VolVG[w] = v => (w \in W <=> w \in X)
    PROVE  InlineSize(W, v) = InlineSize(X, v)
<1>1. [w \in Volumes |-> IF w \in W /\ VolVG[w] = v THEN VolSize[w] ELSE 0]
        = [w \in Volumes |-> IF w \in X /\ VolVG[w] = v THEN VolSize[w] ELSE 0]
  OBVIOUS
<1> QED
  BY <1>1 DEF InlineSize

Sound == UnknownPoolsEmpty /\ LedgerMatchesRecords

\* Both maps hold records, and all three sums are natural numbers.
LEMMA HeldType ==
    ASSUME TypeOK, NEW n \in Nodes, NEW v \in VGs
    PROVE  /\ pvcAllocated \in [PVCs -> AnyRecord] /\ pvAllocated \in [PVs -> AnyRecord]
           /\ RecordBytes(pvcAllocated, n, v) \in Nat
           /\ RecordBytes(pvAllocated, n, v) \in Nat
           /\ InlineBytes(inline[n], v) \in Nat
           /\ requested[n][v] \in Int
<1>1. pvcAllocated \in [PVCs -> AnyRecord]
  BY DEF TypeOK, AnyRecord
<1>2. pvAllocated \in [PVs -> AnyRecord]
  BY DEF TypeOK, AnyRecord
<1>3. requested[n][v] \in Int
  BY DEF TypeOK
<1> QED
  BY <1>1, <1>2, <1>3, RecordBytesType, InlineSizeType, FiniteAssumption DEF InlineBytes

\* Steps that touch neither Requested nor the records keep the books balanced.
LEMMA UntouchedSound ==
    ASSUME Sound, UNCHANGED <<known, requested, pvcAllocated, pvAllocated, inline>>
    PROVE  Sound'
BY DEF Sound, UnknownPoolsEmpty, LedgerMatchesRecords, Held

\* reserve of one claim unit.
LEMMA ReserveClaimSound ==
    ASSUME TypeOK, Sound, NEW p \in Pods, NEW c \in PVCs, ReserveClaim(p, c)
    PROVE  Sound'
<1> DEFINE n == at[p]  v == unitOf[p][c]  new == [node |-> n, vg |-> v, alloc |-> PVCRequest[c]]
<1>1. n \in Nodes /\ v \in known[n] /\ v \in VGs /\ PVCRequest[c] \in Sizes
  BY SizeAssumption DEF ReserveClaim, Fits, TypeOK
<1>2. new \in ClaimRecord /\ new # NoRecord
  BY <1>1, RecordAssumption DEF ClaimRecord
<1>3. pvcAllocated' = [pvcAllocated EXCEPT ![c] = new] /\ pvcAllocated[c] = NoRecord
  BY DEF ReserveClaim, AlreadyPlaced
<1>4. requested' = [requested EXCEPT ![n][v] = @ + PVCRequest[c]]
  BY DEF ReserveClaim
<1>5. UNCHANGED <<known, pvAllocated, inline>>
  BY DEF ReserveClaim
<1>6. ASSUME NEW m \in Nodes, NEW u \in VGs
      PROVE  (requested[m][u] = Held(m, u))'
  <2>1. RecordBytes(pvcAllocated', m, u)
          = RecordBytes(pvcAllocated, m, u) - HeldBy(NoRecord, m, u) + HeldBy(new, m, u)
    <3> HIDE DEF new
    <3>0. new \in AnyRecord
      BY <1>2 DEF AnyRecord
    <3>1. pvcAllocated \in [PVCs -> AnyRecord] /\ pvcAllocated' \in [PVCs -> AnyRecord]
      BY <1>3, <3>0, HeldType
    <3>2. pvcAllocated'[c] = new /\ \A j \in PVCs : j # c => pvcAllocated'[j] = pvcAllocated[j]
      BY <1>3, <3>1
    <3>3. RecordBytes(pvcAllocated', m, u)
            = RecordBytes(pvcAllocated, m, u) - HeldBy(pvcAllocated[c], m, u) + HeldBy(pvcAllocated'[c], m, u)
      BY <3>1, <3>2, RecordBytesUpdate, FiniteAssumption
    <3> QED
      BY <1>3, <3>2, <3>3
  <2>2. HeldBy(NoRecord, m, u) = 0 /\ HeldBy(new, m, u) = IF m = n /\ u = v THEN PVCRequest[c] ELSE 0
    BY <1>2 DEF HeldBy
  <2>3. requested'[m][u] = requested[m][u] + (IF m = n /\ u = v THEN PVCRequest[c] ELSE 0)
    BY <1>1, <1>4 DEF TypeOK
  <2>4. requested[m][u] = Held(m, u)
    BY DEF Sound, LedgerMatchesRecords
  <2>5. PVCRequest[c] \in Int
    BY <1>1 DEF Sizes
  <2> HIDE DEF new, n, v
  <2> QED
    BY <1>5, <2>1, <2>2, <2>3, <2>4, <2>5, HeldType DEF Held
<1>7. UnknownPoolsEmpty'
  BY <1>1, <1>4, <1>5 DEF Sound, UnknownPoolsEmpty, TypeOK
<1> QED
  BY <1>6, <1>7 DEF Sound, LedgerMatchesRecords

\* reserve of one inline volume, which has no detail yet.
LEMMA ReserveVolumeSound ==
    ASSUME TypeOK, LockDiscipline, Sound, NEW p \in Pods, NEW w \in Volumes, ReserveVolume(p, w)
    PROVE  Sound'
<1> DEFINE n == at[p]  v == VolVG[w]
<1>1. n \in Nodes /\ v \in known[n] /\ v \in VGs /\ VolSize[w] \in Sizes
  BY SizeAssumption DEF ReserveVolume, Fits, TypeOK
<1>2. inline[n][w] = "none"
  BY NullAssumption DEF ReserveVolume, Reserving, InlineClash, HasDetails, LockDiscipline
<1>3. inline' = [inline EXCEPT ![n][w] = "reserved"]
  BY DEF ReserveVolume
<1>4. requested' = [requested EXCEPT ![n][v] = @ + VolSize[w]]
  BY DEF ReserveVolume
<1>5. UNCHANGED <<known, pvAllocated, pvcAllocated>>
  BY DEF ReserveVolume
<1>6. ASSUME NEW m \in Nodes, NEW u \in VGs
      PROVE  (requested[m][u] = Held(m, u))'
  <2>1. InlineBytes(inline'[m], u) = InlineBytes(inline[m], u)
                                     + (IF m = n /\ u = v THEN VolSize[w] ELSE 0)
    <3>1. CASE m # n
      <4>1. inline'[m] = inline[m]
        BY <1>3, <3>1 DEF TypeOK
      <4>2. InlineBytes(inline[m], u) \in Nat
        BY HeldType
      <4> QED
        BY <3>1, <4>1, <4>2
    <3>2. CASE m = n
      <4>1. inline'[m][w] = "reserved" /\ \A x \in Volumes : x # w => inline'[m][x] = inline[m][x]
        BY <1>3, <3>2 DEF TypeOK
      <4>2. InlineBytes(inline'[m], u) = InlineBytes(inline[m], u) + InlineSize({w}, u)
        BY <1>2, <3>2, <4>1, InlineGrow
      <4>3. InlineSize({w}, u) = IF u = v THEN VolSize[w] ELSE 0
        <5> DEFINE f == [x \in Volumes |-> IF x \in {w} /\ VolVG[x] = u THEN VolSize[x] ELSE 0]
        <5>1. f \in [Volumes -> 0..MaxSize]
          BY SizeAssumption DEF Sizes
        <5>2. f[w] = (IF u = v THEN VolSize[w] ELSE 0) /\ \A x \in Volumes : x # w => f[x] = 0
          OBVIOUS
        <5> HIDE DEF f
        <5> QED
          BY <5>1, <5>2, TotalPoint DEF InlineSize, f
      <4> QED
        BY <3>2, <4>2, <4>3
    <3> QED
      BY <3>1, <3>2
  <2>2. requested'[m][u] = requested[m][u] + (IF m = n /\ u = v THEN VolSize[w] ELSE 0)
    BY <1>1, <1>4 DEF TypeOK
  <2>3. requested[m][u] = Held(m, u)
    BY DEF Sound, LedgerMatchesRecords
  <2>4. VolSize[w] \in Int
    BY <1>1 DEF Sizes
  <2> HIDE DEF n, v
  <2> QED
    BY <1>5, <2>1, <2>2, <2>3, <2>4, HeldType DEF Held
<1>7. UnknownPoolsEmpty'
  BY <1>1, <1>4, <1>5 DEF Sound, UnknownPoolsEmpty, TypeOK
<1> QED
  BY <1>6, <1>7 DEF Sound, LedgerMatchesRecords

\* A revert on the record's own node gives back exactly what the record held.
LEMMA RevertHeld ==
    ASSUME TypeOK, NEW n \in Nodes, NEW kn, NEW c \in PVCs \cup {NoPVC}, RecordOn(n, c),
           NEW m \in Nodes, NEW u \in VGs
    PROVE  RecordBytes(DropClaimRecord(n, kn, c), m, u)
             = RecordBytes(pvcAllocated, m, u) - (IF m = n THEN Reverted(n, kn, c, u) ELSE 0)
<1> DEFINE s == DropClaimRecord(n, kn, c)
<1>1. RecordBytes(pvcAllocated, m, u) \in Nat /\ pvcAllocated \in [PVCs -> AnyRecord]
  BY HeldType
<1>2. CASE ~Reverts(n, kn, c)
  BY <1>1, <1>2 DEF DropClaimRecord, Reverted
<1>3. CASE Reverts(n, kn, c)
  <2>1. c \in PVCs /\ pvcAllocated[c] # NoRecord /\ pvcAllocated[c].node = n
    BY <1>3 DEF Reverts, RecordOn
  <2>2. s = [pvcAllocated EXCEPT ![c] = NoRecord]
    BY <1>3 DEF DropClaimRecord
  <2>3. s \in [PVCs -> AnyRecord] /\ s[c] = NoRecord /\ \A j \in PVCs : j # c => s[j] = pvcAllocated[j]
    BY <1>1, <2>1, <2>2 DEF AnyRecord
  <2> HIDE DEF s
  <2>4. RecordBytes(s, m, u)
          = RecordBytes(pvcAllocated, m, u) - HeldBy(pvcAllocated[c], m, u) + HeldBy(s[c], m, u)
    BY <1>1, <2>1, <2>3, RecordBytesUpdate, FiniteAssumption
  <2>5. HeldBy(s[c], m, u) = 0
    BY <2>3 DEF HeldBy
  <2>6. HeldBy(pvcAllocated[c], m, u) = IF m = n THEN Reverted(n, kn, c, u) ELSE 0
    BY <1>3, <2>1 DEF HeldBy, Reverted
  <2>7. HeldBy(pvcAllocated[c], m, u) \in Int
    BY <1>1, <2>1, HeldByType
  <2> QED
    BY <1>1, <2>4, <2>5, <2>6, <2>7 DEF s
<1> QED
  BY <1>2, <1>3

\* unreserve of one claim unit.
LEMMA UnreserveClaimSound ==
    ASSUME TypeOK, LockDiscipline, Sound, NEW p \in Pods, NEW c \in PVCs, UnreserveClaim(p, c)
    PROVE  Sound'
<1> DEFINE n == at[p]
<1>1. n \in Nodes /\ RecordOn(n, c)
  BY NullAssumption DEF UnreserveClaim, LockDiscipline, TypeOK
<1>2. UNCHANGED <<known, pvAllocated, inline>>
  BY DEF UnreserveClaim
<1>3. \A u \in VGs : Reverted(n, known[n], c, u) \in Nat
  BY <1>1, RevertType
<1>4. ASSUME NEW m \in Nodes, NEW u \in VGs
      PROVE  /\ requested'[m][u] = requested[m][u] - (IF m = n THEN Reverted(n, known[n], c, u) ELSE 0)
             /\ (requested[m][u] = Held(m, u))'
  <2>1. requested'[m][u] = requested[m][u] - (IF m = n THEN Reverted(n, known[n], c, u) ELSE 0)
    <3>1. requested[m][u] \in Int
      BY HeldType
    <3> QED
      BY <1>1, <3>1 DEF UnreserveClaim, TypeOK
  <2>2. RecordBytes(pvcAllocated', m, u)
          = RecordBytes(pvcAllocated, m, u) - (IF m = n THEN Reverted(n, known[n], c, u) ELSE 0)
    BY <1>1, RevertHeld DEF UnreserveClaim
  <2>3. requested[m][u] = Held(m, u)
    BY DEF Sound, LedgerMatchesRecords
  <2> HIDE DEF n
  <2> QED
    BY <1>2, <1>3, <2>1, <2>2, <2>3, HeldType DEF Held
<1>5. UnknownPoolsEmpty'
  <2> SUFFICES ASSUME NEW m \in Nodes, NEW u \in VGs, u \notin known[m]
               PROVE  requested'[m][u] = 0
    BY <1>2 DEF UnknownPoolsEmpty
  <2>1. requested[m][u] = 0
    BY DEF Sound, UnknownPoolsEmpty
  <2>2. m = n => Reverted(n, known[n], c, u) = 0
    BY DEF Reverted, Reverts
  <2> QED
    BY <1>4, <2>1, <2>2
<1> QED
  BY <1>4, <1>5 DEF Sound, LedgerMatchesRecords

\* Forgetting the details of pod p on node n, and giving back those of W, keeps
\* the books balanced when W is every detail of p in a pool the cache knows.
LEMMA ForgetDetailsSound ==
    ASSUME TypeOK, Sound, NEW p \in Pods, NEW n \in Nodes,
           UNCHANGED <<known, pvcAllocated, pvAllocated>>,
           NEW W, W = {w \in PodVols(p) : inline[n][w] # "none" /\ VolVG[w] \in known[n]},
           requested' = [requested EXCEPT ![n] = [v \in VGs |-> requested[n][v] - InlineSize(W, v)]],
           inline' = [inline EXCEPT ![n] =
                        [w \in Volumes |-> IF w \in PodVols(p) THEN "none" ELSE inline[n][w]]]
    PROVE  Sound'
<1> DEFINE D == {w \in PodVols(p) : inline[n][w] # "none"}
<1>1. ASSUME NEW u \in VGs
      PROVE  /\ u \in known[n] => InlineSize(W, u) = InlineSize(D, u)
             /\ u \notin known[n] => InlineSize(W, u) = 0
  <2>1. CASE u \in known[n]
    <3>1. \A w \in Volumes : VolVG[w] = u => (w \in W <=> w \in D)
      BY <2>1
    <3> HIDE DEF D
    <3> QED
      BY <2>1, <3>1, InlineSizeSame
  <2>2. CASE u \notin known[n]
    <3>1. \A w \in Volumes : w \in W => VolVG[w] # u
      BY <2>2
    <3> QED
      BY <2>2, <3>1, InlineSizeZero
  <2> QED
    BY <2>1, <2>2
<1>2. ASSUME NEW u \in VGs
      PROVE  InlineBytes(inline[n], u) = InlineBytes(inline'[n], u) + InlineSize(D, u)
  <2>1. \A w \in Volumes : inline'[n][w] = IF w \in PodVols(p) THEN "none" ELSE inline[n][w]
    BY DEF TypeOK
  <2>2. \A w \in Volumes : inline[n][w] # "none" <=> (inline'[n][w] # "none" \/ w \in D)
    BY <2>1
  <2>3. \A w \in Volumes : w \in D => inline'[n][w] = "none"
    BY <2>1
  <2> HIDE DEF D
  <2> QED
    BY <2>2, <2>3, InlineGrow
<1>3. ASSUME NEW m \in Nodes, NEW u \in VGs
      PROVE  (requested[m][u] = Held(m, u))' /\ (u \notin known[m] => requested'[m][u] = 0)
  <2>1. requested[m][u] = Held(m, u) /\ (u \notin known[m] => requested[m][u] = 0)
    BY DEF Sound, LedgerMatchesRecords, UnknownPoolsEmpty
  <2>2. CASE m # n
    <3>1. requested'[m] = requested[m] /\ inline'[m] = inline[m]
      BY <2>2 DEF TypeOK
    <3> QED
      BY <2>1, <3>1 DEF Held
  <2>3. CASE m = n
    <3>1. requested'[n][u] = requested[n][u] - InlineSize(W, u)
      BY DEF TypeOK
    <3>2. /\ InlineSize(W, u) \in Nat /\ InlineSize(D, u) \in Nat
          /\ InlineBytes(inline'[n], u) \in Nat
      BY InlineSizeType DEF InlineBytes
    <3> HIDE DEF D
    <3>3. CASE u \in known[n]
      BY <1>1, <1>2, <2>1, <2>3, <3>1, <3>2, <3>3, HeldType DEF Held
    <3>4. CASE u \notin known[n]
      <4>1. InlineSize(W, u) = 0 /\ requested[n][u] = 0 /\ Held(n, u) = 0
        BY <1>1, <2>1, <2>3, <3>4
      <4>2. /\ RecordBytes(pvcAllocated, n, u) = 0 /\ RecordBytes(pvAllocated, n, u) = 0
            /\ InlineBytes(inline[n], u) = 0
        BY <4>1, HeldType DEF Held
      <4>3. InlineBytes(inline'[n], u) = 0
        BY <1>2, <3>2, <4>2
      <4> QED
        BY <2>3, <3>1, <4>1, <4>2, <4>3 DEF Held
    <3> QED
      BY <3>3, <3>4
  <2> QED
    BY <2>2, <2>3
<1> QED
  BY <1>3 DEF Sound, LedgerMatchesRecords, UnknownPoolsEmpty

\* The inline half of Unreserve.
LEMMA UnreserveEndSound ==
    ASSUME TypeOK, LockDiscipline, Sound, NEW p \in Pods, UnreserveEnd(p)
    PROVE  Sound'
<1> DEFINE n == at[p]
           W == {w \in PodVols(p) : inline[n][w] = "reserved" /\ VolVG[w] \in known[n]}
<1>1. n \in Nodes
  BY DEF TypeOK
<1>2. \A w \in PodVols(p) : inline[n][w] \in Details /\ inline[n][w] # "observed"
  BY <1>1, NullAssumption DEF UnreserveEnd, LockDiscipline, TypeOK, PodVols
<1>3. W = {w \in PodVols(p) : inline[n][w] # "none" /\ VolVG[w] \in known[n]}
  BY <1>2 DEF Details
<1>4. /\ requested' = [requested EXCEPT ![n] = [v \in VGs |-> requested[n][v] - InlineSize(W, v)]]
      /\ inline' = [inline EXCEPT ![n] =
                      [w \in Volumes |-> IF w \in PodVols(p) THEN "none" ELSE inline[n][w]]]
      /\ UNCHANGED <<known, pvcAllocated, pvAllocated>>
  BY DEF UnreserveEnd
<1> HIDE DEF n, W
<1> QED
  BY <1>1, <1>3, <1>4, ForgetDetailsSound

\* podDelete.
LEMMA OnPodGoneSound ==
    ASSUME TypeOK, Sound, NEW p \in Pods, NEW n \in Nodes, OnPodGone(p, n)
    PROVE  Sound'
<1> DEFINE W == {w \in PodVols(p) : inline[n][w] # "none" /\ VolVG[w] \in known[n]}
<1>1. /\ requested' = [requested EXCEPT ![n] = [v \in VGs |-> requested[n][v] - InlineSize(W, v)]]
      /\ inline' = [inline EXCEPT ![n] =
                      [w \in Volumes |-> IF w \in PodVols(p) THEN "none" ELSE inline[n][w]]]
      /\ UNCHANGED <<known, pvcAllocated, pvAllocated>>
  BY DEF OnPodGone
<1>2. W = {w \in PodVols(p) : inline[n][w] # "none" /\ VolVG[w] \in known[n]}
  OBVIOUS
<1> HIDE DEF W
<1> QED
  BY <1>1, <1>2, ForgetDetailsSound

\* podAdd of a pod whose inline volumes all name a volume group.
LEMMA OnPodRunningSound ==
    ASSUME TypeOK, Sound, NEW p \in Pods, NEW n \in Nodes, NEW W \in SUBSET Volumes,
           \A w \in PodVols(p) : VolVG[w] # NoVG, OnPodRunning(p, n, W)
    PROVE  Sound'
<1>1. /\ W = PodVols(p) /\ \A w \in Volumes : w \in W => inline[n][w] = "none"
      /\ UNCHANGED <<pvcAllocated, pvAllocated>>
  BY DEF OnPodRunning, HasDetails
<1>2. /\ requested' = [requested EXCEPT ![n] = [v \in VGs |-> requested[n][v] + InlineSize(W, v)]]
      /\ inline' = [inline EXCEPT ![n] =
                      [w \in Volumes |-> IF w \in W THEN "observed" ELSE inline[n][w]]]
      /\ known' = [known EXCEPT ![n] = known[n] \cup {VolVG[w] : w \in W}]
  BY DEF OnPodRunning, InitIfNeed
<1>3. ASSUME NEW m \in Nodes, NEW u \in VGs
      PROVE  (requested[m][u] = Held(m, u))' /\ (u \notin known'[m] => requested'[m][u] = 0)
  <2>1. requested[m][u] = Held(m, u) /\ (u \notin known[m] => requested[m][u] = 0)
    BY DEF Sound, LedgerMatchesRecords, UnknownPoolsEmpty
  <2>2. CASE m # n
    <3>1. requested'[m] = requested[m] /\ inline'[m] = inline[m] /\ known'[m] = known[m]
      BY <1>2, <2>2 DEF TypeOK
    <3> QED
      BY <1>1, <2>1, <3>1 DEF Held
  <2>3. CASE m = n
    <3>1. requested'[n][u] = requested[n][u] + InlineSize(W, u)
      BY <1>2 DEF TypeOK
    <3>2. \A w \in Volumes : inline'[n][w] = IF w \in W THEN "observed" ELSE inline[n][w]
      BY <1>2 DEF TypeOK
    <3>3. \A w \in Volumes : inline'[n][w] # "none" <=> (inline[n][w] # "none" \/ w \in W)
      BY <3>2
    <3>4. InlineBytes(inline'[n], u) = InlineBytes(inline[n], u) + InlineSize(W, u)
      BY <1>1, <3>3, InlineGrow
    <3>5. InlineSize(W, u) \in Nat
      BY InlineSizeType
    <3>6. (requested[m][u] = Held(m, u))'
      BY <1>1, <2>1, <2>3, <3>1, <3>4, <3>5, HeldType DEF Held
    <3>7. ASSUME u \notin known'[m] PROVE requested'[m][u] = 0
      <4>1. u \notin known[n] /\ \A w \in Volumes : w \in W => VolVG[w] # u
        BY <1>2, <2>3, <3>7 DEF TypeOK
      <4>2. InlineSize(W, u) = 0
        BY <4>1, InlineSizeZero
      <4> QED
        BY <2>1, <2>3, <3>1, <4>1, <4>2
    <3> QED
      BY <3>6, <3>7
  <2> QED
    BY <2>2, <2>3
<1> QED
  BY <1>3 DEF Sound, LedgerMatchesRecords, UnknownPoolsEmpty

\* An NLS update that drops only uncharged pools leaves every Requested as it was.
LEMMA OnNodeLocalStorageSound ==
    ASSUME TypeOK, Sound, NEW n \in Nodes, NEW W \in SUBSET VGs, NEW cap,
           \A v \in known[n] \ W : requested[n][v] = 0, OnNodeLocalStorage(n, W, cap)
    PROVE  Sound'
<1>1. known' = [known EXCEPT ![n] = W] /\ UNCHANGED <<pvcAllocated, pvAllocated, inline>>
  BY DEF OnNodeLocalStorage, records
<1>2. requested' = [requested EXCEPT ![n] = [v \in VGs |-> IF v \in W THEN requested[n][v] ELSE 0]]
  BY DEF OnNodeLocalStorage, StatesForUpdate
<1>3. ASSUME NEW m \in Nodes, NEW u \in VGs
      PROVE  requested'[m][u] = requested[m][u] /\ (u \notin known'[m] => requested'[m][u] = 0)
  <2>1. u \notin known[m] => requested[m][u] = 0
    BY DEF Sound, UnknownPoolsEmpty
  <2>2. CASE m # n
    BY <1>1, <1>2, <2>1, <2>2 DEF TypeOK
  <2>3. CASE m = n
    <3>1. requested'[n][u] = (IF u \in W THEN requested[n][u] ELSE 0) /\ known'[n] = W
      BY <1>1, <1>2 DEF TypeOK
    <3> QED
      BY <2>1, <2>3, <3>1
  <2> QED
    BY <2>2, <2>3
<1> QED
  BY <1>1, <1>3 DEF Sound, UnknownPoolsEmpty, LedgerMatchesRecords, Held

\* Replacing one volume record changes the bytes volumes hold by the difference.
LEMMA VolumeRecordHeld ==
    ASSUME TypeOK, NEW x \in PVs, NEW new \in VolumeRecord \cup {NoRecord},
           NEW m \in Nodes, NEW u \in VGs
    PROVE  RecordBytes([pvAllocated EXCEPT ![x] = new], m, u)
             = RecordBytes(pvAllocated, m, u) - HeldBy(pvAllocated[x], m, u) + HeldBy(new, m, u)
<1> DEFINE s == [pvAllocated EXCEPT ![x] = new]
<1>1. new \in AnyRecord /\ pvAllocated \in [PVs -> AnyRecord]
  BY HeldType DEF AnyRecord
<1>2. /\ s \in [PVs -> AnyRecord] /\ s[x] = new
      /\ \A j \in PVs : j # x => s[j] = pvAllocated[j]
  BY <1>1
<1> HIDE DEF s
<1>3. RecordBytes(s, m, u) = RecordBytes(pvAllocated, m, u)
                             - HeldBy(pvAllocated[x], m, u) + HeldBy(s[x], m, u)
  BY <1>1, <1>2, RecordBytesUpdate, FiniteAssumption
<1> QED
  BY <1>2, <1>3 DEF s

\* pvDelete of a volume on the node and pool of its record.
LEMMA OnPVDeleteSound ==
    ASSUME TypeOK, Sound, NEW e \in PVEvents, CleanPVDelete(e), OnPVDelete(e)
    PROVE  Sound'
<1> DEFINE rec == pvAllocated[e.pv]  n == e.node  v == e.vg
<1>1. /\ n \in Nodes /\ v \in VGs /\ e.pv \in PVs
      /\ rec \in VolumeRecord /\ rec # NoRecord /\ rec.node = n /\ rec.vg = v
  BY DEF PVEvents, OnPVDelete, TypeOK, CleanPVDelete
<1>2. pvcAllocated' = pvcAllocated
  <2>1. CASE rec.claim = NoPVC
    BY <2>1 DEF OnPVDelete
  <2>2. CASE rec.claim # NoPVC
    <3>1. pvcAllocated[rec.claim] = NoRecord
      BY <1>1, <2>2 DEF CleanPVDelete
    <3>2. pvcAllocated' = [pvcAllocated EXCEPT ![rec.claim] = NoRecord]
      BY <2>2 DEF OnPVDelete
    <3> QED
      BY <3>1, <3>2 DEF TypeOK
  <2> QED
    BY <2>1, <2>2
<1>3. /\ pvAllocated' = [pvAllocated EXCEPT ![e.pv] = NoRecord]
      /\ requested' = [requested EXCEPT ![n][v] = @ - rec.alloc]
      /\ known' = [known EXCEPT ![n] = @ \cup {v}]
      /\ inline' = inline
  BY DEF OnPVDelete, InitIfNeed
<1>4. rec.alloc \in Int
  BY <1>1 DEF VolumeRecord, Sizes
<1>5. ASSUME NEW m \in Nodes, NEW u \in VGs
      PROVE  (requested[m][u] = Held(m, u))' /\ (u \notin known'[m] => requested'[m][u] = 0)
  <2>1. requested[m][u] = Held(m, u) /\ (u \notin known[m] => requested[m][u] = 0)
    BY DEF Sound, LedgerMatchesRecords, UnknownPoolsEmpty
  <2>2. RecordBytes(pvAllocated', m, u)
          = RecordBytes(pvAllocated, m, u) - HeldBy(rec, m, u) + HeldBy(NoRecord, m, u)
    BY <1>1, <1>3, VolumeRecordHeld
  <2>3. HeldBy(NoRecord, m, u) = 0 /\ HeldBy(rec, m, u) = IF m = n /\ u = v THEN rec.alloc ELSE 0
    BY <1>1 DEF HeldBy
  <2>4. requested'[m][u] = requested[m][u] - (IF m = n /\ u = v THEN rec.alloc ELSE 0)
    <3>1. requested[m][u] \in Int
      BY HeldType
    <3> QED
      BY <1>1, <1>3, <1>4, <3>1 DEF TypeOK
  <2>5. u \notin known'[m] => u \notin known[m] /\ ~(m = n /\ u = v)
    BY <1>1, <1>3 DEF TypeOK
  <2> HIDE DEF rec, n, v
  <2>6. (requested[m][u] = Held(m, u))'
    BY <1>2, <1>3, <1>4, <2>1, <2>2, <2>3, <2>4, HeldType DEF Held
  <2> QED
    BY <2>1, <2>4, <2>5, <2>6
<1> QED
  BY <1>5 DEF Sound, LedgerMatchesRecords, UnknownPoolsEmpty

\* pvAdd and pvUpdate: the claim's reservation becomes the volume's charge.
LEMMA OnPVUpdateSound ==
    ASSUME TypeOK, Sound, NEW e \in PVEvents, CleanPVUpdate(e), OnPVUpdate(e)
    PROVE  Sound'
<1> DEFINE rec == pvAllocated[e.pv]  n == e.node  v == VGOfPV(e)  kn == known[n] \cup {v}
           new == [node |-> n, vg |-> v, claim |-> e.claim, req |-> e.cap, alloc |-> MaxRequest(e)]
           delta == DeltaAllocate(e)
<1>1. /\ n \in Nodes /\ v \in VGs /\ e.pv \in PVs /\ e.claim \in PVCs \cup {NoPVC}
      /\ e.cap \in Sizes
  BY DEF PVEvents, OnPVUpdate, VGOfPV, TypeOK, ClaimRecord
<1>2. MaxRequest(e) \in Sizes
  BY <1>1 DEF MaxRequest, MaxOf, TypeOK, Sizes
<1>3. new \in VolumeRecord /\ new # NoRecord
  BY <1>1, <1>2, RecordAssumption DEF VolumeRecord
<1>4. /\ rec \in VolumeRecord \cup {NoRecord}
      /\ rec # NoRecord => rec.node = n /\ rec.vg = v /\ rec.alloc \in Sizes
  BY <1>1 DEF CleanPVUpdate, TypeOK, VolumeRecord
<1>5. /\ delta = MaxRequest(e) - (IF rec = NoRecord THEN 0 ELSE rec.alloc)
      /\ delta \in Int /\ MaxRequest(e) \in Int
  BY <1>2, <1>4 DEF DeltaAllocate, Sizes
<1>6. /\ pvcAllocated' = DropClaimRecord(n, kn, e.claim)
      /\ known' = [known EXCEPT ![n] = @ \cup {v}] /\ inline' = inline
  BY DEF OnPVUpdate, InitIfNeed
<1>7. pvAllocated' = IF delta = 0 THEN pvAllocated ELSE [pvAllocated EXCEPT ![e.pv] = new]
  BY DEF OnPVUpdate
<1>8. requested' = [requested EXCEPT ![n] = [u \in VGs |->
                       requested[n][u] - Reverted(n, kn, e.claim, u)
                                       + (IF u = v THEN delta ELSE 0)]]
  BY DEF OnPVUpdate
<1>9. RecordOn(n, e.claim)
  BY DEF CleanPVUpdate
<1> HIDE DEF rec, n, v, kn, new, delta
<1>10. ASSUME NEW m \in Nodes, NEW u \in VGs
       PROVE  (requested[m][u] = Held(m, u))' /\ (u \notin known'[m] => requested'[m][u] = 0)
  <2> DEFINE back == IF m = n THEN Reverted(n, kn, e.claim, u) ELSE 0
             charge == IF m = n /\ u = v THEN delta ELSE 0
  <2>1. requested[m][u] = Held(m, u) /\ (u \notin known[m] => requested[m][u] = 0)
    BY DEF Sound, LedgerMatchesRecords, UnknownPoolsEmpty
  <2>2. back \in Int /\ charge \in Int
    <3>1. Reverted(n, kn, e.claim, u) \in Nat
      BY <1>1, RevertType
    <3> QED
      BY <1>5, <3>1
  <2>3. RecordBytes(pvcAllocated', m, u) = RecordBytes(pvcAllocated, m, u) - back
    BY <1>1, <1>6, <1>9, RevertHeld
  <2>4. RecordBytes(pvAllocated', m, u) = RecordBytes(pvAllocated, m, u) + charge
    <3>1. RecordBytes(pvAllocated, m, u) \in Nat
      BY HeldType
    <3>2. CASE delta = 0
      BY <1>7, <3>1, <3>2
    <3>3. CASE delta # 0
      <4>1. pvAllocated' = [pvAllocated EXCEPT ![e.pv] = new]
        BY <1>7, <3>3
      <4>2. RecordBytes(pvAllocated', m, u)
              = RecordBytes(pvAllocated, m, u) - HeldBy(rec, m, u) + HeldBy(new, m, u)
        BY <1>1, <1>3, <4>1, VolumeRecordHeld DEF rec
      <4>3. HeldBy(new, m, u) = IF m = n /\ u = v THEN MaxRequest(e) ELSE 0
        BY <1>3 DEF HeldBy, new
      <4>4. HeldBy(rec, m, u) = IF m = n /\ u = v /\ rec # NoRecord THEN rec.alloc ELSE 0
        BY <1>4 DEF HeldBy
      <4>5. rec # NoRecord => rec.alloc \in Int
        BY <1>4 DEF Sizes
      <4> QED
        BY <1>5, <3>1, <4>2, <4>3, <4>4, <4>5
    <3> QED
      BY <3>2, <3>3
  <2>5. requested'[m][u] = requested[m][u] - back + charge
    <3>1. requested[m][u] \in Int
      BY HeldType
    <3>2. CASE m # n
      BY <1>8, <3>1, <3>2 DEF TypeOK
    <3>3. CASE m = n
      <4>1. requested'[n][u] = requested[n][u] - Reverted(n, kn, e.claim, u)
                                 + (IF u = v THEN delta ELSE 0)
        BY <1>1, <1>8 DEF TypeOK
      <4> QED
        BY <3>3, <4>1
    <3> QED
      BY <3>2, <3>3
  <2>6. ASSUME u \notin known'[m] PROVE back = 0 /\ charge = 0 /\ u \notin known[m]
    <3>1. u \notin known[m] /\ (m = n => u \notin kn)
      BY <1>1, <1>6, <2>6 DEF TypeOK, kn
    <3>2. m = n => Reverted(n, kn, e.claim, u) = 0
      BY <3>1 DEF Reverted, Reverts
    <3>3. ~(m = n /\ u = v)
      BY <3>1 DEF kn
    <3> QED
      BY <3>1, <3>2, <3>3
  <2> HIDE DEF back, charge
  <2>7. (requested[m][u] = Held(m, u))'
    BY <1>6, <2>1, <2>2, <2>3, <2>4, <2>5, HeldType DEF Held
  <2> QED
    BY <2>1, <2>5, <2>6, <2>7
<1> QED
  BY <1>10 DEF Sound, LedgerMatchesRecords, UnknownPoolsEmpty

\* AddOrUpdatePVC: an expansion is charged to the pool of the volume's record.
LEMMA OnPVCUpdateSound ==
    ASSUME TypeOK, Sound, NEW e \in PVCEvents, CleanPVCUpdate(e), OnPVCUpdate(e)
    PROVE  Sound'
<1> DEFINE rec == pvAllocated[e.pv]  n == e.node  v == rec.vg  delta == ExpandDelta(e)
           new == [rec EXCEPT !.alloc = MaxOf(e.size, rec.req)]
<1>1. n \in Nodes /\ e.pv \in PVs /\ e.size \in Sizes
  BY DEF PVCEvents
<1>2. pvcAllocated' = pvcAllocated /\ inline' = inline
  BY DEF OnPVCUpdate
<1>3. CASE UNCHANGED <<ledger, pvAllocated>>
  BY <1>2, <1>3, UntouchedSound DEF ledger
<1>4. CASE ExpandDelta(e) > 0 /\ ~UNCHANGED <<ledger, pvAllocated>>
  <2>1. rec \in VolumeRecord /\ rec # NoRecord
    BY <1>1, <1>4, RecordAssumption DEF ExpandDelta, TypeOK
  <2>2. rec.node = n /\ v \in VGs /\ rec.alloc \in Sizes /\ MaxOf(e.size, rec.req) \in Sizes
    BY <1>1, <2>1 DEF CleanPVCUpdate, VolumeRecord, MaxOf, Sizes
  <2>3. delta = MaxOf(e.size, rec.req) - rec.alloc /\ delta \in Int
    BY <2>1, <2>2 DEF ExpandDelta, Sizes
  <2>4. new \in VolumeRecord /\ new # NoRecord /\ new.node = n /\ new.vg = v
        /\ new.alloc = MaxOf(e.size, rec.req)
    BY <2>1, <2>2, RecordAssumption DEF VolumeRecord
  <2>5. /\ requested' = [requested EXCEPT ![n][v] = @ + delta]
        /\ known' = [known EXCEPT ![n] = @ \cup {v}]
        /\ pvAllocated' = [pvAllocated EXCEPT ![e.pv].alloc = MaxOf(e.size, rec.req)]
    BY <1>4 DEF OnPVCUpdate, InitIfNeed
  <2>6. pvAllocated' = [pvAllocated EXCEPT ![e.pv] = new]
    BY <2>5
  <2> HIDE DEF rec, n, v, delta, new
  <2>7. ASSUME NEW m \in Nodes, NEW u \in VGs
        PROVE  (requested[m][u] = Held(m, u))' /\ (u \notin known'[m] => requested'[m][u] = 0)
    <3> DEFINE charge == IF m = n /\ u = v THEN delta ELSE 0
    <3>1. requested[m][u] = Held(m, u) /\ (u \notin known[m] => requested[m][u] = 0)
      BY DEF Sound, LedgerMatchesRecords, UnknownPoolsEmpty
    <3>2. RecordBytes(pvAllocated, m, u) \in Nat /\ requested[m][u] \in Int
      BY HeldType
    <3>3. RecordBytes(pvAllocated', m, u)
            = RecordBytes(pvAllocated, m, u) - HeldBy(rec, m, u) + HeldBy(new, m, u)
      BY <1>1, <2>4, <2>6, VolumeRecordHeld DEF rec
    <3>4. HeldBy(rec, m, u) = IF m = n /\ u = v THEN rec.alloc ELSE 0
      BY <2>1, <2>2 DEF HeldBy, v
    <3>5. HeldBy(new, m, u) = IF m = n /\ u = v THEN MaxOf(e.size, rec.req) ELSE 0
      BY <2>4 DEF HeldBy
    <3>6. rec.alloc \in Int /\ MaxOf(e.size, rec.req) \in Int
      BY <2>2 DEF Sizes
    <3>7. RecordBytes(pvAllocated', m, u) = RecordBytes(pvAllocated, m, u) + charge
      BY <2>3, <3>2, <3>3, <3>4, <3>5, <3>6
    <3>8. requested'[m][u] = requested[m][u] + charge
      BY <1>1, <2>2, <2>3, <2>5, <3>2 DEF TypeOK
    <3>9. u \notin known'[m] => u \notin known[m] /\ ~(m = n /\ u = v)
      BY <1>1, <2>5 DEF TypeOK
    <3>10. charge \in Int
      BY <2>3
    <3>11. (requested[m][u] = Held(m, u))'
      <4> HIDE DEF charge
      <4> QED
        BY <1>2, <3>1, <3>7, <3>8, <3>10, HeldType DEF Held
    <3> QED
      BY <3>1, <3>8, <3>9, <3>11
  <2> QED
    BY <2>7 DEF Sound, LedgerMatchesRecords, UnknownPoolsEmpty
<1> QED
  BY <1>3, <1>4 DEF OnPVCUpdate

\* The restricted steps are steps of the full specification, so types persist.
LEMMA CleanType == TypeOK /\ CleanNext => TypeOK'
<1>1. CleanRollback => Rollback
  BY DEF CleanRollback, Rollback
<1>2. CleanEvents => Events
  BY DEF CleanEvents, Events
<1> QED
  BY <1>1, <1>2, CycleType, EventsType DEF CleanNext

\* A Reserve or Unreserve in progress finds the records as its first step left them.
LEMMA LockStep == TypeOK /\ LockDiscipline /\ CleanNext => LockDiscipline'
<1> SUFFICES ASSUME TypeOK, LockDiscipline, CleanNext PROVE LockDiscipline'
  OBVIOUS
<1> USE DEF ledger, records, cycle, locked
<1>1. CASE Cycle
  <2> PICK p \in Pods :
        \/ \E bound \in SUBSET PodPVCs[p] : PreFilter(p, bound)
        \/ \E n \in Nodes : PreAllocate(p, n) \/ SkipReserve(p, n)
        \/ Unschedulable(p)
        \/ ReserveBegin(p)
        \/ \E c \in PVCs : ReserveClaimSkip(p, c) \/ ReserveClaim(p, c) \/ ReserveClaimFail(p, c)
        \/ \E w \in Volumes : ReserveVolume(p, w) \/ ReserveVolumeFail(p, w)
        \/ ReserveEnd(p)
        \/ \E c \in PVCs : UnreserveClaim(p, c)
        \/ UnreserveEnd(p)
        \/ Bind(p)
    BY <1>1 DEF Cycle
  <2>1. CASE \/ \E bound \in SUBSET PodPVCs[p] : PreFilter(p, bound)
             \/ \E n \in Nodes : PreAllocate(p, n)
             \/ \E c \in PVCs : ReserveClaimFail(p, c)
             \/ \E w \in Volumes : ReserveVolumeFail(p, w)
             \/ ReserveEnd(p) \/ UnreserveEnd(p)
    <3>1. lock' = NoPod
      BY <2>1 DEF PreFilter, PreAllocate, ReserveClaimFail, ReserveVolumeFail, ReserveError,
                  ReserveEnd, UnreserveEnd
    <3> QED
      BY <3>1 DEF LockDiscipline
  <2>2. CASE (\E n \in Nodes : SkipReserve(p, n)) \/ Unschedulable(p) \/ Bind(p)
    <3>1. /\ UNCHANGED <<lock, todo, vtodo, inline, pvcAllocated>>
          /\ pc'[p] \in {"reserved", "idle", "bound"}
          /\ \A q \in Pods : q # p => pc'[q] = pc[q] /\ at'[q] = at[q]
      BY <2>2 DEF SkipReserve, Unschedulable, Bind, TypeOK
    <3> QED
      BY <3>1 DEF LockDiscipline, RecordOn, TypeOK, PodVols
  <2>3. CASE ReserveBegin(p)
    <3>1. lock' = p /\ pc'[p] = "reserving" /\ vtodo' = PodVols(p)
      BY <2>3 DEF ReserveBegin, TypeOK
    <3> QED
      BY <3>1 DEF LockDiscipline
  <2>4. CASE \E c \in PVCs : ReserveClaimSkip(p, c) \/ ReserveClaim(p, c)
    <3>1. /\ UNCHANGED <<lock, vtodo, inline, at, pc>>
          /\ lock = p /\ pc[p] = "reserving"
      BY <2>4 DEF ReserveClaimSkip, ReserveClaim, Reserving
    <3> QED
      BY <3>1 DEF LockDiscipline
  <2>5. CASE \E w \in Volumes : ReserveVolume(p, w)
    <3> PICK w \in Volumes : ReserveVolume(p, w)
      BY <2>5
    <3>1. /\ UNCHANGED <<lock, at, pc>> /\ lock = p /\ pc[p] = "reserving"
          /\ vtodo' = vtodo \ {w} /\ inline' = [inline EXCEPT ![at[p]][w] = "reserved"]
      BY DEF ReserveVolume, Reserving
    <3>2. vtodo \subseteq PodVols(p) /\ \A x \in vtodo : inline[at[p]][x] = "none"
      BY <3>1, NullAssumption DEF ReserveVolume, InlineClash, HasDetails, LockDiscipline
    <3>3. \A x \in vtodo' : inline'[at[p]][x] = "none"
      BY <3>1, <3>2 DEF TypeOK
    <3> QED
      BY <3>1, <3>2, <3>3 DEF LockDiscipline
  <2>6. CASE \E c \in PVCs : UnreserveClaim(p, c)
    <3> PICK c \in PVCs : UnreserveClaim(p, c)
      BY <2>6
    <3>1. /\ UNCHANGED <<lock, inline, at, pc>> /\ lock = p /\ pc[p] = "unreserving"
          /\ todo' = todo \ {c} /\ pvcAllocated' = DropClaimRecord(at[p], known[at[p]], c)
      BY DEF UnreserveClaim
    <3>2. \A d \in PVCs : pvcAllocated'[d] = pvcAllocated[d] \/ pvcAllocated'[d] = NoRecord
      BY <3>1 DEF DropClaimRecord, TypeOK
    <3>3. \A d \in todo' : RecordOn(at[p], d)'
      BY <3>1, <3>2, NullAssumption DEF LockDiscipline, RecordOn, TypeOK
    <3> QED
      BY <3>1, <3>3, NullAssumption DEF LockDiscipline
  <2> QED
    BY <2>1, <2>2, <2>3, <2>4, <2>5, <2>6
<1>2. CASE CleanRollback
  <2> PICK p \in Pods : /\ \A c \in unitAllocated[p] : RecordOn(at[p], c)
                        /\ \A w \in PodVols(p) : inline[at[p]][w] # "observed"
                        /\ UnreserveBegin(p)
    BY <1>2 DEF CleanRollback
  <2>1. /\ lock' = p /\ pc'[p] = "unreserving" /\ todo' = unitAllocated[p]
        /\ UNCHANGED <<pvcAllocated, at, inline>>
    BY DEF UnreserveBegin, TypeOK
  <2> QED
    BY <2>1 DEF LockDiscipline, RecordOn
<1>3. CASE CleanEvents
  <2>1. lock' = NoPod
    BY <1>3 DEF CleanEvents, OnNodeLocalStorage, OnPVUpdate, OnPVDelete, OnPVCUpdate,
                OnPVCDelete, OnPodGone, OnPodRunning
  <2> QED
    BY <2>1 DEF LockDiscipline
<1> QED
  BY <1>1, <1>2, <1>3 DEF CleanNext

\* Every step of CleanNext keeps Requested equal to what the records hold.
LEMMA SoundStep == TypeOK /\ LockDiscipline /\ Sound /\ CleanNext => Sound'
<1> SUFFICES ASSUME TypeOK, LockDiscipline, Sound, CleanNext PROVE Sound'
  OBVIOUS
<1> USE DEF ledger, records
<1>1. CASE Cycle
  <2> PICK p \in Pods :
        \/ \E bound \in SUBSET PodPVCs[p] : PreFilter(p, bound)
        \/ \E n \in Nodes : PreAllocate(p, n) \/ SkipReserve(p, n)
        \/ Unschedulable(p)
        \/ ReserveBegin(p)
        \/ \E c \in PVCs : ReserveClaimSkip(p, c) \/ ReserveClaim(p, c) \/ ReserveClaimFail(p, c)
        \/ \E w \in Volumes : ReserveVolume(p, w) \/ ReserveVolumeFail(p, w)
        \/ ReserveEnd(p)
        \/ \E c \in PVCs : UnreserveClaim(p, c)
        \/ UnreserveEnd(p)
        \/ Bind(p)
    BY <1>1 DEF Cycle
  <2>1. CASE \/ \E bound \in SUBSET PodPVCs[p] : PreFilter(p, bound)
             \/ \E n \in Nodes : PreAllocate(p, n) \/ SkipReserve(p, n)
             \/ Unschedulable(p) \/ ReserveBegin(p)
             \/ \E c \in PVCs : ReserveClaimSkip(p, c) \/ ReserveClaimFail(p, c)
             \/ \E w \in Volumes : ReserveVolumeFail(p, w)
             \/ ReserveEnd(p) \/ Bind(p)
    <3>1. UNCHANGED <<known, requested, pvcAllocated, pvAllocated, inline>>
      BY <2>1 DEF PreFilter, PreAllocate, SkipReserve, Unschedulable, ReserveBegin,
                  ReserveClaimSkip, ReserveClaimFail, ReserveVolumeFail, ReserveError,
                  ReserveEnd, Bind
    <3> QED
      BY <3>1, UntouchedSound
  <2>2. CASE \E c \in PVCs : ReserveClaim(p, c)
    BY <2>2, ReserveClaimSound
  <2>3. CASE \E w \in Volumes : ReserveVolume(p, w)
    BY <2>3, ReserveVolumeSound
  <2>4. CASE \E c \in PVCs : UnreserveClaim(p, c)
    BY <2>4, UnreserveClaimSound
  <2>5. CASE UnreserveEnd(p)
    BY <2>5, UnreserveEndSound
  <2> QED
    BY <2>1, <2>2, <2>3, <2>4, <2>5
<1>2. CASE CleanRollback
  <2>1. UNCHANGED <<known, requested, pvcAllocated, pvAllocated, inline>>
    BY <1>2 DEF CleanRollback, UnreserveBegin
  <2> QED
    BY <2>1, UntouchedSound
<1>3. CASE CleanEvents
  <2>1. CASE \E n \in Nodes, W \in SUBSET VGs, cap \in [VGs -> Capacities] :
                /\ \A v \in known[n] \ W : requested[n][v] = 0
                /\ OnNodeLocalStorage(n, W, cap)
    BY <2>1, OnNodeLocalStorageSound
  <2>2. CASE \E e \in PVEvents : CleanPVUpdate(e) /\ OnPVUpdate(e)
    BY <2>2, OnPVUpdateSound
  <2>3. CASE \E e \in PVEvents : CleanPVDelete(e) /\ OnPVDelete(e)
    BY <2>3, OnPVDeleteSound
  <2>4. CASE \E e \in PVCEvents : CleanPVCUpdate(e) /\ OnPVCUpdate(e)
    BY <2>4, OnPVCUpdateSound
  <2>5. CASE \E c \in PVCs : pvcAllocated[c] = NoRecord /\ OnPVCDelete(c)
    <3>1. pvcAllocated' = pvcAllocated /\ UNCHANGED <<known, requested, pvAllocated, inline>>
      BY <2>5 DEF OnPVCDelete, TypeOK
    <3> QED
      BY <3>1, UntouchedSound
  <2>6. CASE \E p \in Pods, n \in Nodes : OnPodGone(p, n)
    BY <2>6, OnPodGoneSound
  <2>7. CASE \E p \in Pods, n \in Nodes, W \in SUBSET Volumes :
                /\ \A w \in PodVols(p) : VolVG[w] # NoVG
                /\ OnPodRunning(p, n, W)
    BY <2>7, OnPodRunningSound
  <2> QED
    BY <1>3, <2>1, <2>2, <2>3, <2>4, <2>5, <2>6, <2>7 DEF CleanEvents
<1> QED
  BY <1>1, <1>2, <1>3 DEF CleanNext

\* The empty cache satisfies the inductive invariant.
LEMMA InitSound == Init => LockDiscipline /\ Sound
<1> SUFFICES ASSUME Init PROVE LockDiscipline /\ Sound
  OBVIOUS
<1>1. LockDiscipline
  BY DEF Init, LockDiscipline
<1>2. UnknownPoolsEmpty
  BY DEF Init, UnknownPoolsEmpty
<1>3. ASSUME NEW n \in Nodes, NEW v \in VGs PROVE requested[n][v] = Held(n, v)
  <2>1. RecordBytes(pvcAllocated, n, v) = 0
    <3> DEFINE f == [k \in DOMAIN pvcAllocated |-> HeldBy(pvcAllocated[k], n, v)]
    <3>1. f \in [PVCs -> 0..MaxSize] /\ \A k \in PVCs : f[k] = 0
      BY DEF Init, HeldBy
    <3> HIDE DEF f
    <3> QED
      BY <3>1, TotalZero DEF RecordBytes, f
  <2>2. RecordBytes(pvAllocated, n, v) = 0
    <3> DEFINE f == [k \in DOMAIN pvAllocated |-> HeldBy(pvAllocated[k], n, v)]
    <3>1. f \in [PVs -> 0..MaxSize] /\ \A k \in PVs : f[k] = 0
      BY DEF Init, HeldBy
    <3> HIDE DEF f
    <3> QED
      BY <3>1, TotalZero DEF RecordBytes, f
  <2>3. InlineBytes(inline[n], v) = 0
    <3>1. \A w \in Volumes : w \in {x \in Volumes : inline[n][x] # "none"} => VolVG[w] # v
      BY DEF Init
    <3> QED
      BY <3>1, InlineSizeZero DEF InlineBytes
  <2> QED
    BY <2>1, <2>2, <2>3 DEF Init, Held
<1> QED
  BY <1>1, <1>2, <1>3 DEF Sound, LedgerMatchesRecords

LEMMA LedgerStep == LedgerInv /\ [CleanNext]_vars => LedgerInv'
<1> SUFFICES ASSUME LedgerInv, [CleanNext]_vars PROVE LedgerInv'
  OBVIOUS
<1>1. TypeOK /\ LockDiscipline /\ Sound
  BY DEF LedgerInv, Sound
<1>2. CASE UNCHANGED vars
  <2>1. TypeOK'
    BY <1>1, <1>2 DEF TypeOK, vars, ledger, records, cycle, locked
  <2>2. LockDiscipline'
    BY <1>1, <1>2 DEF LockDiscipline, RecordOn, vars, ledger, records, cycle, locked
  <2>3. Sound'
    BY <1>1, <1>2, UntouchedSound DEF vars, ledger, records
  <2> QED
    BY <2>1, <2>2, <2>3 DEF LedgerInv, Sound
<1>3. CASE CleanNext
  BY <1>1, <1>3, CleanType, LockStep, SoundStep DEF LedgerInv, Sound
<1> QED
  BY <1>2, <1>3

\* The ledger always equals the records, however Reserve, Unreserve and the
\* informer callbacks interleave, for every number of nodes, pools, claims,
\* volumes and pods.
THEOREM LedgerCorrect == CleanSpec => []LedgerMatchesRecords
<1>1. Init => LedgerInv
  BY InitType, InitSound DEF LedgerInv, Sound
<1>2. LedgerInv => LedgerMatchesRecords
  BY DEF LedgerInv
<1> QED
  BY <1>1, <1>2, LedgerStep, PTL DEF CleanSpec

----------------------------------------------------------------------------
(* Who owns a reservation *)

\* A record is part of what its pool holds.
LEMMA RecordIsHeld ==
    ASSUME TypeOK, NEW c \in PVCs, NEW n \in Nodes, NEW v \in VGs
    PROVE  RecordBytes(pvcAllocated, n, v) >= HeldBy(pvcAllocated[c], n, v)
<1> DEFINE s == [pvcAllocated EXCEPT ![c] = NoRecord]
<1>1. pvcAllocated \in [PVCs -> AnyRecord] /\ RecordBytes(pvcAllocated, n, v) \in Nat
  BY HeldType
<1>2. s \in [PVCs -> AnyRecord] /\ s[c] = NoRecord /\ \A j \in PVCs : j # c => s[j] = pvcAllocated[j]
  BY <1>1 DEF AnyRecord
<1> HIDE DEF s
<1>3. RecordBytes(s, n, v) \in Nat
  BY <1>2, RecordBytesType, FiniteAssumption
<1>4. RecordBytes(s, n, v) = RecordBytes(pvcAllocated, n, v) - HeldBy(pvcAllocated[c], n, v)
                               + HeldBy(s[c], n, v)
  BY <1>1, <1>2, RecordBytesUpdate, FiniteAssumption
<1>5. HeldBy(s[c], n, v) = 0 /\ HeldBy(pvcAllocated[c], n, v) \in 0..MaxSize
  BY <1>1, <1>2, HeldByType DEF HeldBy
<1> QED
  BY <1>1, <1>3, <1>4, <1>5

\* Unreserve never takes revertIfNeed's early return: the pool of a record is
\* charged, so the cache still knows it.
LEMMA UnreserveReverts ==
    ASSUME TypeOK, Sound, NEW n \in Nodes, NEW c \in PVCs, RecordOn(n, c),
           ReservedNodesInited, pvcAllocated[c] # NoRecord
    PROVE  Reverts(n, known[n], c)
<1> DEFINE r == pvcAllocated[c]
<1>1. r \in ClaimRecord /\ r.node = n /\ r.vg \in VGs /\ r.alloc \in 1..MaxSize
  BY NullAssumption DEF TypeOK, RecordOn, ClaimRecord, Sizes
<1>2. HeldBy(r, n, r.vg) = r.alloc
  BY <1>1 DEF HeldBy
<1>3. RecordBytes(pvcAllocated, n, r.vg) >= r.alloc
  BY <1>1, <1>2, RecordIsHeld
<1>4. requested[n][r.vg] # 0
  <2>1. requested[n][r.vg] = RecordBytes(pvcAllocated, n, r.vg) + RecordBytes(pvAllocated, n, r.vg)
                               + InlineBytes(inline[n], r.vg)
    BY <1>1 DEF Sound, LedgerMatchesRecords, Held
  <2>2. /\ RecordBytes(pvcAllocated, n, r.vg) \in Nat /\ RecordBytes(pvAllocated, n, r.vg) \in Nat
        /\ InlineBytes(inline[n], r.vg) \in Nat
    BY <1>1, HeldType
  <2> HIDE DEF r
  <2> QED
    BY <1>1, <1>3, <2>1, <2>2
<1>5. r.vg \in known[n]
  BY <1>1, <1>4 DEF Sound, UnknownPoolsEmpty
<1>6. nls[n] = "inited"
  BY <1>1 DEF ReservedNodesInited
<1> QED
  BY <1>5, <1>6, NullAssumption DEF Reverts

Owned == ReservationsOwned /\ UnreserveCoversUnits /\ ReservedNodesInited

\* A step that writes no claim record, takes no unit from a pod, moves no live
\* pod and starts no critical section.
LEMMA OwnedFrame ==
    ASSUME TypeOK, Owned,
           \A n \in Nodes : nls[n] = "inited" => nls'[n] = "inited",
           \A c \in PVCs : pvcAllocated'[c] \in {pvcAllocated[c], NoRecord},
           unitAllocated' = unitAllocated, todo' = todo \/ lock' = NoPod,
           \A p \in Pods : Live(p) => Live(p)' /\ at'[p] = at[p],
           lock' # NoPod => /\ lock' = lock
                            /\ pc'[lock] \in {"reserving", "unreserving"} => pc'[lock] = pc[lock]
    PROVE  Owned'
<1>1. ReservationsOwned'
  <2> SUFFICES ASSUME NEW c \in PVCs, pvcAllocated'[c] # NoRecord
               PROVE  \E p \in Pods : /\ Live(p)' /\ c \in unitAllocated'[p]
                                      /\ at'[p] = pvcAllocated'[c].node
    BY DEF ReservationsOwned
  <2>1. PICK p \in Pods : Live(p) /\ c \in unitAllocated[p] /\ at[p] = pvcAllocated[c].node
    BY DEF Owned, ReservationsOwned
  <2> QED
    BY <2>1
<1>2. UnreserveCoversUnits'
  BY DEF Owned, UnreserveCoversUnits
<1>3. ReservedNodesInited'
  <2>1. lock' # NoPod /\ pc'[lock'] = "reserving" => nls'[at'[lock']] = "inited"
    <3> SUFFICES ASSUME lock' # NoPod, pc'[lock'] = "reserving"
                 PROVE  nls'[at'[lock']] = "inited"
      OBVIOUS
    <3>1. lock' = lock /\ pc[lock] = "reserving" /\ lock \in Pods
      BY DEF TypeOK
    <3>2. nls[at[lock]] = "inited" /\ at'[lock] = at[lock] /\ at[lock] \in Nodes
      BY <3>1 DEF Owned, ReservedNodesInited, Live, TypeOK
    <3> QED
      BY <3>1, <3>2
  <2>2. \A c \in PVCs : pvcAllocated[c] # NoRecord => pvcAllocated[c].node \in Nodes
    BY DEF TypeOK, ClaimRecord
  <2> QED
    BY <2>1, <2>2 DEF Owned, ReservedNodesInited
<1> QED
  BY <1>1, <1>2, <1>3 DEF Owned

LEMMA DropOnly ==
    ASSUME TypeOK, NEW n, NEW kn, NEW c \in PVCs \cup {NoPVC}
    PROVE  \A b \in PVCs : DropClaimRecord(n, kn, c)[b] \in {pvcAllocated[b], NoRecord}
BY DEF TypeOK, DropClaimRecord

LEMMA EventsOwned ==
    ASSUME TypeOK, Owned, Events
    PROVE  Owned'
<1> USE DEF ledger, records, cycle, locked
<1>1. UNCHANGED <<cycle, lock, todo>> /\ lock = NoPod
  BY DEF Events, OnNodeLocalStorage, OnPVUpdate, OnPVDelete, OnPVCUpdate, OnPVCDelete,
         OnPodGone, OnPodRunning
<1>2. \A n \in Nodes : nls[n] = "inited" => nls'[n] = "inited"
  <2>1. \A W : \A m \in Nodes : InitIfNeed(m, W) => \A n \in Nodes : nls[n] = "inited" => nls'[n] = "inited"
    BY DEF InitIfNeed, TypeOK
  <2>2. ASSUME NEW e \in PVEvents, OnPVUpdate(e) \/ OnPVDelete(e)
        PROVE  \A n \in Nodes : nls[n] = "inited" => nls'[n] = "inited"
    BY <2>1, <2>2 DEF PVEvents, OnPVUpdate, OnPVDelete
  <2>3. ASSUME NEW e \in PVCEvents, OnPVCUpdate(e)
        PROVE  \A n \in Nodes : nls[n] = "inited" => nls'[n] = "inited"
    BY <2>1, <2>3 DEF PVCEvents, OnPVCUpdate
  <2>4. ASSUME NEW p \in Pods, NEW m \in Nodes,
               OnPodGone(p, m) \/ \E W \in SUBSET Volumes : OnPodRunning(p, m, W)
        PROVE  \A n \in Nodes : nls[n] = "inited" => nls'[n] = "inited"
    BY <2>1, <2>4 DEF OnPodGone, OnPodRunning
  <2>5. ASSUME NEW m \in Nodes, NEW W \in SUBSET VGs, NEW cap \in [VGs -> Capacities],
               OnNodeLocalStorage(m, W, cap)
        PROVE  \A n \in Nodes : nls[n] = "inited" => nls'[n] = "inited"
    BY <2>5 DEF OnNodeLocalStorage, TypeOK
  <2> QED
    BY <2>2, <2>3, <2>4, <2>5 DEF Events, OnPVCDelete
<1>3. \A b \in PVCs : pvcAllocated'[b] \in {pvcAllocated[b], NoRecord}
  <2>1. ASSUME NEW e \in PVEvents, OnPVUpdate(e)
        PROVE  \A b \in PVCs : pvcAllocated'[b] \in {pvcAllocated[b], NoRecord}
    BY <2>1, DropOnly DEF OnPVUpdate, PVEvents
  <2>2. ASSUME NEW e \in PVEvents, OnPVDelete(e)
        PROVE  \A b \in PVCs : pvcAllocated'[b] \in {pvcAllocated[b], NoRecord}
    BY <2>2 DEF OnPVDelete, TypeOK
  <2>3. ASSUME NEW c \in PVCs, OnPVCDelete(c)
        PROVE  \A b \in PVCs : pvcAllocated'[b] \in {pvcAllocated[b], NoRecord}
    BY <2>3 DEF OnPVCDelete, TypeOK
  <2> QED
    BY <2>1, <2>2, <2>3 DEF Events, OnNodeLocalStorage, OnPVCUpdate, OnPodGone, OnPodRunning
<1> QED
  BY <1>1, <1>2, <1>3, OwnedFrame DEF Live

LEMMA RollbackOwned ==
    ASSUME TypeOK, Owned, NEW p \in Pods, UnreserveBegin(p)
    PROVE  Owned'
<1>1. /\ lock' = p /\ pc'[p] = "unreserving" /\ pc[p] \in {"reserved", "failed"}
      /\ todo' = unitAllocated[p] /\ UNCHANGED <<nls, pvcAllocated, at, unitAllocated>>
      /\ \A q \in Pods : q # p => pc'[q] = pc[q]
  BY DEF UnreserveBegin, TypeOK, ledger, records
<1>2. ReservationsOwned'
  BY <1>1 DEF Owned, ReservationsOwned, Live
<1> QED
  BY <1>1, <1>2 DEF Owned, UnreserveCoversUnits, ReservedNodesInited

LEMMA CycleOwned ==
    ASSUME TypeOK, LockDiscipline, Sound, Owned, Cycle
    PROVE  Owned'
<1> USE DEF ledger, records, cycle, locked
<1> PICK p \in Pods :
        \/ \E bound \in SUBSET PodPVCs[p] : PreFilter(p, bound)
        \/ \E n \in Nodes : PreAllocate(p, n) \/ SkipReserve(p, n)
        \/ Unschedulable(p)
        \/ ReserveBegin(p)
        \/ \E c \in PVCs : ReserveClaimSkip(p, c) \/ ReserveClaim(p, c) \/ ReserveClaimFail(p, c)
        \/ \E w \in Volumes : ReserveVolume(p, w) \/ ReserveVolumeFail(p, w)
        \/ ReserveEnd(p)
        \/ \E c \in PVCs : UnreserveClaim(p, c)
        \/ UnreserveEnd(p)
        \/ Bind(p)
  BY DEF Cycle
<1>1. CASE \/ \E bound \in SUBSET PodPVCs[p] : PreFilter(p, bound)
           \/ \E n \in Nodes : PreAllocate(p, n) \/ SkipReserve(p, n)
           \/ Unschedulable(p)
  <2>1. /\ UNCHANGED <<nls, pvcAllocated, unitAllocated, todo, lock>>
        /\ ~Live(p) /\ pc'[p] \notin {"reserving", "unreserving"}
        /\ \A q \in Pods : q # p => pc'[q] = pc[q] /\ at'[q] = at[q]
    BY <1>1 DEF PreFilter, PreAllocate, SkipReserve, Unschedulable, TypeOK, Live
  <2>2. \A q \in Pods : Live(q) => Live(q)' /\ at'[q] = at[q]
    BY <2>1 DEF Live
  <2>3. lock' # NoPod => /\ lock' = lock
                         /\ pc'[lock] \in {"reserving", "unreserving"} => pc'[lock] = pc[lock]
    BY <2>1 DEF TypeOK
  <2> QED
    BY <2>1, <2>2, <2>3, OwnedFrame
<1>2. CASE ReserveBegin(p)
  <2>1. /\ UNCHANGED <<nls, pvcAllocated, unitAllocated, at>> /\ nls[at[p]] = "inited"
        /\ lock' = p /\ pc'[p] = "reserving" /\ \A q \in Pods : q # p => pc'[q] = pc[q]
    BY <1>2 DEF ReserveBegin, TypeOK
  <2>2. ReservationsOwned'
    BY <2>1 DEF Owned, ReservationsOwned, Live
  <2> QED
    BY <2>1, <2>2 DEF Owned, UnreserveCoversUnits, ReservedNodesInited
<1>3. CASE \/ \E c \in PVCs : ReserveClaimSkip(p, c)
           \/ \E w \in Volumes : ReserveVolume(p, w)
  <2>1. /\ UNCHANGED <<nls, pvcAllocated, unitAllocated, at, pc, lock>>
        /\ lock = p /\ pc[p] = "reserving"
    BY <1>3 DEF ReserveClaimSkip, ReserveVolume, Reserving
  <2> QED
    BY <2>1 DEF Owned, ReservationsOwned, UnreserveCoversUnits, ReservedNodesInited, Live
<1>4. CASE \/ \E c \in PVCs : ReserveClaimFail(p, c)
           \/ \E w \in Volumes : ReserveVolumeFail(p, w)
           \/ ReserveEnd(p)
  <2>1. /\ UNCHANGED <<nls, pvcAllocated, unitAllocated, at>>
        /\ lock' = NoPod /\ pc'[p] \in {"failed", "reserved"}
        /\ \A q \in Pods : q # p => pc'[q] = pc[q]
    BY <1>4 DEF ReserveClaimFail, ReserveVolumeFail, ReserveEnd, ReserveError, TypeOK
  <2> QED
    BY <2>1, OwnedFrame DEF Live
<1>5. CASE \E c \in PVCs : ReserveClaim(p, c)
  <2> PICK c \in PVCs : ReserveClaim(p, c)
    BY <1>5
  <2> DEFINE new == [node |-> at[p], vg |-> unitOf[p][c], alloc |-> PVCRequest[c]]
  <2>1. /\ lock = p /\ pc[p] = "reserving" /\ UNCHANGED <<nls, at, pc, lock>>
        /\ unitAllocated' = [unitAllocated EXCEPT ![p] = @ \cup {c}]
        /\ pvcAllocated' = [pvcAllocated EXCEPT ![c] = new] /\ new.node = at[p]
    BY DEF ReserveClaim, Reserving
  <2> HIDE DEF new
  <2>2. ReservationsOwned'
    <3> SUFFICES ASSUME NEW b \in PVCs, pvcAllocated'[b] # NoRecord
                 PROVE  \E q \in Pods : /\ Live(q)' /\ b \in unitAllocated'[q]
                                        /\ at'[q] = pvcAllocated'[b].node
      BY DEF ReservationsOwned
    <3>1. CASE b = c
      <4>1. Live(p)' /\ b \in unitAllocated'[p] /\ at'[p] = pvcAllocated'[b].node
        BY <2>1, <3>1 DEF Live, TypeOK
      <4> QED
        BY <4>1
    <3>2. CASE b # c
      <4>1. PICK q \in Pods : Live(q) /\ b \in unitAllocated[q] /\ at[q] = pvcAllocated[b].node
        BY <2>1, <3>2 DEF Owned, ReservationsOwned, TypeOK
      <4> QED
        BY <2>1, <3>2, <4>1 DEF Live, TypeOK
    <3> QED
      BY <3>1, <3>2
  <2>3. ReservedNodesInited'
    <3>1. nls[at[p]] = "inited"
      BY <2>1, NullAssumption DEF Owned, ReservedNodesInited
    <3> QED
      BY <2>1, <3>1 DEF Owned, ReservedNodesInited, TypeOK
  <2> QED
    BY <2>1, <2>2, <2>3 DEF Owned, UnreserveCoversUnits
<1>6. CASE \E c \in PVCs : UnreserveClaim(p, c)
  <2> PICK c \in PVCs : UnreserveClaim(p, c)
    BY <1>6
  <2>1. /\ lock = p /\ pc[p] = "unreserving" /\ UNCHANGED <<nls, at, pc, lock>>
        /\ c \in todo /\ todo' = todo \ {c}
        /\ unitAllocated' = [unitAllocated EXCEPT ![p] = @ \ {c}]
        /\ pvcAllocated' = DropClaimRecord(at[p], known[at[p]], c)
    BY DEF UnreserveClaim
  \* The record is gone after the step, so it needs no owner.
  <2>2. pvcAllocated'[c] = NoRecord
    <3>1. RecordOn(at[p], c) /\ at[p] \in Nodes
      BY <2>1, NullAssumption DEF LockDiscipline, TypeOK
    <3>2. pvcAllocated[c] # NoRecord => Reverts(at[p], known[at[p]], c)
      BY <3>1, UnreserveReverts DEF Owned
    <3> QED
      BY <2>1, <3>2 DEF DropClaimRecord, TypeOK
  <2>3. \A b \in PVCs : pvcAllocated'[b] \in {pvcAllocated[b], NoRecord}
    BY <2>1, DropOnly
  <2>4. ReservationsOwned'
    <3> SUFFICES ASSUME NEW b \in PVCs, pvcAllocated'[b] # NoRecord
                 PROVE  \E q \in Pods : /\ Live(q)' /\ b \in unitAllocated'[q]
                                        /\ at'[q] = pvcAllocated'[b].node
      BY DEF ReservationsOwned
    <3>1. b # c /\ pvcAllocated'[b] = pvcAllocated[b]
      BY <2>2, <2>3
    <3>2. PICK q \in Pods : Live(q) /\ b \in unitAllocated[q] /\ at[q] = pvcAllocated[b].node
      BY <3>1 DEF Owned, ReservationsOwned
    <3> QED
      BY <2>1, <3>1, <3>2 DEF Live, TypeOK
  <2>5. UnreserveCoversUnits'
    BY <2>1, NullAssumption DEF Owned, UnreserveCoversUnits, TypeOK
  <2>6. ReservedNodesInited'
    BY <2>1, <2>3 DEF Owned, ReservedNodesInited
  <2> QED
    BY <2>4, <2>5, <2>6 DEF Owned
<1>7. CASE UnreserveEnd(p)
  <2>1. /\ unitAllocated[p] = {} /\ lock' = NoPod
        /\ UNCHANGED <<nls, unitAllocated, pvcAllocated>>
        /\ \A q \in Pods : q # p => pc'[q] = pc[q] /\ at'[q] = at[q]
    BY <1>7, NullAssumption DEF UnreserveEnd, Owned, UnreserveCoversUnits, TypeOK
  <2>2. ReservationsOwned'
    <3> SUFFICES ASSUME NEW b \in PVCs, pvcAllocated[b] # NoRecord
                 PROVE  \E q \in Pods : /\ Live(q)' /\ b \in unitAllocated[q]
                                        /\ at'[q] = pvcAllocated[b].node
      BY <2>1 DEF ReservationsOwned
    <3>1. PICK q \in Pods : Live(q) /\ b \in unitAllocated[q] /\ at[q] = pvcAllocated[b].node
      BY DEF Owned, ReservationsOwned
    <3> QED
      BY <2>1, <3>1 DEF Live
  <2> QED
    BY <2>1, <2>2 DEF Owned, UnreserveCoversUnits, ReservedNodesInited
<1>8. CASE Bind(p)
  <2>1. /\ UNCHANGED <<nls, pvcAllocated, unitAllocated, at, lock, todo>>
        /\ pc[p] = "reserved" /\ pc'[p] = "bound" /\ \A q \in Pods : q # p => pc'[q] = pc[q]
    BY <1>8 DEF Bind, TypeOK
  <2> QED
    BY <2>1, OwnedFrame DEF Live, TypeOK
<1> QED
  BY <1>1, <1>2, <1>3, <1>4, <1>5, <1>6, <1>7, <1>8

\* Every record of Reserve has a pod that is bound or can still give it back:
\* no interleaving leaves a claim that PreFilter would skip for ever.  It rests
\* on the ledger being right, since revertIfNeed trusts it.
THEOREM ReservationsHaveOwners == CleanSpec => []ReservationsOwned
<1>1. Init => OwnedInv
  <2>1. Init => ReservationsOwned /\ UnreserveCoversUnits /\ ReservedNodesInited
    BY DEF Init, ReservationsOwned, UnreserveCoversUnits, ReservedNodesInited
  <2> QED
    BY <2>1, InitType, InitSound DEF OwnedInv, LedgerInv, Sound
<1>2. OwnedInv /\ [CleanNext]_vars => OwnedInv'
  <2> SUFFICES ASSUME OwnedInv, [CleanNext]_vars PROVE OwnedInv'
    OBVIOUS
  <2>1. TypeOK /\ LockDiscipline /\ Sound /\ Owned
    BY DEF OwnedInv, LedgerInv, Sound, Owned
  <2>2. LedgerInv'
    BY LedgerStep DEF OwnedInv
  <2>3. CASE UNCHANGED vars
    BY <2>2, <2>3 DEF OwnedInv, ReservationsOwned, UnreserveCoversUnits, ReservedNodesInited, Live,
                vars, ledger, records, cycle, locked
  <2>4. CASE CleanNext
    <3>1. CleanEvents => Events
      BY DEF CleanEvents, Events
    <3>2. Owned'
      BY <2>1, <2>4, <3>1, CycleOwned, EventsOwned, RollbackOwned DEF CleanNext, CleanRollback
    <3> QED
      BY <2>2, <3>2 DEF Owned, OwnedInv
  <2> QED
    BY <2>3, <2>4
<1>3. OwnedInv => ReservationsOwned
  BY DEF OwnedInv
<1> QED
  BY <1>1, <1>2, <1>3, PTL DEF CleanSpec
=============================================================================
