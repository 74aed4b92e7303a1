------------------------ MODULE AllocateMigrateProofs ------------------------
(***************************************************************************)
(* The controller never loses a migration: MigrationsQueued is an          *)
(* invariant of Spec, by induction on MigrateInv.  In the environment of   *)
(* CleanSpec, the volume of a bound claim stays charged, by induction on   *)
(* ChargeInv, and PVs are charged where they are placed and keep their     *)
(* pool, by induction on PlaceInv.                                         *)
(***************************************************************************)
EXTENDS AllocateMigrate, TLAPS

\* Types of the values the actions write.
LEMMA InfoType ==
    ASSUME TypeOK
    PROVE  /\ \A c \in PVCs : MakeAllocateInfo(c) \in Pools \cup {NoPool}
           /\ \A p \in Pods, S \in SUBSET PVCs : PodInfos(p, S) \in Infos
           /\ NoInfo \in Infos
    BY DEF TypeOK, Infos, MakeAllocateInfo, PodInfos, NoInfo

LEMMA CurrentType ==
    ASSUME TypeOK, NEW c \in PVCs
    PROVE  Current(c) \in Volumes \cup {NoPV}
    BY DEF TypeOK, Current

\* The claims the controller patches have a volume and a pool to write.
LEMMA PatchedFacts ==
    ASSUME TypeOK, NEW p \in Pods, NEW failed
    PROVE  /\ Patched(p, failed) \in SUBSET PVCs
           /\ \A c \in Patched(p, failed) : pv[c] # NoPV /\ kInfo[p][c] \in Pools
    BY NullAssumption DEF TypeOK, Patched, ToPatch, Listed, Current, Infos

LEMMA DirectFacts ==
    ASSUME TypeOK, ViewsBehind, NEW p \in Pods
    PROVE  /\ Direct(p) \in SUBSET PVCs
           /\ \A c \in Direct(p) : pv[c] # NoPV /\ MakeAllocateInfo(c) \in Pools
    BY InfoType, PodAssumption DEF TypeOK, ViewsBehind, Direct

LEMMA TypeInit == Init => TypeOK
    BY PodAssumption, PoolAssumption, BoundAssumption
    DEF Init, TypeOK, Infos, NoInfo, Available, Volumes

\* A step that patches PVs and a step that does not, as ViewsBehind sees them.
PoolsKept ==
    /\ pv' \in [PVCs -> Volumes \cup {NoPV}]
    /\ \A c \in PVCs : pv[c] # NoPV => pv'[c] # NoPV
    /\ \A c \in PVCs : pv[c] # NoPV /\ pv[c].pool # NoPool =>
                          pv'[c] # NoPV /\ pv'[c].pool # NoPool

\* A patch writes a pool on volumes that exist and leaves the others alone.
LEMMA PatchKeeps ==
    ASSUME TypeOK, NEW S \in SUBSET PVCs, NEW info,
           \A c \in S : pv[c] # NoPV /\ info[c] \in Pools,
           PatchPV(S, info)
    PROVE  PoolsKept /\ \A c \in S : pv'[c] # NoPV /\ pv'[c].pool # NoPool
    BY NullAssumption, PoolAssumption DEF TypeOK, PatchPV, Volumes, PoolsKept

LEMMA UnchangedKeeps ==
    ASSUME TypeOK, pv' = pv
    PROVE  PoolsKept
    BY DEF TypeOK, PoolsKept

\* No action takes a pool off a PV, or a PV away: a deleted claim leaves its
\* last version.
LEMMA StepKeepsPools ==
    ASSUME TypeOK, ViewsBehind, Next
    PROVE  PoolsKept
  <1>1. CASE \E p \in Pods, failed \in SUBSET PVCs : PreBind(p, failed)
    <2>1. PICK p \in Pods, failed \in SUBSET PVCs : PreBind(p, failed)
      BY <1>1
    <2>2. Direct(p) \ failed \in SUBSET PVCs
      BY DirectFacts
    <2>3. \A c \in Direct(p) \ failed :
             pv[c] # NoPV /\ [d \in PVCs |-> MakeAllocateInfo(d)][c] \in Pools
      BY DirectFacts
    <2>4. PatchPV(Direct(p) \ failed, [d \in PVCs |-> MakeAllocateInfo(d)])
      BY <2>1 DEF PreBind
    <2> QED BY <2>2, <2>3, <2>4, PatchKeeps
  <1>2. CASE \E p \in Pods, failed \in SUBSET PVCs : SyncPVByPod(p, failed)
    <2>1. PICK p \in Pods, failed \in SUBSET PVCs : SyncPVByPod(p, failed)
      BY <1>2
    <2>2. PatchPV(Patched(p, failed), kInfo[p])
      BY <2>1 DEF SyncPVByPod
    <2> QED BY <2>2, PatchedFacts, PatchKeeps
  <1>3. CASE \E p \in Pods, before \in SUBSET PVCs : SyncPanics(p, before)
    <2>1. PICK p \in Pods, before \in SUBSET PVCs : SyncPanics(p, before)
      BY <1>3
    <2>2. before \subseteq Patched(p, {}) /\ PatchPV(before, kInfo[p])
      BY <2>1 DEF SyncPanics
    <2>3. \A c \in before : pv[c] # NoPV /\ kInfo[p][c] \in Pools
      BY <2>2, PatchedFacts
    <2> QED BY <2>2, <2>3, PatchKeeps
  <1>4. CASE Kubernetes
    <2>1. CASE \E c \in PVCs : BindPV(c)
      <3>1. PICK c \in PVCs : BindPV(c)
        BY <2>1
      <3>2. pv' = [pv EXCEPT ![c] = IF pv[c] = NoPV THEN [bound |-> TRUE, pool |-> NoPool]
                                    ELSE [bound |-> TRUE, pool |-> pv[c].pool]]
        BY <3>1 DEF BindPV
      <3>3. pv[c] # NoPV => [bound |-> TRUE, pool |-> pv[c].pool] \in Volumes
        BY DEF TypeOK, Volumes
      <3>4. [bound |-> TRUE, pool |-> NoPool] \in Volumes
        BY DEF Volumes
      <3> QED BY <3>2, <3>3, <3>4, NullAssumption DEF TypeOK, PoolsKept
    <2>2. CASE \E c \in PVCs : BindPVC(c)
      BY <2>2, UnchangedKeeps DEF BindPVC
    <2> QED BY <1>4, <2>1, <2>2 DEF Kubernetes
  <1>5. ASSUME pv' = pv PROVE PoolsKept
    BY <1>5, UnchangedKeeps
  <1>6. CASE Informers
    <2>1. pv' = pv
      BY <1>6 DEF Informers, SeeClaim, SeePV, SeePVDeleted, KSeeClaim, KSeePV, SeePod, api
    <2> QED BY <2>1, <1>5
  <1>7. CASE \E p \in Pods, choice \in [PVCs -> Pools] : Reserve(p, choice)
    BY <1>7, <1>5 DEF Reserve
  <1>8. CASE \E p \in Pods : \/ FailBinding(p) \/ SelectNode(p) \/ VolumesBound(p)
                             \/ Bind(p) \/ EndPod(p, "completed") \/ EndPod(p, "deleted")
                             \/ AddAgain(p)
    BY <1>8, <1>5 DEF FailBinding, SelectNode, VolumesBound, Bind, EndPod, AddAgain, api
  <1>9. CASE (\E c \in PVCs : DeleteClaim(c)) \/ (\E K \in SUBSET PVCs : Restart(K))
             \/ Crash \/ SchedulerRestart
    BY <1>9, <1>5 DEF DeleteClaim, Restart, Crash, SchedulerRestart, api
  <1> QED
    BY <1>1, <1>2, <1>3, <1>4, <1>6, <1>7, <1>8, <1>9 DEF Next, Binding, Worker

LEMMA FaultType ==
    ASSUME TypeOK, faults' = faults \/ Fault
    PROVE  faults' \in 0..MaxFaults
  <1>1. MaxFaults \in Nat /\ faults \in 0..MaxFaults
    BY BoundAssumption DEF TypeOK
  <1> QED BY <1>1 DEF Fault

LEMMA TypeStep ==
    ASSUME TypeOK, ViewsBehind, Next
    PROVE  TypeOK'
  <1>pv. pv' \in [PVCs -> Volumes \cup {NoPV}]
    BY StepKeepsPools DEF PoolsKept
  <1>1. ASSUME NEW p \in Pods, NEW choice \in [PVCs -> Pools], Reserve(p, choice)
        PROVE  TypeOK'
    <2>1. mine' \in [Pods -> SUBSET PVCs]
      BY <1>1, PodAssumption DEF TypeOK, Reserve
    <2>2. rec' \in Infos
      BY <1>1 DEF TypeOK, Reserve, Infos
    <2>3. origin' \in [Pods -> Infos]
      BY <1>1 DEF TypeOK, Reserve
    <2> QED BY <1>1, <2>1, <2>2, <2>3 DEF TypeOK, Reserve, controller
  <1>2. ASSUME NEW p \in Pods, FailBinding(p)
        PROVE  TypeOK'
    BY <1>2, FaultType DEF TypeOK, FailBinding, Infos, controller
  <1>3. ASSUME NEW p \in Pods, NEW before \in SUBSET PVCs, SyncPanics(p, before)
        PROVE  TypeOK'
    BY <1>3, <1>pv DEF TypeOK, SyncPanics, scheduler
  <1>4. ASSUME NEW c \in PVCs, DeleteClaim(c)
        PROVE  TypeOK'
    BY <1>4 DEF TypeOK, DeleteClaim, scheduler, controller
  <1>5. ASSUME NEW K \in SUBSET PVCs, Restart(K)
        PROVE  TypeOK'
    BY <1>5, CurrentType DEF TypeOK, Restart, ClaimState, api, scheduler
  <1>6. ASSUME NEW p \in Pods, SelectNode(p) \/ VolumesBound(p) \/ Bind(p)
        PROVE  TypeOK'
    BY <1>6 DEF TypeOK, SelectNode, VolumesBound, Bind, api, scheduler, controller
  <1>7. ASSUME NEW p \in Pods, NEW failed \in SUBSET PVCs, PreBind(p, failed)
        PROVE  TypeOK'
    <2>1. faults' \in 0..MaxFaults
      BY <1>7, FaultType DEF PreBind, FaultIf
    <2>2. podInfo' \in [Pods -> Infos]
      BY <1>7, InfoType DEF PreBind, TypeOK
    <2> QED BY <1>7, <2>1, <2>2, <1>pv DEF TypeOK, PreBind, controller
  <1>8. ASSUME NEW p \in Pods, EndPod(p, "completed") \/ EndPod(p, "deleted")
        PROVE  TypeOK'
    BY <1>8 DEF TypeOK, EndPod, scheduler, controller
  <1>9. CASE Kubernetes
    BY <1>9, <1>pv DEF TypeOK, Kubernetes, BindPV, BindPVC, scheduler, controller
  <1>10. ASSUME NEW c \in PVCs, SeeClaim(c)
         PROVE  TypeOK'
    BY <1>10 DEF TypeOK, SeeClaim, api, controller
  <1>11. ASSUME NEW c \in PVCs, SeePV(c)
         PROVE  TypeOK'
    <2>1. pv[c] \in Volumes
      BY <1>11 DEF SeePV, Current, TypeOK
    <2>2. (IF pv[c].pool = NoPool /\ pv[c].bound THEN rec[c] ELSE pv[c].pool)
             \in Pools \cup {NoPool}
      BY <2>1 DEF TypeOK, Volumes, Infos
    <2> QED BY <1>11, <2>1, <2>2 DEF TypeOK, SeePV, Infos, api, controller
  <1>12. ASSUME NEW c \in PVCs, SeePVDeleted(c)
         PROVE  TypeOK'
    BY <1>12 DEF TypeOK, SeePVDeleted, Infos, api, controller
  <1>13. ASSUME NEW c \in PVCs, KSeeClaim(c) \/ KSeePV(c)
         PROVE  TypeOK'
    BY <1>13, CurrentType DEF TypeOK, KSeeClaim, KSeePV, ClaimState, api, scheduler
  <1>14. ASSUME NEW p \in Pods, SeePod(p)
         PROVE  TypeOK'
    BY <1>14 DEF TypeOK, SeePod, api, scheduler
  <1>15. ASSUME NEW p \in Pods, AddAgain(p)
         PROVE  TypeOK'
    BY <1>15 DEF TypeOK, AddAgain, api, scheduler
  <1>16. ASSUME NEW p \in Pods, NEW failed \in SUBSET PVCs, SyncPVByPod(p, failed)
         PROVE  TypeOK'
    <2>1. faults' \in 0..MaxFaults
      BY <1>16, FaultType DEF SyncPVByPod, FaultIf
    <2> QED BY <1>16, <2>1, <1>pv DEF TypeOK, SyncPVByPod, scheduler
  <1>17. CASE Crash
    BY <1>17, FaultType DEF TypeOK, Crash, api, scheduler
  <1>18. CASE SchedulerRestart
    <2>1. \A c \in PVCs : (IF Current(c) = NoPV THEN NoPool ELSE pv[c].pool) \in Pools \cup {NoPool}
      BY DEF TypeOK, Current, Volumes
    <2> QED BY <1>18, <2>1, CurrentType, InfoType, FaultType
            DEF TypeOK, SchedulerRestart, Infos, controller
  <1> QED
    BY <1>1, <1>2, <1>3, <1>4, <1>5, <1>6, <1>7, <1>8, <1>9, <1>10, <1>11, <1>12, <1>13,
       <1>14, <1>15, <1>16, <1>17, <1>18
    DEF Next, Binding, Informers, Worker

\* The listers only ever copy what the API server holds.
LEMMA ViewsStep ==
    ASSUME TypeOK, ViewsBehind, Next
    PROVE  ViewsBehind'
  <1>1. PoolsKept
    BY StepKeepsPools
  <1>2. \A c \in PVCs : sPV'[c] \in {sPV[c], NoPV, pv[c]} /\ kPV'[c] \in {kPV[c], NoPV, pv[c]}
    <2>1. CASE Informers
      BY <2>1 DEF Informers, SeeClaim, SeePV, SeePVDeleted, KSeeClaim, KSeePV, SeePod,
                  Current, TypeOK, api, scheduler, controller
    <2>2. CASE SchedulerRestart \/ (\E K \in SUBSET PVCs : Restart(K))
      BY <2>2 DEF SchedulerRestart, Restart, Current, scheduler, controller
    <2>3. CASE Kubernetes \/ Crash \/ (\E c \in PVCs : DeleteClaim(c))
      BY <2>3 DEF Kubernetes, BindPV, BindPVC, Crash, DeleteClaim, scheduler, controller
    <2>4. CASE Binding \/ (\E p \in Pods : FailBinding(p))
               \/ (\E p \in Pods, choice \in [PVCs -> Pools] : Reserve(p, choice))
      BY <2>4 DEF Binding, SelectNode, VolumesBound, Bind, PreBind, EndPod, FailBinding,
                  Reserve, scheduler, controller
    <2>5. CASE Worker \/ (\E p \in Pods, before \in SUBSET PVCs : SyncPanics(p, before))
      BY <2>5 DEF Worker, AddAgain, SyncPVByPod, SyncPanics, scheduler, controller
    <2> QED BY <2>1, <2>2, <2>3, <2>4, <2>5 DEF Next
  <1> QED BY <1>1, <1>2 DEF ViewsBehind, PoolsKept

\* What the other actions leave alone keeps MigrationsQueued: an unplaced claim
\* was unplaced before, and the items are still there.
LEMMA QueueFrame ==
    ASSUME TypeOK, MigrationsQueued, PoolsKept,
           \A c \in PVCs : claim[c] = "gone" => claim'[c] = "gone",
           kInfo' = kInfo, queue \cup later \subseteq queue' \cup later',
           ctrl' = "up" => ctrl = "up"
    PROVE  MigrationsQueued'
  <1> SUFFICES ASSUME ctrl' = "up", NEW p \in Pods, NEW c \in Listed(p)', Unplaced(c)'
               PROVE  p \in queue' \cup later'
    BY DEF MigrationsQueued
  <1>1. c \in PVCs /\ c \in Listed(p)
    BY DEF Listed
  <1>2. Unplaced(c)
    BY <1>1 DEF Unplaced, PoolsKept
  <1> QED BY <1>1, <1>2 DEF MigrationsQueued

LEMMA QueueStep ==
    ASSUME TypeOK, ViewsBehind, MigrationsQueued, Next
    PROVE  MigrationsQueued'
  <1>pools. PoolsKept
    BY StepKeepsPools
  <1>1. ASSUME NEW p \in Pods, SeePod(p)
        PROVE  MigrationsQueued'
    <2> SUFFICES ASSUME NEW q \in Pods, NEW c \in Listed(q)', Unplaced(c)'
                 PROVE  q \in queue' \cup later'
      BY DEF MigrationsQueued
    <2>1. Unplaced(c) /\ ctrl = "up" /\ queue \subseteq queue' /\ later' = later
      BY <1>1 DEF SeePod, Unplaced, api
    <2>2. CASE q = p
      <3>1. kInfo'[p] # NoPod /\ kInfo'[p][c] # NoPool /\ c \in PVCs
        BY <2>2 DEF Listed
      <3>2. kInfo'[p] # NoInfo
        BY <3>1 DEF NoInfo
      <3> QED BY <1>1, <2>2, <3>1, <3>2 DEF SeePod, TypeOK
    <2>3. CASE q # p
      <3>1. kInfo'[q] = kInfo[q]
        BY <1>1, <2>3 DEF SeePod, TypeOK
      <3>2. c \in Listed(q)
        BY <3>1 DEF Listed
      <3> QED BY <2>1, <3>2 DEF MigrationsQueued
    <2> QED BY <2>2, <2>3
  <1>2. ASSUME NEW p \in Pods, NEW failed \in SUBSET PVCs, SyncPVByPod(p, failed)
        PROVE  MigrationsQueued'
    <2> SUFFICES ASSUME NEW q \in Pods, NEW c \in Listed(q)', Unplaced(c)'
                 PROVE  q \in queue' \cup later'
      BY DEF MigrationsQueued
    <2>1. c \in PVCs /\ c \in Listed(q) /\ ctrl = "up" /\ claim' = claim
      BY <1>2 DEF SyncPVByPod, Listed
    <2>2. Unplaced(c)
      BY <2>1, <1>pools DEF Unplaced, PoolsKept
    <2>3. CASE q # p
      BY <1>2, <2>1, <2>2, <2>3 DEF SyncPVByPod, MigrationsQueued
    <2>4. CASE q = p
      <3>1. SUFFICES ASSUME NotReady(p) = {}, Patched(p, failed) = ToPatch(p)
                     PROVE  FALSE
        BY <1>2, <2>4 DEF SyncPVByPod
      <3>2. c \notin Patched(p, failed)
        BY <1>2, PatchedFacts, PatchKeeps DEF SyncPVByPod, Unplaced
      <3>3. kPV[c] # NoPV /\ kPV[c].pool # NoPool
        BY <2>1, <2>4, <3>1, <3>2 DEF ToPatch, NotReady
      <3> QED BY <2>1, <2>2, <3>3 DEF ViewsBehind, Unplaced
    <2> QED BY <2>3, <2>4
  <1>3. ASSUME NEW K \in SUBSET PVCs, Restart(K)
        PROVE  MigrationsQueued'
    <2> SUFFICES ASSUME NEW q \in Pods, NEW c \in Listed(q)'
                 PROVE  q \in queue'
      BY DEF MigrationsQueued
    <2>1. kInfo'[q] # NoPod
      BY DEF Listed
    <2> QED BY <1>3, <2>1 DEF Restart
  <1>4. ASSUME NEW p \in Pods, AddAgain(p)
        PROVE  MigrationsQueued'
    BY <1>4, <1>pools, QueueFrame DEF AddAgain, api
  <1>5. CASE (\E p \in Pods, before \in SUBSET PVCs : SyncPanics(p, before)) \/ Crash
    BY <1>5 DEF SyncPanics, Crash, MigrationsQueued
  <1>6. CASE Kubernetes \/ (\E c \in PVCs : DeleteClaim(c))
    <2>1. \A c \in PVCs : claim[c] = "gone" => claim'[c] = "gone"
      BY <1>6 DEF Kubernetes, BindPV, BindPVC, DeleteClaim, TypeOK
    <2>2. UNCHANGED controller
      BY <1>6 DEF Kubernetes, BindPV, BindPVC, DeleteClaim
    <2> QED BY <2>1, <2>2, <1>pools, QueueFrame DEF controller
  <1>7. CASE SchedulerRestart \/ (\E p \in Pods, choice \in [PVCs -> Pools] : Reserve(p, choice))
             \/ (\E p \in Pods : FailBinding(p)) \/ Binding
    <2>1. \A c \in PVCs : claim[c] = "gone" => claim'[c] = "gone"
      BY <1>7 DEF SchedulerRestart, Reserve, FailBinding, Binding, SelectNode, VolumesBound,
                  Bind, PreBind, EndPod, api
    <2>2. UNCHANGED controller
      BY <1>7 DEF SchedulerRestart, Reserve, FailBinding, Binding, SelectNode, VolumesBound,
                  Bind, PreBind, EndPod
    <2> QED BY <2>1, <2>2, <1>pools, QueueFrame DEF controller
  <1>8. ASSUME NEW c \in PVCs,
               SeeClaim(c) \/ SeePV(c) \/ SeePVDeleted(c) \/ KSeeClaim(c) \/ KSeePV(c)
        PROVE  MigrationsQueued'
    <2>1. claim' = claim /\ kInfo' = kInfo /\ queue' = queue /\ later' = later /\ ctrl' = ctrl
      BY <1>8 DEF SeeClaim, SeePV, SeePVDeleted, KSeeClaim, KSeePV, api, controller
    <2> QED BY <2>1, <1>pools, QueueFrame
  <1> QED
    BY <1>1, <1>2, <1>3, <1>4, <1>5, <1>6, <1>7, <1>8 DEF Next, Informers, Worker

\* open-local-controller never forgets a migration, whatever the scheduler, the
\* informers, failed requests, panics and restarts do: a pod that lists a pool
\* for an unplaced volume is in the work queue or about to be added again.
THEOREM MigrationNeverLost == Spec => []MigrationsQueued
  <1>1. Init => MigrateInv
    <2>1. Init => ViewsBehind
      BY DEF Init, ViewsBehind
    <2>2. Init => MigrationsQueued
      BY DEF Init, MigrationsQueued, Listed, NoInfo
    <2> QED BY <2>1, <2>2, TypeInit DEF MigrateInv
  <1>2. MigrateInv /\ [Next]_vars => MigrateInv'
    <2> SUFFICES ASSUME MigrateInv, [Next]_vars
                 PROVE  MigrateInv'
      OBVIOUS
    <2>1. CASE Next
      BY <2>1, TypeStep, ViewsStep, QueueStep DEF MigrateInv
    <2>2. CASE UNCHANGED vars
      BY <2>2 DEF vars, api, scheduler, controller, MigrateInv, TypeOK, ViewsBehind,
                  MigrationsQueued, Listed, Unplaced
    <2> QED BY <2>1, <2>2
  <1>3. MigrateInv => MigrationsQueued
    BY DEF MigrateInv
  <1> QED BY <1>1, <1>2, <1>3, PTL DEF Spec

----------------------------------------------------------------------------
(* The clean environment *)

LEMMA CleanIsNext == CleanNext => Next
  <1>1. CleanReserve => \E p \in Pods, choice \in [PVCs -> Pools] : Reserve(p, choice)
    BY DEF CleanReserve
  <1>2. CleanFail => \E p \in Pods : FailBinding(p)
    BY DEF CleanFail
  <1>3. CleanDelete => \E c \in PVCs : DeleteClaim(c)
    BY DEF CleanDelete
  <1>4. Restart(PVCs) => \E K \in SUBSET PVCs : Restart(K)
    OBVIOUS
  <1> QED BY <1>1, <1>2, <1>3, <1>4 DEF CleanNext, Next

\* A step that adds no bound claim, reserved pod or lister entry, and drops no
\* record, keeps ChargeInv.
LEMMA ChargeFrame ==
    ASSUME ChargeInv, claim' = claim, rec' = rec, vrec' = vrec, sBound' = sBound,
           \A c \in PVCs : pv[c] # NoPV => pv'[c] # NoPV,
           \A p \in Pods : pod'[p] = "reserved" => pod[p] = "reserved"
    PROVE  ChargeInv'
    BY DEF ChargeInv, BoundHasPV, StillCharged, Charged

LEMMA ChargeStep ==
    ASSUME TypeOK, ViewsBehind, ChargeInv, CleanNext
    PROVE  ChargeInv'
  <1>pools. \A c \in PVCs : pv[c] # NoPV => pv'[c] # NoPV
    BY CleanIsNext, StepKeepsPools DEF PoolsKept
  <1>1. CASE CleanReserve
    <2>1. PICK p \in Pods, choice \in [PVCs -> Pools] : Reserve(p, choice)
      BY <1>1 DEF CleanReserve
    <2>2. claim' = claim /\ pv' = pv /\ vrec' = vrec /\ sBound' = sBound
      BY <2>1 DEF Reserve
    <2>3. \A q \in Pods : q # p => pod'[q] = pod[q]
      BY <2>1 DEF Reserve, TypeOK
    <2>4. mine'[p] = {c \in PodPVCs[p] \ sBound : rec[c] = NoPool}
      BY <2>1 DEF Reserve, TypeOK
    <2>5. \A c \in PVCs : rec'[c] = IF c \in mine'[p] THEN choice[c] ELSE rec[c]
      BY <2>1 DEF Reserve
    <2>6. \A c \in PVCs : choice[c] # NoPool
      BY PoolAssumption
    <2>7. \A c \in PVCs : rec[c] # NoPool => rec'[c] # NoPool
      BY <2>5, <2>6
    <2>8. \A c \in PodPVCs[p] \ sBound : rec'[c] # NoPool
      BY <2>4, <2>5, <2>6, PodAssumption
    <2> QED BY <2>2, <2>3, <2>7, <2>8 DEF ChargeInv, BoundHasPV, StillCharged, Charged
  <1>2. CASE CleanFail
    <2>1. PICK p \in Pods : (\A c \in mine[p] : Unused(p, c)) /\ FailBinding(p)
      BY <1>2 DEF CleanFail
    <2>2. claim' = claim /\ pv' = pv /\ vrec' = vrec /\ sBound' = sBound
      BY <2>1 DEF FailBinding
    <2>3. pod'[p] = "queued" /\ \A q \in Pods : q # p => pod'[q] = pod[q]
      BY <2>1 DEF FailBinding, TypeOK
    <2>4. \A c \in PVCs \ mine[p] : rec'[c] = rec[c]
      BY <2>1 DEF FailBinding
    <2>5. \A c \in mine[p] : claim[c] = "pending" /\ \A q \in Pods \ {p} : c \in PodPVCs[q] => pod[q] # "reserved"
      BY <2>1 DEF Unused
    <2> QED BY <2>2, <2>3, <2>4, <2>5 DEF ChargeInv, BoundHasPV, StillCharged, Charged
  <1>3. CASE CleanDelete
    <2>1. PICK c \in PVCs : DeleteClaim(c)
      BY <1>3 DEF CleanDelete
    <2>2. pv' = pv /\ UNCHANGED <<pod, rec, vrec, sBound>>
      BY <2>1 DEF DeleteClaim, scheduler
    <2>3. claim'[c] = "gone" /\ \A d \in PVCs : d # c => claim'[d] = claim[d]
      BY <2>1 DEF DeleteClaim, TypeOK
    <2> QED BY <2>2, <2>3 DEF ChargeInv, BoundHasPV, StillCharged, Charged
  <1>4. ASSUME NEW p \in Pods, SelectNode(p)
        PROVE  ChargeInv'
    <2>1. pv' = pv /\ UNCHANGED <<pod, rec, vrec, sBound>>
      BY <1>4 DEF SelectNode, scheduler
    <2>2. \A c \in PVCs : \/ claim'[c] = claim[c]
                          \/ c \in PodPVCs[p] /\ claim[c] = "pending" /\ claim'[c] = "selected"
      BY <1>4 DEF SelectNode
    <2>3. pod[p] = "reserved"
      BY <1>4 DEF SelectNode
    <2> QED BY <2>1, <2>2, <2>3 DEF ChargeInv, BoundHasPV, StillCharged, Charged
  <1>5. ASSUME NEW p \in Pods, NEW failed \in SUBSET PVCs, PreBind(p, failed)
        PROVE  ChargeInv'
    BY <1>5, <1>pools, ChargeFrame DEF PreBind
  <1>6. ASSUME NEW p \in Pods,
               VolumesBound(p) \/ Bind(p) \/ EndPod(p, "completed") \/ EndPod(p, "deleted")
        PROVE  ChargeInv'
    <2>1. UNCHANGED <<claim, rec, vrec, sBound>>
      BY <1>6 DEF VolumesBound, Bind, EndPod, api, scheduler
    <2>2. \A q \in Pods : pod'[q] = "reserved" => pod[q] = "reserved"
      BY <1>6 DEF VolumesBound, Bind, EndPod, api, TypeOK
    <2> QED BY <2>1, <2>2, <1>pools, ChargeFrame
  <1>7. ASSUME NEW c \in PVCs, BindPV(c)
        PROVE  ChargeInv'
    BY <1>7, <1>pools, ChargeFrame DEF BindPV, scheduler
  <1>8. ASSUME NEW c \in PVCs, BindPVC(c)
        PROVE  ChargeInv'
    <2>1. pv' = pv /\ UNCHANGED <<pod, rec, vrec, sBound>> /\ pv[c] # NoPV /\ claim[c] = "selected"
      BY <1>8 DEF BindPVC, PVBound, scheduler
    <2>2. claim'[c] = "bound" /\ \A d \in PVCs : d # c => claim'[d] = claim[d]
      BY <1>8 DEF BindPVC, TypeOK
    <2> QED BY <2>1, <2>2 DEF ChargeInv, BoundHasPV, StillCharged, Charged
  <1>9. ASSUME NEW c \in PVCs, SeeClaim(c)
        PROVE  ChargeInv'
    <2>1. UNCHANGED <<claim, pv, pod, rec, vrec>>
      BY <1>9 DEF SeeClaim, api
    <2>2. \A d \in PVCs : d \in sBound' => d \in sBound \/ claim[d] = "bound"
      BY <1>9 DEF SeeClaim
    <2> QED BY <2>1, <2>2 DEF ChargeInv, BoundHasPV, StillCharged, Charged
  <1>10. ASSUME NEW c \in PVCs, SeePV(c)
         PROVE  ChargeInv'
    <2>1. UNCHANGED <<claim, pv, pod, sBound>>
      BY <1>10 DEF SeePV, api
    <2>2. \A d \in PVCs : d # c => rec'[d] = rec[d] /\ vrec'[d] = vrec[d]
      BY <1>10 DEF SeePV, TypeOK, Infos
    <2>3. Charged(c) => Charged(c)'
      BY <1>10 DEF SeePV, TypeOK, Infos, Charged
    <2> QED BY <2>1, <2>2, <2>3 DEF ChargeInv, BoundHasPV, StillCharged, Charged
  <1>11. ASSUME NEW c \in PVCs, SeePVDeleted(c)
         PROVE  ChargeInv'
    <2>1. UNCHANGED <<claim, pv, pod, sBound>>
      BY <1>11 DEF SeePVDeleted, api
    <2>2. \A d \in PVCs : d # c => rec'[d] = rec[d] /\ vrec'[d] = vrec[d]
      BY <1>11 DEF SeePVDeleted, TypeOK, Infos
    <2>3. claim[c] = "gone"
      BY <1>11 DEF SeePVDeleted, Current, ViewsBehind
    <2> QED BY <2>1, <2>2, <2>3 DEF ChargeInv, BoundHasPV, StillCharged, Charged
  <1>12. CASE \/ \E c \in PVCs : KSeeClaim(c) \/ KSeePV(c)
              \/ \E p \in Pods : SeePod(p)
              \/ Worker \/ Crash \/ Restart(PVCs)
    <2>1. UNCHANGED <<claim, pod, rec, vrec, sBound>>
      BY <1>12 DEF KSeeClaim, KSeePV, SeePod, Worker, AddAgain, SyncPVByPod, Crash, Restart,
                   api, scheduler
    <2> QED BY <2>1, <1>pools, ChargeFrame
  <1> QED
    BY <1>1, <1>2, <1>3, <1>4, <1>5, <1>6, <1>7, <1>8, <1>9, <1>10, <1>11, <1>12
    DEF CleanNext, Binding, Kubernetes, Informers

LEMMA ChargeInit == Init => TypeOK /\ ViewsBehind /\ ChargeInv
    BY TypeInit DEF Init, ViewsBehind, ChargeInv, BoundHasPV, StillCharged

\* When no choice is abandoned after it left the scheduler, the volume of a
\* bound claim is never off the ledger: Reserve charges the claim and
\* AddOrUpdatePV moves the charge to the volume in the step that reverts it.
THEOREM BoundClaimsCharged == CleanSpec => []BoundStaysCharged
  <1> DEFINE I == TypeOK /\ ViewsBehind /\ ChargeInv
  <1>1. Init => I
    BY ChargeInit
  <1>2. I /\ [CleanNext]_vars => I'
    <2> SUFFICES ASSUME I, [CleanNext]_vars
                 PROVE  I'
      OBVIOUS
    <2>1. CASE CleanNext
      BY <2>1, CleanIsNext, TypeStep, ViewsStep, ChargeStep
    <2>2. CASE UNCHANGED vars
      BY <2>2 DEF vars, api, scheduler, controller, TypeOK, ViewsBehind, ChargeInv, BoundHasPV,
                  StillCharged, Charged
    <2> QED BY <2>1, <2>2
  <1>3. I => BoundStaysCharged
    BY DEF ChargeInv, StillCharged, BoundStaysCharged
  <1> QED BY <1>1, <1>2, <1>3, PTL DEF CleanSpec

----------------------------------------------------------------------------
(* What a clean step does to one claim's volume, records and annotations *)

\* How a PV changes: it is bound, or the scheduler or the controller patches a
\* volume that its own lister shows without a pool.
PatchedBy(c) ==
    /\ pv[c] # NoPV /\ pv'[c] # NoPV /\ pv'[c].bound = pv[c].bound
    /\ \/ pv'[c].pool = MakeAllocateInfo(c) /\ sPV[c] # NoPV /\ sPV[c].pool = NoPool
       \/ \E p \in Pods : /\ pv'[c].pool = SeenInfo(p, c)
                          /\ kPV[c] # NoPV /\ (kPV[c].pool = NoPool \/ Kind[c] = "Device")

LEMMA PvEffect ==
    ASSUME TypeOK, ViewsBehind, CleanNext, NEW c \in PVCs
    PROVE  \/ pv'[c] = pv[c]
           \/ /\ pv'[c] # NoPV /\ pv'[c].bound
              /\ pv'[c].pool = IF pv[c] = NoPV THEN NoPool ELSE pv[c].pool
           \/ PatchedBy(c)
  <1>1. ASSUME NEW p \in Pods, NEW failed \in SUBSET PVCs, PreBind(p, failed)
        PROVE  pv'[c] = pv[c] \/ PatchedBy(c)
    <2>1. CASE c \in Direct(p) \ failed
      <3>1. pv[c] \in Volumes /\ MakeAllocateInfo(c) \in Pools
        BY <2>1, DirectFacts DEF TypeOK
      <3>2. pv'[c] = [pv[c] EXCEPT !.pool = MakeAllocateInfo(c)]
        BY <1>1, <2>1 DEF PreBind, PatchPV
      <3>3. pv'[c] = [bound |-> pv[c].bound, pool |-> MakeAllocateInfo(c)] /\ pv'[c] \in Volumes
        BY <3>1, <3>2 DEF Volumes
      <3>4. sPV[c] # NoPV /\ sPV[c].pool = NoPool
        BY <2>1 DEF Direct
      <3> QED BY <3>1, <3>3, <3>4, NullAssumption DEF PatchedBy
    <2>2. CASE c \notin Direct(p) \ failed
      BY <1>1, <2>2 DEF PreBind, PatchPV
    <2> QED BY <2>1, <2>2
  <1>2. ASSUME NEW p \in Pods, NEW failed \in SUBSET PVCs, SyncPVByPod(p, failed)
        PROVE  pv'[c] = pv[c] \/ PatchedBy(c)
    <2>1. CASE c \in Patched(p, failed)
      <3>1. pv[c] \in Volumes /\ kInfo[p][c] \in Pools /\ pv[c] # NoPV
        BY <2>1, PatchedFacts DEF TypeOK
      <3>2. pv'[c] = [pv[c] EXCEPT !.pool = kInfo[p][c]]
        BY <1>2, <2>1 DEF SyncPVByPod, PatchPV
      <3>3. pv'[c] = [bound |-> pv[c].bound, pool |-> kInfo[p][c]] /\ pv'[c] \in Volumes
        BY <3>1, <3>2 DEF Volumes
      <3>4. c \in Listed(p) \ NotReady(p) /\ (kPV[c].pool = NoPool \/ Kind[c] = "Device")
        BY <2>1 DEF Patched, ToPatch
      <3>5. kPV[c] # NoPV /\ SeenInfo(p, c) = kInfo[p][c]
        BY <3>4 DEF Listed, NotReady, SeenInfo
      <3> QED BY <3>1, <3>3, <3>4, <3>5, NullAssumption DEF PatchedBy
    <2>2. CASE c \notin Patched(p, failed)
      BY <1>2, <2>2 DEF SyncPVByPod, PatchPV
    <2> QED BY <2>1, <2>2
  <1>3. ASSUME NEW d \in PVCs, BindPV(d)
        PROVE  \/ pv'[c] = pv[c]
               \/ /\ pv'[c] # NoPV /\ pv'[c].bound
                  /\ pv'[c].pool = IF pv[c] = NoPV THEN NoPool ELSE pv[c].pool
    <2>1. CASE c # d
      BY <1>3, <2>1 DEF BindPV, TypeOK
    <2>2. CASE c = d
      <3> DEFINE pool == IF pv[c] = NoPV THEN NoPool ELSE pv[c].pool
      <3>1. pv'[c] = [bound |-> TRUE, pool |-> pool]
        BY <1>3, <2>2 DEF BindPV, TypeOK
      <3>2. pool \in Pools \cup {NoPool}
        BY DEF TypeOK, Volumes
      <3> HIDE DEF pool
      <3>3. pv'[c] \in Volumes /\ pv'[c].bound /\ pv'[c].pool = pool
        BY <3>1, <3>2 DEF Volumes
      <3> QED BY <3>3, NullAssumption DEF pool
    <2> QED BY <2>1, <2>2
  <1>4. CASE CleanReserve \/ CleanFail \/ CleanDelete \/ Informers \/ Crash \/ Restart(PVCs)
    <2>1. pv' = pv
      BY <1>4 DEF CleanReserve, CleanFail, CleanDelete, Informers, Reserve, FailBinding, DeleteClaim,
                  SeeClaim, SeePV, SeePVDeleted, KSeeClaim, KSeePV, SeePod, Crash, Restart, api
    <2> QED BY <2>1
  <1>5. ASSUME NEW p \in Pods, \/ SelectNode(p) \/ VolumesBound(p) \/ Bind(p) \/ AddAgain(p)
                               \/ EndPod(p, "completed") \/ EndPod(p, "deleted")
        PROVE  pv'[c] = pv[c]
    BY <1>5 DEF SelectNode, VolumesBound, Bind, AddAgain, EndPod, api
  <1>6. ASSUME NEW d \in PVCs, BindPVC(d)
        PROVE  pv'[c] = pv[c]
    BY <1>6 DEF BindPVC
  <1> QED BY <1>1, <1>2, <1>3, <1>4, <1>5, <1>6 DEF CleanNext, Binding, Kubernetes, Worker

\* The listers copy what the API server holds.
LEMMA ViewEffect ==
    ASSUME TypeOK, CleanNext, NEW c \in PVCs
    PROVE  sPV'[c] \in {sPV[c], NoPV, pv[c]} /\ kPV'[c] \in {kPV[c], NoPV, pv[c]}
  <1>1. CASE Informers \/ Restart(PVCs)
    BY <1>1 DEF Informers, SeeClaim, SeePV, SeePVDeleted, KSeeClaim, KSeePV, SeePod, Restart,
                Current, TypeOK, api, scheduler, controller
  <1>2. CASE Kubernetes \/ Crash \/ CleanDelete \/ CleanReserve \/ CleanFail
    BY <1>2 DEF Kubernetes, BindPV, BindPVC, Crash, CleanDelete, DeleteClaim, CleanReserve, Reserve,
                CleanFail, FailBinding, scheduler, controller
  <1>3. CASE Binding \/ Worker
    BY <1>3 DEF Binding, SelectNode, VolumesBound, Bind, PreBind, EndPod, Worker, AddAgain,
                SyncPVByPod, scheduler, controller
  <1> QED BY <1>1, <1>2, <1>3 DEF CleanNext

\* Annotations come from the records, and the controller's copies from them.
LEMMA InfoEffect ==
    ASSUME TypeOK, CleanNext, NEW c \in PVCs, NEW p \in Pods
    PROVE  /\ podInfo'[p][c] \in {podInfo[p][c], MakeAllocateInfo(c), NoPool}
           /\ SeenInfo(p, c)' \in {SeenInfo(p, c), podInfo[p][c], NoPool}
  <1>1. ASSUME NEW q \in Pods, NEW failed \in SUBSET PVCs, PreBind(q, failed)
        PROVE  podInfo'[p][c] \in {podInfo[p][c], MakeAllocateInfo(c), NoPool} /\ kInfo' = kInfo
    <2>1. PodInfos(q, failed)[c] \in {MakeAllocateInfo(c), NoPool}
      BY DEF PodInfos
    <2>2. podInfo'[p] = podInfo[p] \/ podInfo'[p] = PodInfos(q, failed)
      BY <1>1 DEF PreBind, TypeOK
    <2>3. kInfo' = kInfo
      BY <1>1 DEF PreBind, controller
    <2> QED BY <2>1, <2>2, <2>3
  <1>2. ASSUME NEW q \in Pods, SeePod(q)
        PROVE  podInfo' = podInfo /\ SeenInfo(p, c)' \in {SeenInfo(p, c), podInfo[p][c], NoPool}
    BY <1>2 DEF SeePod, SeenInfo, TypeOK, api
  <1>3. CASE Restart(PVCs)
    <2>1. podInfo' = podInfo
      BY <1>3 DEF Restart, api
    <2>2. kInfo'[p] \in {NoPod, podInfo[p]}
      BY <1>3 DEF Restart
    <2> QED BY <2>1, <2>2 DEF SeenInfo
  <1>4. CASE Kubernetes \/ Crash \/ CleanDelete \/ CleanReserve \/ CleanFail \/ Worker
    <2>1. podInfo' = podInfo /\ kInfo' = kInfo
      BY <1>4 DEF Kubernetes, BindPV, BindPVC, Crash, CleanDelete, DeleteClaim, CleanReserve, Reserve,
                  CleanFail, FailBinding, Worker, AddAgain, SyncPVByPod, api, controller
    <2> QED BY <2>1 DEF SeenInfo
  <1>5. ASSUME NEW q \in Pods, \/ SelectNode(q) \/ VolumesBound(q) \/ Bind(q)
                               \/ EndPod(q, "completed") \/ EndPod(q, "deleted")
        PROVE  podInfo' = podInfo /\ kInfo' = kInfo
    BY <1>5 DEF SelectNode, VolumesBound, Bind, EndPod, api, controller
  <1>6. ASSUME NEW d \in PVCs, SeeClaim(d) \/ SeePV(d) \/ SeePVDeleted(d) \/ KSeeClaim(d) \/ KSeePV(d)
        PROVE  podInfo' = podInfo /\ kInfo' = kInfo
    BY <1>6 DEF SeeClaim, SeePV, SeePVDeleted, KSeeClaim, KSeePV, api, controller
  <1> QED BY <1>1, <1>2, <1>3, <1>4, <1>5, <1>6 DEF CleanNext, Binding, Informers, SeenInfo

\* How the records of a claim change: not at all, with its reservation, its
\* release, the arrival of its volume and the loss of it.
Kept(c) == rec'[c] = rec[c] /\ vrec'[c] = vrec[c] /\ sPV'[c] = sPV[c]

Reserved(c) ==
    /\ rec[c] = NoPool /\ rec'[c] \in Pools /\ ~PVBound(c)
    /\ UNCHANGED <<pv, podInfo, kInfo, sPV, vrec>>

Released(c) ==
    /\ rec'[c] = NoPool /\ vrec'[c] = vrec[c] /\ sPV'[c] = sPV[c]
    /\ \A p \in Pods : podInfo[p][c] = NoPool
    /\ UNCHANGED podInfo

Arrived(c) ==
    /\ pv[c] # NoPV /\ sPV'[c] = pv[c] /\ rec'[c] \in {rec[c], NoPool}
    /\ vrec'[c] = IF vrec[c] # NoPool THEN vrec[c]
                  ELSE IF pv[c].pool # NoPool THEN pv[c].pool
                  ELSE IF pv[c].bound THEN rec[c] ELSE NoPool

Dropped(c) ==
    /\ sPV[c] # NoPV /\ sPV'[c] = NoPV
    /\ rec'[c] \in {rec[c], NoPool} /\ vrec'[c] \in {vrec[c], NoPool}

LEMMA RecordEffect ==
    ASSUME TypeOK, CleanNext, NEW c \in PVCs
    PROVE  Kept(c) \/ Reserved(c) \/ Released(c) \/ Arrived(c) \/ Dropped(c)
  <1>1. CASE CleanReserve
    <2>1. PICK p \in Pods, choice \in [PVCs -> Pools] :
             (\A d \in PodPVCs[p] \ sBound : ~PVBound(d)) /\ Reserve(p, choice)
      BY <1>1 DEF CleanReserve
    <2>2. UNCHANGED <<pv, podInfo, kInfo, sPV, vrec>>
      BY <2>1 DEF Reserve, controller
    <2>3. mine'[p] = {d \in PodPVCs[p] \ sBound : rec[d] = NoPool}
      BY <2>1 DEF Reserve, TypeOK
    <2>4. rec'[c] = IF c \in mine'[p] THEN choice[c] ELSE rec[c]
      BY <2>1 DEF Reserve
    <2>5. CASE c \in mine'[p]
      BY <2>1, <2>2, <2>3, <2>4, <2>5 DEF Reserved
    <2>6. CASE c \notin mine'[p]
      BY <2>2, <2>4, <2>6 DEF Kept
    <2> QED BY <2>5, <2>6
  <1>2. CASE CleanFail
    <2>1. PICK p \in Pods : (\A d \in mine[p] : Unused(p, d)) /\ FailBinding(p)
      BY <1>2 DEF CleanFail
    <2>2. podInfo' = podInfo /\ vrec' = vrec /\ sPV' = sPV
          /\ rec'[c] = IF c \in mine[p] THEN NoPool ELSE rec[c]
      BY <2>1 DEF FailBinding
    <2> QED BY <2>1, <2>2 DEF Unused, Released, Kept
  <1>3. ASSUME NEW d \in PVCs, SeePV(d)
        PROVE  Kept(c) \/ Arrived(c)
    <2>1. CASE d # c
      BY <1>3, <2>1 DEF SeePV, TypeOK, Infos, Kept
    <2>2. CASE d = c
      BY <1>3, <2>2 DEF SeePV, TypeOK, Infos, Arrived, Current
    <2> QED BY <2>1, <2>2
  <1>4. ASSUME NEW d \in PVCs, SeePVDeleted(d)
        PROVE  Kept(c) \/ Dropped(c)
    BY <1>4 DEF SeePVDeleted, TypeOK, Infos, Kept, Dropped
  <1>5. ASSUME NEW d \in PVCs, SeeClaim(d) \/ KSeeClaim(d) \/ KSeePV(d)
        PROVE  Kept(c)
    BY <1>5 DEF SeeClaim, KSeeClaim, KSeePV, scheduler, Kept
  <1>6. CASE \/ Kubernetes \/ Crash \/ CleanDelete \/ Worker \/ Restart(PVCs)
             \/ \E p \in Pods : SeePod(p)
    BY <1>6 DEF Kubernetes, BindPV, BindPVC, Crash, CleanDelete, DeleteClaim, Worker, AddAgain,
                SyncPVByPod, Restart, SeePod, scheduler, Kept
  <1>7. CASE Binding
    BY <1>7 DEF Binding, SelectNode, VolumesBound, Bind, PreBind, EndPod, scheduler, Kept
  <1> QED BY <1>1, <1>2, <1>3, <1>4, <1>5, <1>6, <1>7 DEF CleanNext, Informers

\* A PV that was there first is never patched: both writers see its pool.
LEMMA StaticStep ==
    ASSUME TypeOK, ViewsBehind, StaticStays, NoStaticDevice, CleanNext
    PROVE  StaticStays'
  <1> SUFFICES ASSUME NEW c \in PVCs, ~Dynamic(c)
               PROVE  /\ pv'[c] # NoPV /\ pv'[c].pool = StaticPool[c]
                      /\ kPV'[c] # NoPV => kPV'[c].pool = StaticPool[c]
                      /\ sPV'[c] # NoPV => sPV'[c].pool = StaticPool[c] /\ vrec'[c] = StaticPool[c]
                      /\ vrec'[c] \in {StaticPool[c], NoPool}
    BY DEF StaticStays, Dynamic
  <1>1. /\ StaticPool[c] # NoPool /\ Kind[c] # "Device"
        /\ pv[c] # NoPV /\ pv[c].pool = StaticPool[c]
        /\ kPV[c] # NoPV => kPV[c].pool = StaticPool[c]
        /\ sPV[c] # NoPV => sPV[c].pool = StaticPool[c] /\ vrec[c] = StaticPool[c]
        /\ vrec[c] \in {StaticPool[c], NoPool}
    BY DEF StaticStays, Dynamic, NoStaticDevice
  <1>2. pv'[c] # NoPV /\ pv'[c].pool = StaticPool[c]
    BY <1>1, PvEffect DEF PatchedBy
  <1>3. kPV'[c] # NoPV => kPV'[c].pool = StaticPool[c]
    BY <1>1, ViewEffect
  <1>4. /\ sPV'[c] # NoPV => sPV'[c].pool = StaticPool[c] /\ vrec'[c] = StaticPool[c]
        /\ vrec'[c] \in {StaticPool[c], NoPool}
    <2>1. CASE Kept(c) \/ Reserved(c) \/ Released(c)
      BY <1>1, <2>1 DEF Kept, Reserved, Released
    <2>2. CASE Arrived(c)
      BY <1>1, <2>2 DEF Arrived
    <2>3. CASE Dropped(c)
      BY <1>1, <2>3 DEF Dropped
    <2> QED BY <2>1, <2>2, <2>3, RecordEffect
  <1> QED BY <1>2, <1>3, <1>4

\* The records a writer can use hold the one choice.
LEMMA AgreedRecord ==
    ASSUME NEW c \in PVCs, NEW g, Agrees(c, g)
    PROVE  MakeAllocateInfo(c) \in {g, NoPool}
    BY DEF Agrees, MakeAllocateInfo

\* A claim's one choice stays the same from the moment its PV exists; before
\* that, a reservation makes it when nothing remembers another.
LEMMA AgreeStep ==
    ASSUME TypeOK, ViewsBehind, ListedIsReserved, CleanNext,
           NEW c \in PVCs, Dynamic(c), NEW g \in Pools \cup {NoPool}, Agrees(c, g)
    PROVE  Agrees(c, g)' \/ (pv[c] = NoPV /\ \E h \in Pools : Agrees(c, h)')
  <1>1. CASE Reserved(c)
    <2>1. pv[c] = NoPV /\ sPV[c] = NoPV /\ vrec[c] = NoPool
      BY <1>1 DEF Reserved, PVBound, Agrees, ViewsBehind, ListedIsReserved
    <2>2. \A p \in Pods : podInfo[p][c] = NoPool /\ SeenInfo(p, c) = NoPool
      BY <1>1, <2>1 DEF Reserved, ListedIsReserved
    <2>3. \A p \in Pods : SeenInfo(p, c)' = NoPool
      BY <1>1, <2>2 DEF Reserved, SeenInfo
    <2>4. PICK h \in Pools : rec'[c] = h
      BY <1>1 DEF Reserved
    <2>5. Agrees(c, h)'
      BY <1>1, <2>1, <2>2, <2>3, <2>4 DEF Reserved, Agrees
    <2> QED BY <2>1, <2>5
  <1>2. CASE ~Reserved(c)
    <2>1. rec'[c] \in {g, NoPool} /\ vrec'[c] \in {g, NoPool}
      <3>1. CASE Kept(c) \/ Released(c) \/ Dropped(c)
        BY <3>1 DEF Kept, Released, Dropped, Agrees
      <3>2. CASE Arrived(c)
        BY <3>2 DEF Arrived, Agrees
      <3> QED BY <1>2, <3>1, <3>2, RecordEffect
    <2>2. \A p \in Pods : podInfo'[p][c] \in {g, NoPool} /\ SeenInfo(p, c)' \in {g, NoPool}
      BY InfoEffect, AgreedRecord DEF Agrees
    <2>3. pv'[c] # NoPV => pv'[c].bound /\ pv'[c].pool \in {g, NoPool}
      BY PvEffect, AgreedRecord DEF PatchedBy, Agrees
    <2>4. sPV'[c] # NoPV => sPV'[c].pool \in {g, NoPool}
      BY ViewEffect DEF Agrees
    <2> QED BY <2>1, <2>2, <2>3, <2>4 DEF Agrees
  <1> QED BY <1>1, <1>2

\* Before its PV exists the scheduler cannot have seen it, so what PreBind
\* writes on a pod is the claim's record, and again the same when it retries.
LEMMA ListedStep ==
    ASSUME TypeOK, ViewsBehind, BoundHasPV, ListedIsReserved, CleanNext
    PROVE  ListedIsReserved'
  <1>pools. \A c \in PVCs : pv'[c] = NoPV => pv[c] = NoPV
    BY CleanIsNext, StepKeepsPools DEF PoolsKept
  <1>1. ASSUME NEW c \in PVCs, Dynamic(c), pv'[c] = NoPV
        PROVE  vrec'[c] = NoPool
    <2>1. pv[c] = NoPV /\ sPV[c] = NoPV /\ vrec[c] = NoPool
      BY <1>1, <1>pools DEF ListedIsReserved, ViewsBehind
    <2> QED BY <2>1, RecordEffect DEF Kept, Reserved, Released, Arrived, Dropped
  <1>2. ASSUME NEW c \in PVCs, NEW p \in Pods,
               podInfo'[p][c] # NoPool => c \in PodPVCs[p],
               Dynamic(c) /\ pv[c] = NoPV =>
                  /\ podInfo'[p][c] # NoPool => rec'[c] = podInfo'[p][c]
                  /\ SeenInfo(p, c)' # NoPool => podInfo'[p][c] = SeenInfo(p, c)'
        PROVE  /\ podInfo'[p][c] # NoPool => c \in PodPVCs[p]
               /\ Dynamic(c) /\ pv'[c] = NoPV =>
                     /\ podInfo'[p][c] # NoPool => rec'[c] = podInfo'[p][c]
                     /\ SeenInfo(p, c)' # NoPool => podInfo'[p][c] = SeenInfo(p, c)'
    BY <1>2, <1>pools
  <1> SUFFICES ASSUME NEW c \in PVCs, NEW p \in Pods
               PROVE  /\ podInfo'[p][c] # NoPool => c \in PodPVCs[p]
                      /\ Dynamic(c) /\ pv[c] = NoPV =>
                            /\ podInfo'[p][c] # NoPool => rec'[c] = podInfo'[p][c]
                            /\ SeenInfo(p, c)' # NoPool => podInfo'[p][c] = SeenInfo(p, c)'
    BY <1>1, <1>2 DEF ListedIsReserved, Dynamic
  <1>3. /\ podInfo[p][c] # NoPool => c \in PodPVCs[p]
        /\ Dynamic(c) /\ pv[c] = NoPV =>
              /\ podInfo[p][c] # NoPool => rec[c] = podInfo[p][c]
              /\ SeenInfo(p, c) # NoPool => podInfo[p][c] = SeenInfo(p, c)
    BY DEF ListedIsReserved
  <1>4. ASSUME NEW q \in Pods, NEW failed \in SUBSET PVCs, PreBind(q, failed)
        PROVE  /\ podInfo'[p][c] # NoPool => c \in PodPVCs[p]
               /\ Dynamic(c) /\ pv[c] = NoPV =>
                     /\ podInfo'[p][c] # NoPool => rec'[c] = podInfo'[p][c]
                     /\ SeenInfo(p, c)' # NoPool => podInfo'[p][c] = SeenInfo(p, c)'
    <2>1. rec' = rec /\ SeenInfo(p, c)' = SeenInfo(p, c)
      BY <1>4 DEF PreBind, SeenInfo, controller
    <2>2. CASE podInfo'[p] = podInfo[p]
      BY <1>3, <2>1, <2>2
    <2>3. CASE podInfo'[p] # podInfo[p]
      <3>1. p = q /\ podInfo'[p][c] = PodInfos(p, failed)[c]
        BY <1>4, <2>3 DEF PreBind, TypeOK
      <3>2. podInfo'[p][c] # NoPool => c \in PodPVCs[p]
        BY <1>4, <3>1 DEF PreBind, PodInfos, ViaPod, Direct
      <3>3. ASSUME Dynamic(c), pv[c] = NoPV
            PROVE  podInfo'[p][c] = IF c \in PodPVCs[p] THEN rec[c] ELSE NoPool
        <4>1. c \notin sBound /\ MakeAllocateInfo(c) = rec[c] /\ c \notin failed
          BY <1>4, <3>1, <3>3 DEF BoundHasPV, MakeAllocateInfo, PreBind, Direct
        <4> QED BY <3>1, <4>1 DEF PodInfos, ViaPod
      <3> QED BY <1>3, <2>1, <3>2, <3>3
    <2> QED BY <2>2, <2>3
  <1>5. ASSUME podInfo' = podInfo, SeenInfo(p, c)' \in {SeenInfo(p, c), podInfo[p][c], NoPool}
        PROVE  /\ podInfo'[p][c] # NoPool => c \in PodPVCs[p]
               /\ Dynamic(c) /\ pv[c] = NoPV =>
                     /\ podInfo'[p][c] # NoPool => rec'[c] = podInfo'[p][c]
                     /\ SeenInfo(p, c)' # NoPool => podInfo'[p][c] = SeenInfo(p, c)'
    <2>1. ASSUME Dynamic(c), pv[c] = NoPV, podInfo[p][c] # NoPool
          PROVE  rec'[c] = rec[c]
      BY <1>3, <2>1, RecordEffect DEF Kept, Reserved, Released, Arrived, Dropped, ViewsBehind
    <2> QED BY <1>3, <1>5, <2>1
  <1>6. (\A q \in Pods, failed \in SUBSET PVCs : ~PreBind(q, failed)) => podInfo' = podInfo
    BY DEF CleanNext, CleanReserve, CleanFail, CleanDelete, Binding, Kubernetes, Informers, Worker,
           Reserve, FailBinding, DeleteClaim, SelectNode, VolumesBound, Bind, EndPod, BindPV, BindPVC,
           SeeClaim, SeePV, SeePVDeleted, KSeeClaim, KSeePV, SeePod, AddAgain, SyncPVByPod,
           Crash, Restart, api
  <1> QED BY <1>4, <1>5, <1>6, InfoEffect

\* The pool the scheduler sees on a PV is the one it charged, or charges now.
LEMMA PlacedStep ==
    ASSUME TypeOK, ViewsBehind, StaticStays, OneChoice, ChargedWherePlaced,
           StaticStays', CleanNext
    PROVE  ChargedWherePlaced'
  <1> SUFFICES ASSUME NEW c \in PVCs, sPV'[c] # NoPV, sPV'[c].pool # NoPool
               PROVE  vrec'[c] = sPV'[c].pool
    BY DEF ChargedWherePlaced
  <1>1. CASE ~Dynamic(c)
    BY <1>1 DEF StaticStays, Dynamic
  <1>2. CASE Dynamic(c)
    <2>1. PICK g \in Pools \cup {NoPool} : Agrees(c, g)
      BY <1>2 DEF OneChoice
    <2>2. CASE Kept(c) \/ Reserved(c) \/ Released(c)
      BY <2>2 DEF Kept, Reserved, Released, ChargedWherePlaced
    <2>3. CASE Arrived(c)
      BY <2>1, <2>3 DEF Arrived, Agrees
    <2>4. CASE Dropped(c)
      BY <2>4 DEF Dropped
    <2> QED BY <2>2, <2>3, <2>4, RecordEffect
  <1> QED BY <1>1, <1>2

LEMMA PlaceStep ==
    ASSUME TypeOK, ViewsBehind, BoundHasPV, PlaceInv, NoStaticDevice, CleanNext
    PROVE  PlaceInv'
  <1>1. StaticStays'
    BY StaticStep DEF PlaceInv
  <1>2. ListedIsReserved'
    BY ListedStep DEF PlaceInv
  <1>3. OneChoice'
    <2> SUFFICES ASSUME NEW c \in PVCs, Dynamic(c)
                 PROVE  \E g \in Pools \cup {NoPool} : Agrees(c, g)'
      BY DEF OneChoice, Dynamic
    <2>1. PICK g \in Pools \cup {NoPool} : Agrees(c, g)
      BY DEF PlaceInv, OneChoice
    <2> QED BY <2>1, AgreeStep DEF PlaceInv
  <1>4. ChargedWherePlaced'
    BY <1>1, PlacedStep DEF PlaceInv
  <1> QED BY <1>1, <1>2, <1>3, <1>4 DEF PlaceInv

LEMMA PlaceInit == Init => PlaceInv
  <1> SUFFICES ASSUME Init
               PROVE  PlaceInv
    OBVIOUS
  <1>1. \A c \in PVCs : ~Dynamic(c) => Available(c) \in Volumes /\ Available(c).pool = StaticPool[c]
    BY PoolAssumption DEF Dynamic, Available, Volumes
  <1>2. \A c \in PVCs : Dynamic(c) => Available(c) = NoPV /\ StaticPool[c] = NoPool
    BY DEF Dynamic, Available
  <1>3. \A p \in Pods, c \in PVCs : podInfo[p][c] = NoPool /\ SeenInfo(p, c) = NoPool
    BY DEF Init, NoInfo, SeenInfo
  <1>4. StaticStays
    BY <1>1, NullAssumption DEF Init, StaticStays
  <1>5. ListedIsReserved
    BY <1>2, <1>3 DEF Init, ListedIsReserved
  <1>6. \A c \in PVCs : Dynamic(c) => Agrees(c, NoPool)
    BY <1>2, <1>3 DEF Init, NoInfo, Agrees
  <1>7. ChargedWherePlaced
    BY <1>1, <1>2 DEF Init, ChargedWherePlaced
  <1> QED BY <1>4, <1>5, <1>6, <1>7 DEF PlaceInv, OneChoice

PlaceAndCharge == TypeOK /\ ViewsBehind /\ ChargeInv /\ PlaceInv

LEMMA PlaceInvariant == NoStaticDevice => (CleanSpec => []PlaceAndCharge)
  <1> SUFFICES ASSUME NoStaticDevice
               PROVE  CleanSpec => []PlaceAndCharge
    OBVIOUS
  <1>1. Init => PlaceAndCharge
    BY ChargeInit, PlaceInit DEF PlaceAndCharge
  <1>2. PlaceAndCharge /\ [CleanNext]_vars => PlaceAndCharge'
    <2> SUFFICES ASSUME PlaceAndCharge, [CleanNext]_vars
                 PROVE  PlaceAndCharge'
      OBVIOUS
    <2>1. CASE CleanNext
      BY <2>1, CleanIsNext, TypeStep, ViewsStep, ChargeStep, PlaceStep DEF PlaceAndCharge, ChargeInv
    <2>2. CASE UNCHANGED vars
      <3>1. TypeOK' /\ ViewsBehind' /\ ChargeInv'
        BY <2>2 DEF vars, api, scheduler, controller, PlaceAndCharge, TypeOK, ViewsBehind, ChargeInv,
                    BoundHasPV, StillCharged, Charged
      <3>2. PlaceInv'
        BY <2>2 DEF vars, api, scheduler, controller, PlaceAndCharge, PlaceInv, StaticStays, Dynamic,
                    ListedIsReserved, SeenInfo, OneChoice, Agrees, ChargedWherePlaced
      <3> QED BY <3>1, <3>2 DEF PlaceAndCharge
    <2> QED BY <2>1, <2>2
  <1> QED BY <1>1, <1>2, PTL DEF CleanSpec

\* When no choice is abandoned after it left the scheduler and no volume is a
\* device that was there first, the pool the scheduler sees on a PV is the one
\* its ledger charges, through any lag of the informers, failed patch and
\* controller crash.
THEOREM PlacedWhereCharged == NoStaticDevice => (CleanSpec => []ChargedWherePlaced)
  <1>1. PlaceAndCharge => ChargedWherePlaced
    BY DEF PlaceAndCharge, PlaceInv
  <1> QED BY <1>1, PlaceInvariant, PTL

\* There, no writer ever moves a PV: the scheduler's PreBind and the controller
\* decide to patch on listers that lag, and still write the pool the PV has.
THEOREM AllocationsStay == NoStaticDevice => (CleanSpec => AllocationKept)
  <1> DEFINE Keeps == \A c \in PVCs : pv[c] # NoPV /\ pv[c].pool # NoPool
                                      => pv'[c].pool = pv[c].pool
  <1>1. PlaceAndCharge /\ PlaceAndCharge' /\ [CleanNext]_vars => [Keeps]_vars
    <2> SUFFICES ASSUME PlaceAndCharge, PlaceAndCharge', CleanNext,
                        NEW c \in PVCs, pv[c] # NoPV, pv[c].pool # NoPool
                 PROVE  pv'[c].pool = pv[c].pool
      OBVIOUS
    <2>1. CASE ~Dynamic(c)
      BY <2>1 DEF PlaceAndCharge, PlaceInv, StaticStays, Dynamic
    <2>2. CASE Dynamic(c)
      <3>1. PICK g \in Pools \cup {NoPool} : Agrees(c, g)
        BY <2>2 DEF PlaceAndCharge, PlaceInv, OneChoice
      <3>2. Agrees(c, g)'
        BY <2>2, <3>1, AgreeStep DEF PlaceAndCharge, PlaceInv
      <3>3. pv'[c] # NoPV /\ pv'[c].pool # NoPool
        BY CleanIsNext, StepKeepsPools DEF PlaceAndCharge, PoolsKept
      <3> QED BY <3>1, <3>2, <3>3 DEF Agrees
    <2> QED BY <2>1, <2>2
  <1>2. CleanSpec => [][CleanNext]_vars
    BY PTL DEF CleanSpec
  <1> QED BY <1>1, <1>2, PlaceInvariant, PTL DEF AllocationKept
=============================================================================
