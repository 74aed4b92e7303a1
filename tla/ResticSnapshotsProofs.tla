----------------------- MODULE ResticSnapshotsProofs ------------------------
(***************************************************************************)
(* Proofs about ResticSnapshots, for any number of volumes, snapshots and  *)
(* faults: a temporary snapshot has one owner, and the data of a ready     *)
(* snapshot that no scan of the cleaner overlooked can be restored.        *)
(***************************************************************************)
EXTENDS ResticSnapshots, FiniteSetTheorems, TLAPS

(***************************************************************************)
(* Types.                                                                  *)
(***************************************************************************)

LEMMA TypeInit == Init => TypeOK
    BY PolicyAssumption, FaultAssumption DEF Init, TypeOK, Quiet

\* The counter of faults stays below its bound.
LEMMA FaultType ==
    ASSUME faults \in 0..MaxFaults, Fault \/ UNCHANGED faults
    PROVE  faults' \in 0..MaxFaults
    BY FaultAssumption DEF Fault

\* A job that moves on is a job.
LEMMA StepType ==
    ASSUME jobs \subseteq Job, NEW j \in jobs, NEW pc \in Pcs, NEW ok \in BOOLEAN, Step(j, pc, ok)
    PROVE  /\ jobs' \subseteq Job
           /\ \E k \in Job : /\ k.snap = j.snap /\ k.pc = pc /\ k.ok = ok /\ k.waited = j.waited
                             /\ jobs' = (jobs \ {j}) \cup {k}
  <1> DEFINE k == [j EXCEPT !.pc = pc, !.ok = ok]
  <1>1. j \in Job
    OBVIOUS
  <1>2. k \in Job /\ k.snap = j.snap /\ k.pc = pc /\ k.ok = ok /\ k.waited = j.waited
    BY <1>1 DEF Job
  <1>3. jobs' = (jobs \ {j}) \cup {k}
    BY DEF Step
  <1> QED BY <1>2, <1>3

LEMMA FinishType ==
    ASSUME TypeOK, NEW j \in jobs, NEW ok \in BOOLEAN, Finish(j, ok)
    PROVE  /\ jobs' \subseteq Job
           /\ call' \in [Snaps -> {"idle", "create", "forget"}]
           /\ content' \in [Snaps -> {"none", "asked", "ready", "deleted", "gone"}]
    BY DEF TypeOK, Finish, Job

\* A step of a job, as far as the types go.
LEMMA JobStepType ==
    ASSUME TypeOK, NEW j \in jobs, JobStep(j)
    PROVE  TypeOK'
  <1>0. j \in Job
    BY DEF TypeOK
  <1>1. CASE CreateTemp(j)
    <2>1. CASE j.snap \notin temp
      <3>1. temp' = temp \cup {j.snap} /\ Step(j, "mount", TRUE) /\ UNCHANGED <<content, call>>
        BY <1>1, <2>1 DEF CreateTemp
      <3>2. jobs' \subseteq Job
        BY <3>1, StepType DEF TypeOK, Pcs
      <3> QED BY <1>0, <1>1, <3>1, <3>2 DEF TypeOK, CreateTemp, Job
    <2>2. CASE j.snap \in temp
      <3>1. Finish(j, FALSE) /\ UNCHANGED temp
        BY <1>1, <2>2 DEF CreateTemp
      <3> QED BY <1>1, <3>1, FinishType DEF TypeOK, CreateTemp
    <2> QED BY <2>1, <2>2
  <1>2. CASE Mount(j)
    <2>1. jobs' \subseteq Job
      BY <1>2, StepType DEF TypeOK, Mount, Pcs
    <2>2. faults' \in 0..MaxFaults
      BY <1>2, FaultType DEF TypeOK, Mount
    <2> QED BY <1>2, <2>1, <2>2 DEF TypeOK, Mount, kube
  <1>3. CASE GetOrCreateRepository(j)
    <2>1. jobs' \subseteq Job
      BY <1>3, StepType DEF TypeOK, GetOrCreateRepository, Pcs
    <2>2. faults' \in 0..MaxFaults
      BY <1>3, FaultType DEF TypeOK, GetOrCreateRepository
    <2>3. objects' \in [Vols -> SUBSET (Snaps \cup {Config})]
      BY <1>0, <1>3, SourceAssumption DEF TypeOK, GetOrCreateRepository, Job
    <2> QED BY <1>3, <2>1, <2>2, <2>3 DEF TypeOK, GetOrCreateRepository, kube
  <1>4. CASE BackupData(j)
    <2>1. jobs' \subseteq Job
      BY <1>4, StepType DEF TypeOK, BackupData, Pcs
    <2>2. faults' \in 0..MaxFaults
      BY <1>4, FaultType DEF TypeOK, BackupData
    <2>3. j.snap \in Snaps /\ SourceOf[j.snap] \in Vols
      BY <1>0, SourceAssumption DEF Job
    <2>4. CASE UNCHANGED <<objects, exposed>>
      BY <1>4, <2>1, <2>2, <2>4 DEF TypeOK, BackupData, kube
    <2>5. CASE /\ objects' = [objects EXCEPT ![SourceOf[j.snap]] = @ \cup {j.snap}]
               /\ exposed' \in {exposed \cup {j.snap}, exposed}
      <3>1. objects' \in [Vols -> SUBSET (Snaps \cup {Config})] /\ exposed' \subseteq Snaps
        BY <2>3, <2>5 DEF TypeOK
      <3> QED BY <1>4, <2>1, <2>2, <3>1 DEF TypeOK, BackupData, kube
    <2> QED BY <1>4, <2>4, <2>5 DEF BackupData
  <1>5. CASE Umount(j)
    <2>1. jobs' \subseteq Job
      BY <1>0, <1>5, StepType DEF TypeOK, Umount, Pcs, Job
    <2>2. faults' \in 0..MaxFaults
      BY <1>5, FaultType DEF TypeOK, Umount
    <2> QED BY <1>0, <1>5, <2>1, <2>2 DEF TypeOK, Umount, kube, Job
  <1>6. CASE RemoveTemp(j)
    <2>1. Finish(j, j.ok) /\ j.ok \in BOOLEAN
      BY <1>0, <1>6 DEF RemoveTemp, Job
    <2>2. faults' \in 0..MaxFaults
      BY <1>6, FaultType DEF TypeOK, RemoveTemp
    <2> QED BY <1>0, <1>6, <2>1, <2>2, FinishType DEF TypeOK, RemoveTemp, Job
  <1> QED BY <1>1, <1>2, <1>3, <1>4, <1>5, <1>6 DEF JobStep

LEMMA TypeNext == TypeOK /\ [Next]_vars => TypeOK'
  <1> SUFFICES ASSUME TypeOK, [Next]_vars
               PROVE  TypeOK'
    OBVIOUS
  <1>1. ASSUME NEW j \in jobs, JobStep(j)
        PROVE  TypeOK'
    BY <1>1, JobStepType
  <1>2. ASSUME NEW j \in jobs, Timeout(j)
        PROVE  TypeOK'
    <2>1. [j EXCEPT !.waited = FALSE] \in Job /\ j.snap \in Snaps
      BY DEF TypeOK, Job
    <2>2. faults' \in 0..MaxFaults
      BY <1>2, FaultType DEF TypeOK, Timeout
    <2> QED BY <1>2, <2>1, <2>2 DEF TypeOK, Timeout, kube
  <1>3. CASE LvmdRestart
    <2>1. faults' \in 0..MaxFaults
      BY <1>3, FaultType DEF TypeOK, LvmdRestart
    <2> QED BY <1>3, <2>1 DEF TypeOK, LvmdRestart, kube
  <1>4. ASSUME NEW s \in Snaps, CreateSnapshot(s)
        PROVE  TypeOK'
    <2>1. [snap |-> s, pc |-> "lvcreate", ok |-> TRUE, waited |-> TRUE] \in Job
      BY DEF Job, Pcs
    <2>2. jobs' \subseteq Job
      BY <1>4, <2>1 DEF TypeOK, CreateSnapshot
    <2> QED BY <1>4, <2>2 DEF TypeOK, CreateSnapshot, kube
  <1>5. ASSUME NEW s \in Snaps, DeleteSnapshot(s)
        PROVE  TypeOK'
    BY <1>5 DEF TypeOK, DeleteSnapshot, node
  <1>6. ASSUME NEW s \in Snaps, DeleteDataByTag(s)
        PROVE  TypeOK'
    <2>1. faults' \in 0..MaxFaults
      BY <1>6, FaultType DEF TypeOK, DeleteDataByTag
    <2>2. objects' \in [Vols -> SUBSET (Snaps \cup {Config})]
      BY <1>6 DEF TypeOK, DeleteDataByTag
    <2>3. content' \in [Snaps -> {"none", "asked", "ready", "deleted", "gone"}]
      BY <1>6 DEF TypeOK, DeleteDataByTag
    <2> QED BY <1>6, <2>1, <2>2, <2>3 DEF TypeOK, DeleteDataByTag, node
  <1>7. ASSUME NEW s \in Snaps,
               AskSnapshot(s) \/ DeleteRequest(s) \/ DeleteContent(s) \/ RetainedGoes(s)
        PROVE  TypeOK'
    BY <1>7 DEF TypeOK, AskSnapshot, DeleteRequest, DeleteContent, RetainedGoes, node
  <1>8. CASE Observe \/ CleanOrphanSnapshotContents
    BY <1>8 DEF TypeOK, Observe, CleanOrphanSnapshotContents, Annotate, node
  <1>9. CASE ListContents
    BY <1>9 DEF TypeOK, ListContents, Quiet, kube, node
  <1>10. CASE ListObjects
    <2>1. faults' \in 0..MaxFaults
      BY <1>10, FaultType DEF TypeOK, ListObjects
    <2>2. Unprotected \subseteq Object
      BY DEF Unprotected
    <2>3. cleaner' \in [pc : {"idle", "contents", "objects"}, known : SUBSET Snaps,
                        doomed : SUBSET Object]
      <3>1. CASE cleaner' = Quiet
        BY <3>1 DEF Quiet
      <3>2. CASE cleaner' = [cleaner EXCEPT !.pc = "objects", !.doomed = Unprotected]
        BY <2>2, <3>2 DEF TypeOK
      <3> QED BY <1>10, <3>1, <3>2 DEF ListObjects
    <2> QED BY <1>10, <2>1, <2>3 DEF TypeOK, ListObjects, kube, node
  <1>11. ASSUME NEW o \in Object, DeleteObject(o)
         PROVE  TypeOK'
    <2>1. faults' \in 0..MaxFaults
      BY <1>11, FaultType DEF TypeOK, DeleteObject
    <2>2. objects' \in [Vols -> SUBSET (Snaps \cup {Config})]
      BY <1>11 DEF TypeOK, DeleteObject
    <2> QED BY <1>11, <2>1, <2>2 DEF TypeOK, DeleteObject, kube, node
  <1>12. CASE CleanerDone
    BY <1>12 DEF TypeOK, CleanerDone, Quiet, kube, node
  <1>13. CASE UNCHANGED vars
    BY <1>13 DEF TypeOK, vars, kube, node
  <1> QED
    BY <1>1, <1>2, <1>3, <1>4, <1>5, <1>6, <1>7, <1>8, <1>9, <1>10, <1>11, <1>12, <1>13
    DEF Next, CleanerStep

(***************************************************************************)
(* The owner of a temporary snapshot.                                      *)
(***************************************************************************)

\* A job that keeps its snapshot and stays past lvcreate, or stays before it,
\* changes nothing about who holds what.
LEMMA SameHolders ==
    ASSUME TypeOK, TempInv, NEW j \in jobs, NEW k \in Job,
           k.snap = j.snap, k.pc = "lvcreate" <=> j.pc = "lvcreate",
           jobs' = (jobs \ {j}) \cup {k}, temp' = temp, leftover \subseteq leftover'
    PROVE  TempInv'
  <1>1. HoldersHaveTemp'
    BY DEF TempInv, HoldersHaveTemp, Holds
  <1>2. OneHolder'
    BY DEF TempInv, OneHolder, Holds
  <1>3. TempHasHolder'
    <2> SUFFICES ASSUME NEW s \in temp \ leftover
                 PROVE  \E h \in jobs' : Holds(h, s)
      BY DEF TempHasHolder, Holds
    <2>1. PICK h \in jobs : Holds(h, s)
      BY DEF TempInv, TempHasHolder
    <2> QED BY <2>1 DEF Holds
  <1> QED BY <1>1, <1>2, <1>3 DEF TempInv

\* A job that ends and does not hold anything.
LEMMA NoHolderEnds ==
    ASSUME TypeOK, TempInv, NEW j \in jobs, j.pc = "lvcreate",
           jobs' = jobs \ {j}, temp' = temp, leftover' = leftover
    PROVE  TempInv'
    BY DEF TempInv, HoldersHaveTemp, OneHolder, TempHasHolder, Holds

\* The job that made the temporary snapshot ends: nobody else held it.
LEMMA HolderEnds ==
    ASSUME TypeOK, TempInv, NEW j \in jobs, j.pc # "lvcreate", jobs' = jobs \ {j},
           leftover \subseteq leftover',
           temp' = temp \ {j.snap} \/ (temp' = temp /\ j.snap \in leftover')
    PROVE  TempInv'
  <1>1. HoldersHaveTemp'
    <2> SUFFICES ASSUME NEW k \in jobs \ {j}, NEW s \in Snaps, Holds(k, s)
                 PROVE  s \in temp'
      BY DEF HoldersHaveTemp, Holds
    <2>1. s \in temp
      BY DEF TempInv, HoldersHaveTemp
    <2>2. s # j.snap
      BY DEF TempInv, OneHolder, Holds
    <2> QED BY <2>1, <2>2
  <1>2. OneHolder'
    BY DEF TempInv, OneHolder, Holds
  <1>3. TempHasHolder'
    <2> SUFFICES ASSUME NEW s \in temp' \ leftover'
                 PROVE  \E h \in jobs \ {j} : Holds(h, s)
      BY DEF TempHasHolder, Holds
    <2>1. s \in temp \ leftover /\ s # j.snap
      OBVIOUS
    <2>2. PICK h \in jobs : Holds(h, s)
      BY <2>1 DEF TempInv, TempHasHolder
    <2>3. h # j
      BY <2>1, <2>2 DEF Holds
    <2> QED BY <2>2, <2>3
  <1> QED BY <1>1, <1>2, <1>3 DEF TempInv

\* A job makes the temporary snapshot, of a name that was free.
LEMMA HolderStarts ==
    ASSUME TypeOK, TempInv, NEW j \in jobs, NEW k \in Job, j.snap \notin temp,
           k.snap = j.snap, k.pc # "lvcreate", jobs' = (jobs \ {j}) \cup {k},
           temp' = temp \cup {j.snap}, leftover' = leftover
    PROVE  TempInv'
  <1>1. \A h \in jobs : ~Holds(h, j.snap)
    BY DEF TempInv, HoldersHaveTemp, TypeOK, Job
  <1>2. HoldersHaveTemp'
    BY DEF TempInv, HoldersHaveTemp, Holds
  <1>3. OneHolder'
    BY <1>1 DEF TempInv, OneHolder, Holds
  <1>4. TempHasHolder'
    <2> SUFFICES ASSUME NEW s \in temp' \ leftover
                 PROVE  \E h \in jobs' : Holds(h, s)
      BY DEF TempHasHolder, Holds
    <2>1. CASE s = j.snap
      BY <2>1 DEF Holds
    <2>2. CASE s # j.snap
      <3>1. PICK h \in jobs : Holds(h, s)
        BY <2>2 DEF TempInv, TempHasHolder
      <3> QED BY <2>2, <3>1 DEF Holds
    <2> QED BY <2>1, <2>2
  <1> QED BY <1>2, <1>3, <1>4 DEF TempInv

LEMMA TempJobStep ==
    ASSUME TypeOK, TempInv, NEW j \in jobs, JobStep(j)
    PROVE  TempInv'
  <1>0. j \in Job /\ jobs \subseteq Job
    BY DEF TypeOK
  <1>1. CASE CreateTemp(j)
    <2>1. CASE j.snap \notin temp
      <3>1. /\ temp' = temp \cup {j.snap} /\ leftover' = leftover
            /\ Step(j, "mount", TRUE)
        BY <1>1, <2>1 DEF CreateTemp
      <3>2. PICK k \in Job : /\ k.snap = j.snap /\ k.pc = "mount"
                             /\ jobs' = (jobs \ {j}) \cup {k}
        BY <1>0, <3>1, StepType DEF Pcs
      <3> QED BY <2>1, <3>1, <3>2, HolderStarts
    <2>2. CASE j.snap \in temp
      BY <1>1, <2>2, NoHolderEnds DEF CreateTemp, Finish
    <2> QED BY <2>1, <2>2
  <1>2. CASE Mount(j) \/ GetOrCreateRepository(j) \/ BackupData(j) \/ Umount(j)
    <2>1. PICK pc \in Pcs \ {"lvcreate"}, ok \in BOOLEAN : Step(j, pc, ok)
      BY <1>0, <1>2 DEF Mount, GetOrCreateRepository, BackupData, Umount, Pcs, Job
    <2>2. PICK k \in Job : /\ k.snap = j.snap /\ k.pc = pc
                           /\ jobs' = (jobs \ {j}) \cup {k}
      BY <1>0, <2>1, StepType
    <2>3. /\ j.pc # "lvcreate" /\ temp' = temp /\ leftover \subseteq leftover'
      BY <1>2 DEF Mount, GetOrCreateRepository, BackupData, Umount
    <2> QED BY <2>1, <2>2, <2>3, SameHolders
  <1>3. CASE RemoveTemp(j)
    BY <1>3, HolderEnds DEF RemoveTemp, Finish
  <1> QED BY <1>1, <1>2, <1>3 DEF JobStep

LEMMA TempNext == TypeOK /\ TempInv /\ [Next]_vars => TempInv'
  <1> SUFFICES ASSUME TypeOK, TempInv, [Next]_vars
               PROVE  TempInv'
    OBVIOUS
  <1>1. ASSUME NEW j \in jobs, JobStep(j)
        PROVE  TempInv'
    BY <1>1, TempJobStep
  <1>2. ASSUME NEW j \in jobs, Timeout(j)
        PROVE  TempInv'
    <2> DEFINE k == [j EXCEPT !.waited = FALSE]
    <2>1. k \in Job /\ k.snap = j.snap /\ k.pc = j.pc
      BY DEF TypeOK, Job
    <2>2. jobs' = (jobs \ {j}) \cup {k} /\ temp' = temp /\ leftover' = leftover
      BY <1>2 DEF Timeout
    <2> HIDE DEF k
    <2> QED BY <2>1, <2>2, SameHolders
  <1>3. CASE LvmdRestart
    BY <1>3 DEF LvmdRestart, TempInv, HoldersHaveTemp, OneHolder, TempHasHolder
  <1>4. ASSUME NEW s \in Snaps, CreateSnapshot(s)
        PROVE  TempInv'
    <2> DEFINE k == [snap |-> s, pc |-> "lvcreate", ok |-> TRUE, waited |-> TRUE]
    <2>1. k.pc = "lvcreate"
      OBVIOUS
    <2>2. jobs' = jobs \cup {k} /\ temp' = temp /\ leftover' = leftover
      BY <1>4 DEF CreateSnapshot
    <2> HIDE DEF k
    <2> QED BY <2>1, <2>2 DEF TempInv, HoldersHaveTemp, OneHolder, TempHasHolder, Holds
  <1>5. CASE UNCHANGED node
    BY <1>5 DEF node, TempInv, HoldersHaveTemp, OneHolder, TempHasHolder, Holds
  <1>6. ASSUME NEW s \in Snaps,
               \/ DeleteSnapshot(s) \/ DeleteDataByTag(s) \/ AskSnapshot(s)
               \/ DeleteRequest(s) \/ DeleteContent(s) \/ RetainedGoes(s)
        PROVE  UNCHANGED node
    BY <1>6 DEF DeleteSnapshot, DeleteDataByTag, AskSnapshot, DeleteRequest, DeleteContent,
                RetainedGoes
  <1>7. CASE Observe \/ CleanOrphanSnapshotContents \/ ListContents \/ CleanerStep
    BY <1>5, <1>7 DEF Observe, CleanOrphanSnapshotContents, Annotate, ListContents, CleanerStep,
                      ListObjects, DeleteObject, CleanerDone
  <1>8. CASE UNCHANGED vars
    BY <1>5, <1>8 DEF vars, node
  <1> QED BY <1>1, <1>2, <1>3, <1>4, <1>5, <1>6, <1>7, <1>8 DEF Next

\* For any volumes, snapshots and faults: a temporary snapshot that was not left behind
\* belongs to exactly one backup job in lvmd, whatever jobs of the same snapshot
\* overlap after an expired CreateSnapshot call.
THEOREM TempSnapshotOwned == Spec => []TempOwned
  <1>1. Init => TempInv
    BY DEF Init, TempInv, HoldersHaveTemp, OneHolder, TempHasHolder
  <1>2. TypeOK /\ TempInv => TempOwned
    <2> SUFFICES ASSUME TempInv, NEW s \in temp \ leftover, TypeOK
                 PROVE  Cardinality({j \in jobs : j.snap = s /\ j.pc # "lvcreate"}) = 1
      BY DEF TempOwned
    <2>1. PICK h \in jobs : Holds(h, s)
      BY DEF TempInv, TempHasHolder
    <2>2. {j \in jobs : j.snap = s /\ j.pc # "lvcreate"} = {h}
      BY <2>1 DEF TempInv, OneHolder, Holds, TypeOK
    <2> QED BY <2>2, FS_Singleton
  <1> QED BY <1>1, <1>2, TypeInit, TypeNext, TempNext, PTL DEF Spec

(***************************************************************************)
(* The data of a snapshot.                                                 *)
(***************************************************************************)

\* A step that leaves the bucket and the cleaner alone.
LEMMA StoreSame ==
    ASSUME RestoreInv, UNCHANGED <<objects, cleaner, exposed>>
    PROVE  /\ DataHasConfig' /\ OverlookedIsExposed' /\ DoomedOverlooked'
           /\ \A s \in Snaps : HasData(s)' <=> HasData(s)
    BY DEF RestoreInv, DataHasConfig, OverlookedIsExposed, DoomedOverlooked, HasData, Overlooked,
           RepoExists

\* A step of the bucket or the cleaner that loses no data.
LEMMA DataKept ==
    ASSUME RestoreInv, TypeOK, UNCHANGED <<jobs, content, call>>,
           \A s \in Snaps : HasData(s) => HasData(s)'
    PROVE  JobsAsked' /\ ForgetDeleted' /\ BackedUp' /\ ReadyHasData'
    BY DEF RestoreInv, TypeOK, Job, JobsAsked, ForgetDeleted, BackedUp, ReadyHasData

\* A job moves on, with its data in place once it has made the backup.
LEMMA JobMoves ==
    ASSUME RestoreInv, TypeOK, NEW j \in jobs, NEW k \in Job, k.snap = j.snap,
           jobs' = (jobs \ {j}) \cup {k}, UNCHANGED <<content, call>>,
           \A s \in Snaps : HasData(s) => HasData(s)',
           k.ok /\ k.pc \in {"umount", "lvremove"} =>
               \/ j.ok /\ j.pc \in {"umount", "lvremove"}
               \/ HasData(j.snap)'
    PROVE  JobsAsked' /\ ForgetDeleted' /\ BackedUp' /\ ReadyHasData'
  <1>1. JobsAsked'
    BY DEF RestoreInv, JobsAsked
  <1>2. ForgetDeleted'
    BY DEF RestoreInv, ForgetDeleted
  <1>3. BackedUp'
    <2> SUFFICES ASSUME NEW h \in jobs', h.ok, h.pc \in {"umount", "lvremove"},
                        content[h.snap] \in {"asked", "ready"}
                 PROVE  HasData(h.snap)'
      BY DEF BackedUp
    <2>1. CASE h \in jobs
      BY <2>1 DEF RestoreInv, BackedUp, TypeOK, Job
    <2>2. CASE h = k
      BY <2>2 DEF RestoreInv, BackedUp, TypeOK, Job
    <2> QED BY <2>1, <2>2
  <1>4. ReadyHasData'
    BY DEF RestoreInv, ReadyHasData
  <1> QED BY <1>1, <1>2, <1>3, <1>4

\* A job ends; its snapshot becomes ready only after a backup.
LEMMA JobEnds ==
    ASSUME RestoreInv, TypeOK, NEW j \in jobs, NEW ok \in BOOLEAN, Finish(j, ok),
           ok => j.ok /\ j.pc = "lvremove",
           UNCHANGED <<objects, cleaner, exposed>>
    PROVE  RestoreInv'
  <1>0. j.snap \in Snaps /\ jobs' = jobs \ {j}
    BY DEF TypeOK, Job, Finish
  <1>1. \A s \in Snaps : /\ content'[s] # content[s] => s = j.snap /\ content[s] = "asked"
                                                      /\ content'[s] = "ready" /\ ok
                         /\ call'[s] = "forget" => call[s] = "forget"
    BY <1>0 DEF Finish, TypeOK
  <1>2. JobsAsked'
    BY <1>0, <1>1 DEF RestoreInv, JobsAsked, TypeOK, Job
  <1>3. ForgetDeleted'
    BY <1>1 DEF RestoreInv, ForgetDeleted
  <1>4. BackedUp'
    <2> SUFFICES ASSUME NEW h \in jobs, h.ok, h.pc \in {"umount", "lvremove"},
                        content'[h.snap] \in {"asked", "ready"}
                 PROVE  HasData(h.snap)'
      BY <1>0 DEF BackedUp
    <2>1. h.snap \in Snaps /\ content[h.snap] \in {"asked", "ready"}
      BY <1>1 DEF TypeOK, Job
    <2> QED BY <2>1, StoreSame DEF RestoreInv, BackedUp
  <1>5. ReadyHasData'
    <2> SUFFICES ASSUME NEW s \in Snaps, content'[s] = "ready"
                 PROVE  HasData(s)
      BY StoreSame DEF ReadyHasData
    <2>1. CASE content[s] = "ready"
      BY <2>1 DEF RestoreInv, ReadyHasData
    <2>2. CASE content[s] # "ready"
      <3>1. s = j.snap /\ content[s] = "asked" /\ j.ok /\ j.pc = "lvremove"
        BY <1>1, <2>2
      <3> QED BY <3>1 DEF RestoreInv, BackedUp
    <2> QED BY <2>1, <2>2
  <1> QED BY <1>2, <1>3, <1>4, <1>5, StoreSame DEF RestoreInv

\* A new repository replaces one that lost its configuration to the cleaner.
LEMMA RestoreRepository ==
    ASSUME RestoreInv, TypeOK, NEW j \in jobs, GetOrCreateRepository(j)
    PROVE  RestoreInv'
  <1> DEFINE v == SourceOf[j.snap]
  <1>0. j \in Job /\ jobs \subseteq Job /\ j.snap \in Snaps /\ v \in Vols
    BY SourceAssumption DEF TypeOK, Job
  <1>1. PICK pc \in Pcs, ok \in BOOLEAN :
           Step(j, pc, ok) /\ (pc \in {"umount", "lvremove"} => ~ok)
    BY DEF GetOrCreateRepository, Pcs
  <1>2. PICK k \in Job : /\ k.snap = j.snap /\ k.pc = pc /\ k.ok = ok
                         /\ jobs' = (jobs \ {j}) \cup {k}
    BY <1>0, <1>1, StepType
  <1>3. UNCHANGED <<content, call, cleaner, exposed>>
    BY DEF GetOrCreateRepository, kube
  <1>4. CASE UNCHANGED objects
    BY <1>1, <1>2, <1>3, <1>4, StoreSame, JobMoves DEF RestoreInv
  <1>5. CASE Config \notin objects[v] /\ objects' = [objects EXCEPT ![v] = {Config}]
    <2>1. \A w \in Vols : objects'[w] = IF w = v THEN {Config} ELSE objects[w]
      BY <1>0, <1>5 DEF TypeOK
    <2>2. \A s \in Snaps : SourceOf[s] = v /\ s \in objects[v] => s \in exposed
      BY <1>5 DEF RestoreInv, DataHasConfig, RepoExists
    <2>3. \A s \in Snaps : SourceOf[s] \in Vols /\ s # Config
      BY SourceAssumption, ConfigAssumption
    <2>4. \A s \in Snaps : HasData(s) => HasData(s)'
      BY <1>3, <2>1, <2>2, <2>3 DEF HasData
    <2>5. \A s \in Snaps : s \in objects'[SourceOf[s]] => /\ s \in objects[SourceOf[s]]
                                                          /\ SourceOf[s] # v
      BY <2>1, <2>3
    <2>6. DataHasConfig'
      BY <1>3, <2>1, <2>3, <2>5 DEF RestoreInv, DataHasConfig, RepoExists
    <2>7. OverlookedIsExposed' /\ DoomedOverlooked'
      BY <1>3, <2>5 DEF RestoreInv, OverlookedIsExposed, DoomedOverlooked, Overlooked
    <2> QED BY <1>1, <1>2, <1>3, <2>4, <2>6, <2>7, JobMoves DEF RestoreInv
  <1>6. \/ UNCHANGED objects
        \/ Config \notin objects[v] /\ objects' = [objects EXCEPT ![v] = {Config}]
    BY <1>0 DEF GetOrCreateRepository, TypeOK
  <1> QED BY <1>4, <1>5, <1>6

\* A backup during a scan that did not know the volume is exposed.
LEMMA RestoreBackup ==
    ASSUME RestoreInv, TypeOK, NEW j \in jobs, BackupData(j)
    PROVE  RestoreInv'
  <1> DEFINE v == SourceOf[j.snap]
  <1>0. j \in Job /\ jobs \subseteq Job /\ j.snap \in Snaps /\ v \in Vols
    BY SourceAssumption DEF TypeOK, Job
  <1>1. UNCHANGED <<content, call, cleaner>>
    BY DEF BackupData, kube
  <1>2. CASE Step(j, "umount", FALSE) /\ UNCHANGED <<objects, exposed>>
    <2>1. PICK k \in Job : /\ k.snap = j.snap /\ k.ok = FALSE
                           /\ jobs' = (jobs \ {j}) \cup {k}
      BY <1>0, <1>2, StepType DEF Pcs
    <2> QED BY <1>1, <1>2, <2>1, StoreSame, JobMoves DEF RestoreInv
  <1>3. CASE /\ RepoExists(v) /\ Step(j, "umount", TRUE)
             /\ objects' = [objects EXCEPT ![v] = @ \cup {j.snap}]
             /\ exposed' = IF cleaner.pc # "idle" /\ SnapsOf(v) \cap cleaner.known = {}
                           THEN exposed \cup {j.snap} ELSE exposed
    <2>1. PICK k \in Job : k.snap = j.snap /\ jobs' = (jobs \ {j}) \cup {k}
      BY <1>0, <1>3, StepType DEF Pcs
    <2>2. \A w \in Vols : objects'[w] = IF w = v THEN objects[v] \cup {j.snap} ELSE objects[w]
      BY <1>0, <1>3 DEF TypeOK
    <2>3. \A s \in Snaps : SourceOf[s] \in Vols /\ s # Config
      BY SourceAssumption, ConfigAssumption
    <2>4. \A s \in Snaps : /\ HasData(s) => HasData(s)'
                           /\ s = j.snap => HasData(s)'
      BY <1>3, <2>2, <2>3 DEF HasData
    <2>5. DataHasConfig'
      BY <1>3, <2>2, <2>3 DEF RestoreInv, DataHasConfig, RepoExists
    <2>6. OverlookedIsExposed'
      <3> SUFFICES ASSUME NEW s \in Snaps, cleaner.pc # "idle", Overlooked(SourceOf[s]),
                          s \in objects'[SourceOf[s]]
                   PROVE  s \in exposed'
        BY <1>1 DEF OverlookedIsExposed, Overlooked
      <3>1. CASE s = j.snap
        BY <1>3, <3>1 DEF Overlooked
      <3>2. CASE s # j.snap
        BY <1>3, <2>2, <2>3, <3>2 DEF RestoreInv, OverlookedIsExposed
      <3> QED BY <3>1, <3>2
    <2>7. DoomedOverlooked'
      BY <1>1 DEF RestoreInv, DoomedOverlooked, Overlooked
    <2> QED BY <1>0, <1>1, <2>1, <2>4, <2>5, <2>6, <2>7, JobMoves DEF RestoreInv
  <1> QED BY <1>2, <1>3 DEF BackupData

LEMMA RestoreJobStep ==
    ASSUME RestoreInv, TypeOK, NEW j \in jobs, JobStep(j)
    PROVE  RestoreInv'
  <1>0. j \in Job /\ jobs \subseteq Job /\ j.ok \in BOOLEAN
    BY DEF TypeOK, Job
  <1>1. CASE CreateTemp(j)
    <2>1. UNCHANGED <<objects, cleaner, exposed>>
      BY <1>1 DEF CreateTemp
    <2>2. CASE Finish(j, FALSE)
      BY <2>1, <2>2, JobEnds
    <2>3. CASE Step(j, "mount", TRUE) /\ UNCHANGED <<content, call>>
      <3>1. PICK k \in Job : /\ k.snap = j.snap /\ k.pc = "mount"
                             /\ jobs' = (jobs \ {j}) \cup {k}
        BY <1>0, <2>3, StepType DEF Pcs
      <3> QED BY <2>1, <2>3, <3>1, StoreSame, JobMoves DEF RestoreInv
    <2> QED BY <1>1, <2>2, <2>3 DEF CreateTemp
  <1>2. CASE Mount(j) \/ Umount(j)
    <2>1. PICK pc \in Pcs, ok \in BOOLEAN :
             /\ Step(j, pc, ok)
             /\ ok /\ pc \in {"umount", "lvremove"} => j.ok /\ j.pc = "umount"
      BY <1>0, <1>2 DEF Mount, Umount, Pcs
    <2>2. PICK k \in Job : /\ k.snap = j.snap /\ k.pc = pc /\ k.ok = ok
                           /\ jobs' = (jobs \ {j}) \cup {k}
      BY <1>0, <2>1, StepType
    <2>3. UNCHANGED <<content, call, objects, cleaner, exposed>>
      BY <1>2 DEF Mount, Umount, kube
    <2> QED BY <2>1, <2>2, <2>3, StoreSame, JobMoves DEF RestoreInv
  <1>3. CASE RemoveTemp(j)
    BY <1>0, <1>3, JobEnds DEF RemoveTemp
  <1> QED BY <1>1, <1>2, <1>3, RestoreRepository, RestoreBackup DEF JobStep

\* The cleaner deletes an object: all the data of its volume is exposed.
LEMMA RestoreDeleteObject ==
    ASSUME RestoreInv, TypeOK, NEW o \in Object, DeleteObject(o)
    PROVE  RestoreInv'
  <1>1. /\ UNCHANGED <<jobs, content, call, exposed>>
        /\ cleaner'.pc = "objects" /\ cleaner'.known = cleaner.known
        /\ cleaner'.doomed \subseteq cleaner.doomed
    BY DEF DeleteObject, kube, node, TypeOK
  <1>2. o[1] \in Vols /\ Overlooked(o[1]) /\ cleaner.pc = "objects"
    BY DEF DeleteObject, Object, RestoreInv, DoomedOverlooked
  <1>3. \A s \in Snaps : SourceOf[s] = o[1] /\ s \in objects[o[1]] => s \in exposed
    BY <1>2 DEF RestoreInv, OverlookedIsExposed
  <1>4. \A w \in Vols : objects'[w] \subseteq objects[w] /\ (w # o[1] => objects'[w] = objects[w])
    BY <1>2 DEF DeleteObject, TypeOK
  <1>5. \A s \in Snaps : SourceOf[s] \in Vols
    BY SourceAssumption
  <1>6. \A s \in Snaps : HasData(s) => HasData(s)'
    BY <1>1, <1>3, <1>4, <1>5 DEF HasData
  <1>7. DataHasConfig'
    <2> SUFFICES ASSUME NEW s \in Snaps \ exposed, s \in objects'[SourceOf[s]]
                 PROVE  Config \in objects'[SourceOf[s]]
      BY <1>1 DEF DataHasConfig, RepoExists
    <2>1. s \in objects[SourceOf[s]] /\ SourceOf[s] # o[1]
      BY <1>3, <1>4, <1>5
    <2> QED BY <1>4, <1>5, <2>1 DEF RestoreInv, DataHasConfig, RepoExists
  <1>8. OverlookedIsExposed'
    BY <1>1, <1>2, <1>4, <1>5 DEF RestoreInv, OverlookedIsExposed, Overlooked
  <1>9. DoomedOverlooked'
    BY <1>1, <1>2 DEF RestoreInv, DoomedOverlooked, Overlooked
  <1> QED BY <1>1, <1>6, <1>7, <1>8, <1>9, DataKept DEF RestoreInv

\* A scan starts, reads the bucket and ends; starting it exposes what it overlooks.
LEMMA RestoreScan ==
    ASSUME RestoreInv, TypeOK, ListContents \/ ListObjects \/ CleanerDone
    PROVE  RestoreInv'
  <1>0. UNCHANGED <<jobs, content, call, objects>> /\ exposed \subseteq exposed'
    BY DEF ListContents, ListObjects, CleanerDone, kube, node
  <1>1. JobsAsked' /\ ForgetDeleted' /\ BackedUp' /\ ReadyHasData'
    BY <1>0, DataKept DEF HasData
  <1>2. DataHasConfig'
    BY <1>0 DEF RestoreInv, DataHasConfig, RepoExists
  <1>3. CASE cleaner' = Quiet
    BY <1>1, <1>2, <1>3 DEF Quiet, RestoreInv, OverlookedIsExposed, DoomedOverlooked
  <1>4. CASE ListContents
    <2>1. cleaner'.pc = "contents" /\ cleaner'.known = seen
      BY <1>4 DEF ListContents, Quiet
    <2>2. \A s \in Snaps : s \in SnapsOf(SourceOf[s])
      BY DEF SnapsOf
    <2>3. OverlookedIsExposed'
      BY <1>0, <1>4, <2>1, <2>2 DEF OverlookedIsExposed, Overlooked, ListContents, SnapsOf
    <2> QED BY <1>1, <1>2, <2>1, <2>3 DEF RestoreInv, DoomedOverlooked
  <1>5. CASE ListObjects /\ cleaner' # Quiet
    <2>1. /\ cleaner.pc = "contents" /\ exposed' = exposed
          /\ cleaner'.known = cleaner.known /\ cleaner'.doomed = Unprotected
      BY <1>5 DEF ListObjects, TypeOK
    <2>2. OverlookedIsExposed'
      BY <1>0, <2>1 DEF RestoreInv, OverlookedIsExposed, Overlooked
    <2>3. \A o \in Unprotected : SnapsOf(o[1]) \cap cleaner.known = {}
      BY DEF Unprotected, Protected, SnapsOf
    <2>4. DoomedOverlooked'
      BY <2>1, <2>3 DEF DoomedOverlooked, Overlooked, SnapsOf
    <2> QED BY <1>1, <1>2, <2>2, <2>4 DEF RestoreInv
  <1> QED BY <1>3, <1>4, <1>5 DEF CleanerDone

\* Data is deleted by tag only when its content is deleted.
LEMMA RestoreForget ==
    ASSUME RestoreInv, TypeOK, NEW s \in Snaps, DeleteDataByTag(s)
    PROVE  RestoreInv'
  <1>0. /\ UNCHANGED <<jobs, cleaner, exposed>> /\ call[s] = "forget"
        /\ content[s] = "deleted" /\ SourceOf[s] \in Vols
    BY SourceAssumption DEF DeleteDataByTag, node, RestoreInv, ForgetDeleted
  <1>1. /\ content'[s] \in {"deleted", "gone"} /\ call'[s] # "forget"
        /\ \A t \in Snaps \ {s} : content'[t] = content[t] /\ call'[t] = call[t]
    BY <1>0 DEF DeleteDataByTag, TypeOK
  <1>2. \A v \in Vols : objects'[v] \subseteq objects[v] /\ objects[v] \subseteq objects'[v] \cup {s}
    BY <1>0 DEF DeleteDataByTag, TypeOK
  <1>3. \A t \in Snaps : SourceOf[t] \in Vols /\ t # Config
    BY SourceAssumption, ConfigAssumption
  <1>4. \A t \in Snaps \ {s} : HasData(t) => HasData(t)'
    BY <1>0, <1>2, <1>3 DEF HasData
  <1>5. \A j \in jobs : j.snap \in Snaps
    BY DEF TypeOK, Job
  <1>6. JobsAsked'
    BY <1>0, <1>1, <1>5 DEF RestoreInv, JobsAsked
  <1>7. ForgetDeleted'
    BY <1>1 DEF RestoreInv, ForgetDeleted
  <1>8. DataHasConfig'
    BY <1>0, <1>2, <1>3 DEF RestoreInv, DataHasConfig, RepoExists
  <1>9. OverlookedIsExposed' /\ DoomedOverlooked'
    BY <1>0, <1>2, <1>3 DEF RestoreInv, OverlookedIsExposed, DoomedOverlooked, Overlooked
  <1>10. BackedUp'
    BY <1>0, <1>1, <1>4, <1>5 DEF RestoreInv, BackedUp
  <1>11. ReadyHasData'
    BY <1>1, <1>4 DEF RestoreInv, ReadyHasData
  <1> QED BY <1>6, <1>7, <1>8, <1>9, <1>10, <1>11 DEF RestoreInv

\* A content that appears, is deleted or goes: no job knows a new one, and none
\* becomes ready.
LEMMA RestoreContent ==
    ASSUME RestoreInv, TypeOK, NEW s \in Snaps,
           \/ DeleteSnapshot(s) \/ AskSnapshot(s) \/ DeleteRequest(s)
           \/ DeleteContent(s) \/ RetainedGoes(s)
    PROVE  RestoreInv'
  <1>1. UNCHANGED <<jobs, objects, cleaner, exposed>>
    BY DEF DeleteSnapshot, AskSnapshot, DeleteRequest, DeleteContent, RetainedGoes, node
  <1>2. \A t \in Snaps :
           /\ content'[t] = "none" => content[t] = "none"
           /\ content'[t] = "ready" => content[t] = "ready"
           /\ content'[t] = "asked" => content[t] \in {"none", "asked"}
    BY DEF DeleteSnapshot, AskSnapshot, DeleteRequest, DeleteContent, RetainedGoes, TypeOK
  <1>3. \A j \in jobs : j.snap \in Snaps
    BY DEF TypeOK, Job
  <1>4. JobsAsked'
    BY <1>1, <1>2, <1>3 DEF RestoreInv, JobsAsked
  <1>5. ForgetDeleted'
    BY DEF RestoreInv, ForgetDeleted, DeleteSnapshot, AskSnapshot, DeleteRequest, DeleteContent,
           RetainedGoes, TypeOK
  <1>6. BackedUp'
    BY <1>1, <1>2, <1>3, StoreSame DEF RestoreInv, BackedUp, JobsAsked
  <1>7. ReadyHasData'
    BY <1>1, <1>2, StoreSame DEF RestoreInv, ReadyHasData
  <1> QED BY <1>1, <1>4, <1>5, <1>6, <1>7, StoreSame DEF RestoreInv

\* A call starts or expires, or lvmd restarts: jobs appear before their backup,
\* or no job does more than it did.
LEMMA RestoreCalls ==
    ASSUME RestoreInv, TypeOK,
           \/ \E s \in Snaps : CreateSnapshot(s)
           \/ \E j \in jobs : Timeout(j)
           \/ LvmdRestart
    PROVE  RestoreInv'
  <1>1. UNCHANGED <<content, objects, cleaner, exposed>>
    BY DEF CreateSnapshot, Timeout, LvmdRestart, kube
  <1>2. \A s \in Snaps : call'[s] = "forget" => call[s] = "forget"
    <2>1. ASSUME NEW t \in Snaps, CreateSnapshot(t)
          PROVE  \A s \in Snaps : call'[s] = "forget" => call[s] = "forget"
      BY <2>1 DEF CreateSnapshot, TypeOK
    <2>2. ASSUME NEW j \in jobs, Timeout(j)
          PROVE  \A s \in Snaps : call'[s] = "forget" => call[s] = "forget"
      BY <2>2 DEF Timeout, TypeOK, Job
    <2>3. CASE LvmdRestart
      BY <2>3 DEF LvmdRestart, TypeOK
    <2> QED BY <2>1, <2>2, <2>3
  <1>3. \A h \in jobs' : /\ content[h.snap] # "none" /\ h.snap \in Snaps
                         /\ \/ h.pc = "lvcreate"
                            \/ \E j \in jobs : h.snap = j.snap /\ h.pc = j.pc /\ h.ok = j.ok
    <2>0. \A j \in jobs : j.snap \in Snaps /\ content[j.snap] # "none"
      BY DEF RestoreInv, JobsAsked, TypeOK, Job
    <2>1. ASSUME NEW t \in Snaps, CreateSnapshot(t), NEW h \in jobs'
          PROVE  /\ content[h.snap] # "none" /\ h.snap \in Snaps
                 /\ h.pc = "lvcreate" \/ h \in jobs
      BY <2>0, <2>1 DEF CreateSnapshot
    <2>2. ASSUME NEW j \in jobs, Timeout(j), NEW h \in jobs'
          PROVE  h \in jobs \/ (h.snap = j.snap /\ h.pc = j.pc /\ h.ok = j.ok)
      BY <2>2 DEF Timeout, TypeOK, Job
    <2>3. CASE LvmdRestart
      BY <2>3 DEF LvmdRestart
    <2> QED BY <2>0, <2>1, <2>2, <2>3
  <1>4. JobsAsked'
    BY <1>1, <1>3 DEF JobsAsked
  <1>5. ForgetDeleted'
    BY <1>1, <1>2 DEF RestoreInv, ForgetDeleted
  <1>6. BackedUp'
    <2> SUFFICES ASSUME NEW h \in jobs', h.ok, h.pc \in {"umount", "lvremove"},
                        content[h.snap] \in {"asked", "ready"}
                 PROVE  HasData(h.snap)
      BY <1>1, <1>3, StoreSame DEF BackedUp
    <2>1. PICK j \in jobs : h.snap = j.snap /\ h.pc = j.pc /\ h.ok = j.ok
      BY <1>3
    <2> QED BY <2>1 DEF RestoreInv, BackedUp
  <1>7. ReadyHasData'
    BY <1>1, StoreSame DEF RestoreInv, ReadyHasData
  <1> QED BY <1>1, <1>4, <1>5, <1>6, <1>7, StoreSame DEF RestoreInv

LEMMA RestoreNext == TypeOK /\ RestoreInv /\ [Next]_vars => RestoreInv'
  <1> SUFFICES ASSUME TypeOK, RestoreInv, [Next]_vars
               PROVE  RestoreInv'
    OBVIOUS
  <1>1. ASSUME NEW j \in jobs, JobStep(j)
        PROVE  RestoreInv'
    BY <1>1, RestoreJobStep
  <1>2. CASE \/ \E s \in Snaps : CreateSnapshot(s)
             \/ \E j \in jobs : Timeout(j)
             \/ LvmdRestart
    BY <1>2, RestoreCalls
  <1>3. ASSUME NEW s \in Snaps,
               \/ DeleteSnapshot(s) \/ AskSnapshot(s) \/ DeleteRequest(s)
               \/ DeleteContent(s) \/ RetainedGoes(s)
        PROVE  RestoreInv'
    BY <1>3, RestoreContent
  <1>4. ASSUME NEW s \in Snaps, DeleteDataByTag(s)
        PROVE  RestoreInv'
    BY <1>4, RestoreForget
  <1>5. CASE ListContents \/ CleanerStep
    BY <1>5, RestoreScan, RestoreDeleteObject DEF CleanerStep
  <1>6. CASE UNCHANGED <<jobs, content, call, objects, cleaner, exposed>>
    BY <1>6, StoreSame, DataKept DEF RestoreInv
  <1>7. CASE Observe \/ CleanOrphanSnapshotContents \/ UNCHANGED vars
    BY <1>6, <1>7 DEF Observe, CleanOrphanSnapshotContents, Annotate, vars, kube, node
  <1> QED BY <1>1, <1>2, <1>3, <1>4, <1>5, <1>7 DEF Next

\* For any volumes, snapshots, policies and faults: the data of a ready snapshot that no
\* scan of CleanUnusedResticRepo overlooked can be restored, whatever else is deleted,
\* backed up or restarted.
THEOREM KnownStaysRestorable == Spec => []KnownIsRestorable
  <1>1. Init => RestoreInv
    <2> SUFFICES ASSUME Init
                 PROVE  RestoreInv
      OBVIOUS
    <2>1. JobsAsked /\ ForgetDeleted /\ BackedUp /\ ReadyHasData
      BY DEF Init, JobsAsked, ForgetDeleted, BackedUp, ReadyHasData
    <2>2. \A s \in Snaps : objects[SourceOf[s]] = {}
      BY SourceAssumption DEF Init
    <2>3. DataHasConfig
      BY <2>2 DEF DataHasConfig
    <2>4. OverlookedIsExposed /\ DoomedOverlooked
      BY DEF Init, Quiet, OverlookedIsExposed, DoomedOverlooked
    <2> QED BY <2>1, <2>3, <2>4 DEF RestoreInv
  <1>2. RestoreInv => KnownIsRestorable
    BY DEF RestoreInv, KnownIsRestorable, ReadyHasData, DataHasConfig, HasData, Restorable
  <1> QED BY <1>1, <1>2, TypeInit, TypeNext, RestoreNext, PTL DEF Spec
=============================================================================
