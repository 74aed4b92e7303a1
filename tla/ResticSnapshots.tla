-------------------------- MODULE ResticSnapshots ---------------------------
(***************************************************************************)
(* Read-write snapshots.  The CSI controller service has lvmd back up a    *)
(* temporary LVM snapshot of the volume to the restic repository of the    *)
(* volume in S3 (pkg/csi/server, pkg/restic), with the name of the         *)
(* snapshot as tag.  The data is deleted by DeleteSnapshot, by tag, or by  *)
(* the controller, which removes the repositories of volumes that no       *)
(* VolumeSnapshotContent names (pkg/controller/clean_s3_snapshot.go) and   *)
(* annotates the contents whose VolumeSnapshot is gone                     *)
(* (cleanOrphanSnapshotContents).                                          *)
(***************************************************************************)
EXTENDS Naturals, FiniteSets

CONSTANTS
    Vols, Snaps,
    SourceOf,   \* the volume of a snapshot
    Policies,   \* the assignments of a deletionPolicy to the snapshots
    Config,     \* the object that makes a prefix of the bucket a repository
    MaxFaults   \* bound on failed commands, expired calls and restarts

ASSUME SourceAssumption == SourceOf \in [Snaps -> Vols]
ASSUME PolicyAssumption == Policies \subseteq [Snaps -> {"Delete", "Retain"}]
ASSUME ConfigAssumption == Config \notin Snaps
ASSUME FaultAssumption == MaxFaults \in Nat

VARIABLES
    policy,     \* the deletionPolicy of each snapshot's class
    request,    \* snapshots whose VolumeSnapshot exists
    content,    \* the VolumeSnapshotContents
    annotated,  \* contents with the being-deleted annotation
    seen,       \* contents in the lister of the controller
    call,       \* what the CSI service is doing for a snapshot
    jobs,       \* backups running in lvmd
    temp,       \* temporary snapshots that exist on the node
    objects,    \* the objects of each repository: Config and data by tag
    cleaner,    \* CleanUnusedResticRepo, under its mutex
    leftover,   \* temporary snapshots whose removal failed or never ran
    exposed,    \* snapshots a running or past scan did not know of
    faults

kube == <<policy, request, content, annotated, seen>>
node == <<jobs, temp, leftover>>
vars == <<kube, call, node, objects, cleaner, exposed, faults>>

Pcs == {"lvcreate", "mount", "repo", "backup", "umount", "lvremove"}
Job == [snap : Snaps, pc : Pcs, ok : BOOLEAN, waited : BOOLEAN]
Quiet == [pc |-> "idle", known |-> {}, doomed |-> {}]
Object == Vols \X (Snaps \cup {Config})

\* Every variable keeps its type.
TypeOK ==
    /\ policy \in [Snaps -> {"Delete", "Retain"}]
    /\ request \subseteq Snaps
    /\ content \in [Snaps -> {"none", "asked", "ready", "deleted", "gone"}]
    /\ annotated \subseteq Snaps
    /\ seen \subseteq Snaps
    /\ call \in [Snaps -> {"idle", "create", "forget"}]
    /\ jobs \subseteq Job
    /\ temp \subseteq Snaps
    /\ objects \in [Vols -> SUBSET (Snaps \cup {Config})]
    /\ cleaner \in [pc : {"idle", "contents", "objects"}, known : SUBSET Snaps,
                    doomed : SUBSET Object]
    /\ leftover \subseteq Snaps
    /\ exposed \subseteq Snaps
    /\ faults \in 0..MaxFaults

Init ==
    /\ policy \in Policies
    /\ request = {}
    /\ content = [s \in Snaps |-> "none"]
    /\ annotated = {}
    /\ seen = {}
    /\ call = [s \in Snaps |-> "idle"]
    /\ jobs = {}
    /\ temp = {}
    /\ objects = [v \in Vols |-> {}]
    /\ cleaner = Quiet
    /\ leftover = {}
    /\ exposed = {}
    /\ faults = 0

Exists(s) == content[s] \in {"asked", "ready", "deleted"}
SnapsOf(v) == {s \in Snaps : SourceOf[s] = v}
RepoExists(v) == Config \in objects[v]
\* The data of a snapshot can be restored.
Restorable(s) == RepoExists(SourceOf[s]) /\ s \in objects[SourceOf[s]]

Fault == faults < MaxFaults /\ faults' = faults + 1

(***************************************************************************)
(* The CSI service and the backup job in lvmd.                             *)
(***************************************************************************)

\* CreateSnapshot sends the request to lvmd and waits for it.
CreateSnapshot(s) ==
    /\ content[s] = "asked" /\ call[s] = "idle"
    /\ call' = [call EXCEPT ![s] = "create"]
    /\ jobs' = jobs \cup {[snap |-> s, pc |-> "lvcreate", ok |-> TRUE, waited |-> TRUE]}
    /\ UNCHANGED <<kube, temp, leftover, objects, cleaner, exposed, faults>>

\* The job goes on to pc, and to its deferred commands after an error.
Step(j, pc, ok) == jobs' = (jobs \ {j}) \cup {[j EXCEPT !.pc = pc, !.ok = ok]}

\* Mutant of Finish: the deferred inFlight.Delete of the service is missing.
FinishInFlight(j, ok) ==
    /\ jobs' = jobs \ {j}
    /\ content' = IF j.waited /\ ok /\ content[j.snap] = "asked"
                  THEN [content EXCEPT ![j.snap] = "ready"] ELSE content
    /\ UNCHANGED call

\* The job ends; a service that still waits gets the answer.
Finish(j, ok) ==
    /\ jobs' = jobs \ {j}
    /\ call' = IF j.waited THEN [call EXCEPT ![j.snap] = "idle"] ELSE call
    /\ content' = IF j.waited /\ ok /\ content[j.snap] = "asked"
                  THEN [content EXCEPT ![j.snap] = "ready"] ELSE content

\* lvcreate refuses a name in use: an earlier job of the snapshot is still running,
\* or left its temporary snapshot behind.  Nothing is deferred yet.
CreateTemp(j) ==
    /\ j.pc = "lvcreate"
    /\ \/ /\ j.snap \notin temp
          /\ temp' = temp \cup {j.snap}
          /\ Step(j, "mount", TRUE)
          /\ UNCHANGED <<content, call>>
       \/ j.snap \in temp /\ Finish(j, FALSE) /\ UNCHANGED temp
    /\ UNCHANGED <<policy, request, annotated, seen, leftover, objects, cleaner, exposed, faults>>

Mount(j) ==
    /\ j.pc = "mount"
    /\ \/ Step(j, "repo", TRUE) /\ UNCHANGED faults
       \/ Step(j, "lvremove", FALSE) /\ Fault
    /\ UNCHANGED <<kube, call, temp, leftover, objects, cleaner, exposed>>

\* GetOrCreateRepository: a new repository cannot read what an old one left.
GetOrCreateRepository(j) ==
    /\ j.pc = "repo"
    /\ \/ /\ objects' = [objects EXCEPT ![SourceOf[j.snap]] = IF Config \in @ THEN @ ELSE {Config}]
          /\ Step(j, "backup", TRUE)
          /\ UNCHANGED faults
       \/ Step(j, "umount", FALSE) /\ Fault /\ UNCHANGED objects
    /\ UNCHANGED <<kube, call, temp, leftover, cleaner, exposed>>

\* BackupData fails when the repository is gone again.
BackupData(j) ==
    /\ j.pc = "backup"
    /\ LET v == SourceOf[j.snap] IN
        \/ /\ RepoExists(v)
           /\ objects' = [objects EXCEPT ![v] = @ \cup {j.snap}]
           /\ exposed' = IF cleaner.pc # "idle" /\ SnapsOf(v) \cap cleaner.known = {}
                         THEN exposed \cup {j.snap} ELSE exposed
           /\ Step(j, "umount", TRUE)
           /\ UNCHANGED faults
        \/ /\ \/ ~RepoExists(v) /\ UNCHANGED faults
              \/ RepoExists(v) /\ Fault
           /\ Step(j, "umount", FALSE)
           /\ UNCHANGED <<objects, exposed>>
    /\ UNCHANGED <<kube, call, temp, leftover, cleaner>>

\* The deferred umount: a failure is logged, and then lvremove fails as well.
Umount(j) ==
    /\ j.pc = "umount"
    /\ Step(j, "lvremove", j.ok)
    /\ \/ UNCHANGED <<leftover, faults>>
       \/ leftover' = leftover \cup {j.snap} /\ Fault
    /\ UNCHANGED <<kube, call, temp, objects, cleaner, exposed>>

\* Mutant of RemoveTemp: the temporary snapshot is removed only after a success.
RemoveTempOnSuccess(j) ==
    /\ j.pc = "lvremove"
    /\ temp' = IF j.ok THEN temp \ {j.snap} ELSE temp
    /\ Finish(j, j.ok)
    /\ UNCHANGED <<policy, request, annotated, seen, leftover, objects, cleaner, exposed, faults>>

\* The deferred lvremove: a failure is logged and changes nothing in the answer.
RemoveTemp(j) ==
    /\ j.pc = "lvremove"
    /\ \/ /\ temp' = IF j.snap \in leftover THEN temp ELSE temp \ {j.snap}
          /\ UNCHANGED <<leftover, faults>>
       \/ leftover' = leftover \cup {j.snap} /\ Fault /\ UNCHANGED temp
    /\ Finish(j, j.ok)
    /\ UNCHANGED <<policy, request, annotated, seen, objects, cleaner, exposed>>

\* The context of the call expires; the job carries on.
Timeout(j) ==
    /\ j.waited
    /\ Fault
    /\ jobs' = (jobs \ {j}) \cup {[j EXCEPT !.waited = FALSE]}
    /\ call' = [call EXCEPT ![j.snap] = "idle"]
    /\ UNCHANGED <<kube, temp, leftover, objects, cleaner, exposed>>

\* lvmd restarts: nothing that was deferred runs.
LvmdRestart ==
    /\ jobs # {}
    /\ Fault
    /\ jobs' = {}
    /\ leftover' = leftover \cup temp
    /\ call' = [s \in Snaps |-> IF call[s] = "create" THEN "idle" ELSE call[s]]
    /\ UNCHANGED <<kube, temp, objects, cleaner, exposed>>

\* DeleteSnapshot: data of a repository that does not exist counts as deleted.
DeleteSnapshot(s) ==
    /\ content[s] = "deleted" /\ s \in annotated /\ policy[s] = "Delete"
    /\ call[s] = "idle"
    /\ IF RepoExists(SourceOf[s])
       THEN call' = [call EXCEPT ![s] = "forget"] /\ UNCHANGED content
       ELSE content' = [content EXCEPT ![s] = "gone"] /\ UNCHANGED call
    /\ UNCHANGED <<policy, request, annotated, seen, node, objects, cleaner, exposed, faults>>

\* DeleteDataByTag forgets the tag and prunes; either command may fail.
DeleteDataByTag(s) ==
    /\ call[s] = "forget"
    /\ call' = [call EXCEPT ![s] = "idle"]
    /\ \/ /\ RepoExists(SourceOf[s])
          /\ objects' = [objects EXCEPT ![SourceOf[s]] = @ \ {s}]
          /\ \/ content' = [content EXCEPT ![s] = "gone"] /\ UNCHANGED faults
             \/ Fault /\ UNCHANGED content
       \/ /\ \/ ~RepoExists(SourceOf[s]) /\ UNCHANGED faults
             \/ Fault
          /\ UNCHANGED <<objects, content>>
    /\ UNCHANGED <<policy, request, annotated, seen, node, cleaner, exposed>>

(***************************************************************************)
(* The controller.                                                         *)
(***************************************************************************)

\* The lister follows the contents.
Observe ==
    /\ seen # {s \in Snaps : Exists(s)}
    /\ seen' = {s \in Snaps : Exists(s)}
    /\ UNCHANGED <<policy, request, content, annotated, call, node, objects, cleaner, exposed, faults>>

Annotate(S) ==
    /\ annotated' = annotated \cup S
    /\ UNCHANGED <<policy, request, content, seen, call, node, objects, cleaner, exposed, faults>>

\* Mutant of IsOrphan: a content whose VolumeSnapshot exists is taken for an orphan.
IsOrphanReversed(s) == s \in seen /\ content[s] = "deleted" /\ s \in request

\* isOrphanSnapshotContent: being deleted, and its VolumeSnapshot is not found.
IsOrphan(s) == s \in seen /\ content[s] = "deleted" /\ s \notin request

\* A round of cleanOrphanSnapshotContents.
CleanOrphanSnapshotContents ==
    \E s \in Snaps \ annotated : IsOrphan(s) /\ Annotate({s})

\* CleanUnusedResticRepo starts, from its timer or the deletion of a content.
ListContents ==
    /\ cleaner.pc = "idle"
    /\ cleaner' = [Quiet EXCEPT !.pc = "contents", !.known = seen]
    /\ exposed' = exposed \cup {s \in Snaps \ seen : s \in objects[SourceOf[s]]}
    /\ UNCHANGED <<kube, call, node, objects, faults>>

\* Mutant of Protected: only the contents that are ready protect their volume.
ProtectedReady == {SourceOf[s] : s \in {t \in cleaner.known : content[t] = "ready"}}

\* The volumes the listed contents name.
Protected == {SourceOf[s] : s \in cleaner.known}

\* Mutant of Unprotected: only prefixes that are repositories are looked at.
UnprotectedRepos ==
    {o \in Object : o[1] \notin Protected /\ o[2] \in objects[o[1]] /\ RepoExists(o[1])}

\* The objects of the bucket under the name of a volume that no content names.
Unprotected == {o \in Object : o[1] \notin Protected /\ o[2] \in objects[o[1]]}

ListObjects ==
    /\ cleaner.pc = "contents"
    /\ \/ cleaner' = [cleaner EXCEPT !.pc = "objects", !.doomed = Unprotected] /\ UNCHANGED faults
       \/ cleaner' = Quiet /\ Fault
    /\ UNCHANGED <<kube, call, node, objects, exposed>>

\* The objects are deleted one by one; a failure is logged and skipped.
DeleteObject(o) ==
    /\ cleaner.pc = "objects" /\ o \in cleaner.doomed
    /\ cleaner' = [cleaner EXCEPT !.doomed = @ \ {o}]
    /\ \/ objects' = [objects EXCEPT ![o[1]] = @ \ {o[2]}] /\ UNCHANGED faults
       \/ Fault /\ UNCHANGED objects
    /\ UNCHANGED <<kube, call, node, exposed>>

CleanerDone ==
    /\ cleaner.pc = "objects" /\ cleaner.doomed = {}
    /\ cleaner' = Quiet
    /\ UNCHANGED <<kube, call, node, objects, exposed, faults>>

(***************************************************************************)
(* Kubernetes and its snapshot controller.                                 *)
(***************************************************************************)
AskSnapshot(s) ==
    /\ content[s] = "none"
    /\ request' = request \cup {s}
    /\ content' = [content EXCEPT ![s] = "asked"]
    /\ UNCHANGED <<policy, annotated, seen, call, node, objects, cleaner, exposed, faults>>

\* The VolumeSnapshot is deleted; its content with it unless the policy is Retain.
DeleteRequest(s) ==
    /\ s \in request
    /\ request' = request \ {s}
    /\ IF policy[s] = "Delete" /\ content[s] \in {"asked", "ready"}
       THEN /\ content' = [content EXCEPT ![s] = "deleted"]
            /\ annotated' = annotated \cup {s}
       ELSE UNCHANGED <<content, annotated>>
    /\ UNCHANGED <<policy, seen, call, node, objects, cleaner, exposed, faults>>

\* A content is deleted on its own.
DeleteContent(s) ==
    /\ content[s] \in {"asked", "ready"}
    /\ content' = [content EXCEPT ![s] = "deleted"]
    /\ UNCHANGED <<policy, request, annotated, seen, call, node, objects, cleaner, exposed, faults>>

\* The sidecar lets a content with the policy Retain go without DeleteSnapshot.
RetainedGoes(s) ==
    /\ content[s] = "deleted" /\ s \in annotated /\ policy[s] = "Retain"
    /\ call[s] = "idle"
    /\ content' = [content EXCEPT ![s] = "gone"]
    /\ UNCHANGED <<policy, request, annotated, seen, call, node, objects, cleaner, exposed, faults>>

JobStep(j) ==
    \/ CreateTemp(j) \/ Mount(j) \/ GetOrCreateRepository(j)
    \/ BackupData(j) \/ Umount(j) \/ RemoveTemp(j)

CleanerStep ==
    \/ ListObjects
    \/ \E o \in Object : DeleteObject(o)
    \/ CleanerDone

Next ==
    \/ \E s \in Snaps : \/ CreateSnapshot(s) \/ DeleteSnapshot(s) \/ DeleteDataByTag(s)
                        \/ AskSnapshot(s) \/ DeleteRequest(s) \/ DeleteContent(s)
                        \/ RetainedGoes(s)
    \/ \E j \in jobs : JobStep(j) \/ Timeout(j)
    \/ LvmdRestart
    \/ Observe
    \/ CleanOrphanSnapshotContents
    \/ ListContents
    \/ CleanerStep

Spec == Init /\ [][Next]_vars

\* The sidecar repeats its calls, the jobs of lvmd run to their end, the controller
\* scans every day and every minute, and its lister follows.
Fairness ==
    /\ \A s \in Snaps : /\ WF_vars(CreateSnapshot(s))
                        /\ WF_vars(DeleteSnapshot(s) \/ DeleteDataByTag(s) \/ RetainedGoes(s))
    /\ \A s \in Snaps, w \in BOOLEAN :
          WF_vars(\E j \in jobs : j.snap = s /\ j.waited = w /\ JobStep(j))
    /\ WF_vars(Observe)
    /\ WF_vars(CleanOrphanSnapshotContents)
    /\ WF_vars(ListContents)
    /\ WF_vars(CleanerStep)

FairSpec == Spec /\ Fairness

(***************************************************************************)
(* Properties.                                                             *)
(***************************************************************************)

\* The data of a ready snapshot can be restored: neither the deletion of another
\* snapshot nor the cleaner takes it ("only when the content is deleted is the data
\* deleted from S3", docs/user-guide/snapshot.md).
ReadyIsRestorable == \A s \in Snaps : content[s] = "ready" => Restorable(s)

\* The same for the snapshots that no scan of the cleaner overlooked.
KnownIsRestorable ==
    \A s \in Snaps \ exposed : content[s] = "ready" => Restorable(s)

\* A temporary snapshot belongs to one running job, unless its removal failed: jobs
\* of one snapshot that overlap after a timeout never share or remove it.
TempOwned ==
    \A s \in temp \ leftover :
        Cardinality({j \in jobs : j.snap = s /\ j.pc # "lvcreate"}) = 1

\* A snapshot that is asked for becomes ready, unless it is given up or a temporary
\* snapshot of its name was left behind (the todo in CreateSnapshot).
AskedIsReady ==
    \A s \in Snaps : content[s] = "asked" ~>
        (content[s] \in {"ready", "deleted", "gone"} \/ s \in leftover)

\* A content that is deleted goes away once its VolumeSnapshot is gone.
DeletedGoes ==
    \A s \in Snaps : (content[s] = "deleted" /\ s \notin request) ~> (content[s] = "gone")

\* When no content names a volume any more its repository is removed, late backups
\* and partly deleted repositories included.
UnusedIsCleaned ==
    \A v \in Vols :
        <>[](\A s \in SnapsOf(v) : ~Exists(s)) => <>[](objects[v] = {})

(***************************************************************************)
(* What makes TempOwned inductive: the job that made the temporary         *)
(* snapshot is the only one past lvcreate, until it removes it.            *)
(***************************************************************************)
Holds(j, s) == j.snap = s /\ j.pc # "lvcreate"

HoldersHaveTemp == \A j \in jobs, s \in Snaps : Holds(j, s) => s \in temp
OneHolder == \A j, k \in jobs, s \in Snaps : Holds(j, s) /\ Holds(k, s) => j = k
TempHasHolder == \A s \in temp \ leftover : \E j \in jobs : Holds(j, s)

TempInv == HoldersHaveTemp /\ OneHolder /\ TempHasHolder

(***************************************************************************)
(* What makes KnownIsRestorable inductive.  Data leaves a repository in    *)
(* three ways: by its tag, which is asked for when the content is deleted; *)
(* by the cleaner, which only takes volumes of which it knew no snapshot,  *)
(* so that all their data is exposed; and by a new repository, which is    *)
(* made when the configuration of the old one was taken by the cleaner.    *)
(***************************************************************************)
HasData(s) == s \in objects[SourceOf[s]] \/ s \in exposed
Overlooked(v) == SnapsOf(v) \cap cleaner.known = {}

JobsAsked == \A j \in jobs : content[j.snap] # "none"
ForgetDeleted == \A s \in Snaps : call[s] = "forget" => content[s] = "deleted"
DataHasConfig ==
    \A s \in Snaps \ exposed : s \in objects[SourceOf[s]] => RepoExists(SourceOf[s])
OverlookedIsExposed ==
    cleaner.pc # "idle" =>
        \A s \in Snaps : Overlooked(SourceOf[s]) /\ s \in objects[SourceOf[s]] => s \in exposed
DoomedOverlooked == cleaner.pc = "objects" => \A o \in cleaner.doomed : Overlooked(o[1])
BackedUp ==
    \A j \in jobs : j.ok /\ j.pc \in {"umount", "lvremove"}
                     /\ content[j.snap] \in {"asked", "ready"} => HasData(j.snap)
ReadyHasData == \A s \in Snaps : content[s] = "ready" => HasData(s)

RestoreInv ==
    /\ JobsAsked /\ ForgetDeleted /\ DataHasConfig
    /\ OverlookedIsExposed /\ DoomedOverlooked /\ BackedUp /\ ReadyHasData
=============================================================================
