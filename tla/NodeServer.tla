----------------------------- MODULE NodeServer -----------------------------
(***************************************************************************)
(* The CSI node server of one node without SPDK (pkg/csi/nodeserver.go,    *)
(* nodeutils.go, inflight.go, volume_store.go): NodePublishVolume and      *)
(* NodeUnpublishVolume with the table of volumes in flight and the JSON    *)
(* store of ephemeral volumes, called by kubelet, which gives up waiting   *)
(* and retries, and interrupted by crashes of the server.                  *)
(*                                                                         *)
(* Logical volumes, mounts and the store's file survive a crash; handlers, *)
(* the in-flight table and the store's map do not.  Each volume is used by *)
(* one pod at a time; its kind decides the path of a publish:              *)
(*    "inline"   ephemeral LVM volume       "snapshot"  restored with restic*)
(*    "direct"   ephemeral, handed to kata  "lvm"       LVM volume of a PV  *)
(*    "device"   device or mount point                                     *)
(***************************************************************************)
EXTENDS Naturals

CONSTANTS
    Volumes,
    Handlers,   \* goroutines that serve requests
    Kinds,      \* the kinds a volume may be of
    MaxFaults,  \* bound on failed commands, timeouts and crashes
    NoHandler

AllKinds == {"inline", "direct", "snapshot", "lvm", "device"}

ASSUME KindAssumption == Kinds \in [Volumes -> SUBSET AllKinds]

ASSUME HandlerAssumption == NoHandler \notin Handlers

ASSUME FaultAssumption == MaxFaults \in Nat

VARIABLES
    kind,                  \* the volume context of a volume
    pod, view, call,       \* kubelet: its pod, what it believes, the call it waits for
    op, vol, step,         \* the handlers
    inFlight, memory, up,  \* the server's memory
    saving,                \* the handler that holds the store's write lock
    file, readable,        \* the store's file; FALSE while it is truncated
    lvs, mounts, labels, restored,  \* logical volumes, mounts, restore labels, data
    faults

kubelet == <<pod, view, call>>
handler == <<op, vol, step>>
store   == <<memory, file, readable, saving>>
disk    == <<lvs, mounts, labels, restored>>
vars    == <<kind, kubelet, handler, inFlight, up, store, disk, faults>>

Steps == {"idle", "createLV", "mount", "restore", "restoring", "addVolume", "saving",
          "throttle", "format", "cleanup", "remove", "deleteVolume", "ok", "err"}

\* The one type invariant.
TypeOK ==
    /\ kind \in [Volumes -> AllKinds]
    /\ pod \in [Volumes -> {"alive", "gone"}]
    /\ view \in [Volumes -> {"fresh", "uncertain", "mounted", "released"}]
    /\ call \in [Volumes -> Handlers \cup {NoHandler}]
    /\ op \in [Handlers -> {"publish", "unpublish"}]
    /\ vol \in [Handlers -> Volumes]
    /\ step \in [Handlers -> Steps]
    /\ inFlight \subseteq Volumes /\ memory \subseteq Volumes /\ file \subseteq Volumes
    /\ up \in BOOLEAN /\ readable \in BOOLEAN
    /\ saving \in Handlers \cup {NoHandler}
    /\ lvs \subseteq Volumes /\ mounts \subseteq Volumes
    /\ labels \subseteq Volumes /\ restored \subseteq Volumes
    /\ faults \in 0..MaxFaults

Ephemeral(v) == kind[v] \in {"inline", "direct"}

HasLV(v) == kind[v] # "device"

\* The LV of a PV exists already when CreateVolume made it (extender).
Init ==
    /\ kind \in [Volumes -> AllKinds] /\ \A v \in Volumes : kind[v] \in Kinds[v]
    /\ pod = [v \in Volumes |-> "alive"]
    /\ view = [v \in Volumes |-> "fresh"]
    /\ call = [v \in Volumes |-> NoHandler]
    /\ op = [h \in Handlers |-> "publish"]
    /\ vol \in [Handlers -> Volumes] /\ \A g, h \in Handlers : vol[g] = vol[h]
    /\ step = [h \in Handlers |-> "idle"]
    /\ inFlight = {} /\ memory = {} /\ file = {}
    /\ up = TRUE /\ readable = TRUE
    /\ saving = NoHandler
    /\ lvs \in SUBSET {v \in Volumes : ~Ephemeral(v) /\ HasLV(v)}
    /\ mounts = {} /\ labels = {} /\ restored = {}
    /\ faults = 0

Fault == faults < MaxFaults /\ faults' = faults + 1

----------------------------------------------------------------------------
(* Kubelet *)

\* A request reaches the server and its volume is entered in the table.
Enter(v, h, what, first) ==
    /\ up /\ call[v] = NoHandler /\ step[h] = "idle"
    /\ v \notin inFlight
    /\ inFlight' = inFlight \cup {v}
    /\ op' = [op EXCEPT ![h] = what]
    /\ vol' = [vol EXCEPT ![h] = v]
    /\ step' = [step EXCEPT ![h] = first]
    /\ call' = [call EXCEPT ![v] = h]
    /\ view' = [view EXCEPT ![v] = "uncertain"]
    /\ UNCHANGED <<kind, pod, up, store, disk, faults>>

Wanted(v) == pod[v] = "alive" /\ view[v] \in {"fresh", "uncertain"}
Unused(v) == pod[v] = "gone" /\ view[v] \in {"uncertain", "mounted"}

Publish(v, h) ==
    /\ Wanted(v)
    /\ Enter(v, h, "publish", IF HasLV(v) THEN "createLV" ELSE "mount")

Unpublish(v, h) == Unused(v) /\ Enter(v, h, "unpublish", "cleanup")

\* Mutant: the deferred Delete is registered before the check.
AbortedReleases(v) ==
    /\ up /\ call[v] = NoHandler /\ v \in inFlight
    /\ Wanted(v) \/ Unused(v)
    /\ inFlight' = inFlight \ {v}
    /\ UNCHANGED <<kind, kubelet, handler, up, store, disk, faults>>

\* A second request for a volume in flight is answered with Aborted.
Aborted(v) ==
    /\ up /\ call[v] = NoHandler /\ v \in inFlight
    /\ Wanted(v) \/ Unused(v)
    /\ UNCHANGED vars

\* Kubelet stops waiting; the handler goes on.
Timeout(v) ==
    /\ call[v] # NoHandler /\ Fault
    /\ call' = [call EXCEPT ![v] = NoHandler]
    /\ UNCHANGED <<kind, pod, view, handler, inFlight, up, store, disk>>

PodGone(v) ==
    /\ pod[v] = "alive"
    /\ pod' = [pod EXCEPT ![v] = "gone"]
    /\ UNCHANGED <<kind, view, call, handler, inFlight, up, store, disk, faults>>

\* A volume of a PV is used again by another pod.
PodAgain(v) ==
    /\ pod[v] = "gone" /\ view[v] \in {"fresh", "released"} /\ ~Ephemeral(v)
    /\ pod' = [pod EXCEPT ![v] = "alive"]
    /\ view' = [view EXCEPT ![v] = "fresh"]
    /\ UNCHANGED <<kind, call, handler, inFlight, up, store, disk, faults>>

----------------------------------------------------------------------------
(* NodePublishVolume *)

At(h, s) == up /\ step[h] = s

GoTo(h, s) == step' = [step EXCEPT ![h] = s]

\* A command of handler h fails and the request with it.  A direct volume that
\* exists has nothing to fail at createLV; the failure of an inline volume at
\* addVolume is the one of the double check after its mount.
Fails(h) ==
    /\ up /\ Fault
    /\ \/ step[h] = "createLV" /\ ~(kind[vol[h]] = "direct" /\ vol[h] \in lvs)
       \/ step[h] = "addVolume" /\ kind[vol[h]] = "inline"
       \/ step[h] \in {"mount", "restore", "restoring", "throttle", "cleanup", "remove"}
    /\ GoTo(h, "err")
    /\ UNCHANGED <<kind, kubelet, op, vol, inFlight, up, store, disk>>

\* createLV: the volume is created unless its device path exists.
CreateLV(h) ==
    /\ At(h, "createLV")
    /\ lvs' = lvs \cup {vol[h]}
    /\ GoTo(h, IF kind[vol[h]] = "direct" THEN "addVolume" ELSE "mount")
    /\ UNCHANGED <<kind, kubelet, op, vol, inFlight, up, store, mounts, labels, restored, faults>>

\* Mutant: only a fresh mount is recorded.
AfterMountOnce(v) ==
    CASE kind[v] = "snapshot" /\ v \notin mounts -> "restore"
      [] kind[v] = "inline" /\ v \notin mounts -> "addVolume"
      [] kind[v] = "device" -> "ok"
      [] OTHER -> "throttle"

\* What follows the mount of a volume: a fresh mount of a snapshot is
\* restored, an ephemeral volume is recorded.
AfterMount(v) ==
    CASE kind[v] = "snapshot" /\ v \notin mounts -> "restore"
      [] kind[v] = "inline" -> "addVolume"
      [] kind[v] = "device" -> "ok"
      [] OTHER -> "throttle"

\* mountLvmFS, mountLvmBlock, mountDeviceVolume..., mountMountPointVolume.
Mount(h) ==
    /\ At(h, "mount")
    /\ mounts' = mounts \cup {vol[h]}
    /\ GoTo(h, AfterMount(vol[h]))
    /\ UNCHANGED <<kind, kubelet, op, vol, inFlight, up, store, lvs, labels, restored, faults>>

\* The label is written before the data is there.
LabelRestored(h) ==
    /\ At(h, "restore")
    /\ labels' = labels \cup {vol[h]}
    /\ GoTo(h, IF vol[h] \in labels THEN "throttle" ELSE "restoring")
    /\ UNCHANGED <<kind, kubelet, op, vol, inFlight, up, store, lvs, mounts, restored, faults>>

RestoreData(h) ==
    /\ At(h, "restoring")
    /\ restored' = restored \cup {vol[h]}
    /\ GoTo(h, "throttle")
    /\ UNCHANGED <<kind, kubelet, op, vol, inFlight, up, store, lvs, mounts, labels, faults>>

\* setIOThrottling.
Throttle(h) ==
    /\ At(h, "throttle")
    /\ GoTo(h, "ok")
    /\ UNCHANGED <<kind, kubelet, op, vol, inFlight, up, store, disk, faults>>

\* publishDirectVolume: kata is told and the device formatted.
Format(h) ==
    /\ At(h, "format")
    /\ GoTo(h, "ok")
    /\ UNCHANGED <<kind, kubelet, op, vol, inFlight, up, store, disk, faults>>

\* Its deferred clean-up removes the LV, not the store's entry.
FormatFails(h) ==
    /\ At(h, "format") /\ saving = NoHandler /\ Fault
    /\ lvs' = IF vol[h] \in memory THEN lvs \ {vol[h]} ELSE lvs
    /\ GoTo(h, "err")
    /\ UNCHANGED <<kind, kubelet, op, vol, inFlight, up, store, mounts, labels, restored>>

----------------------------------------------------------------------------
(* The store: AddVolume and DeleteVolume save the whole map *)

AfterSave(h) ==
    IF op[h] = "unpublish" THEN "ok"
    ELSE IF kind[vol[h]] = "direct" THEN "format" ELSE "throttle"

\* The map changes and os.Create truncates the file; both under the lock.
Update(h, s, entries) ==
    /\ At(h, s) /\ saving = NoHandler
    /\ memory' = entries
    /\ readable' = FALSE /\ saving' = h
    /\ GoTo(h, "saving")
    /\ UNCHANGED <<kind, kubelet, op, vol, inFlight, up, file, disk, faults>>

AddVolume(h) == Update(h, "addVolume", memory \cup {vol[h]})

DeleteVolume(h) == Update(h, "deleteVolume", memory \ {vol[h]})

\* os.Create fails: the map has changed, the file has not, the error is logged.
CreateFails(h, s, entries) ==
    /\ At(h, s) /\ saving = NoHandler /\ Fault
    /\ memory' = entries
    /\ GoTo(h, AfterSave(h))
    /\ UNCHANGED <<kind, kubelet, op, vol, inFlight, up, saving, file, readable, disk>>

Saved(h) ==
    /\ At(h, "saving")
    /\ file' = memory /\ readable' = TRUE /\ saving' = NoHandler
    /\ GoTo(h, AfterSave(h))
    /\ UNCHANGED <<kind, kubelet, op, vol, inFlight, up, memory, disk, faults>>

\* Encode fails: the file stays cut off, the error is logged.
EncodeFails(h) ==
    /\ At(h, "saving") /\ Fault
    /\ saving' = NoHandler
    /\ GoTo(h, AfterSave(h))
    /\ UNCHANGED <<kind, kubelet, op, vol, inFlight, up, memory, file, readable, disk>>

----------------------------------------------------------------------------
(* NodeUnpublishVolume *)

\* CleanupMountPoint, then the lookup in the store.
Cleanup(h) ==
    /\ At(h, "cleanup")
    /\ mounts' = mounts \ {vol[h]}
    /\ GoTo(h, "remove")
    /\ UNCHANGED <<kind, kubelet, op, vol, inFlight, up, store, lvs, labels, restored, faults>>

\* Mutant: the LV of a volume without an entry is removed too.
RemoveAll(h) ==
    /\ At(h, "remove") /\ saving = NoHandler
    /\ lvs' = lvs \ {vol[h]}
    /\ GoTo(h, IF vol[h] \notin memory THEN "ok"
               ELSE IF vol[h] \in lvs THEN "deleteVolume" ELSE "err")
    /\ UNCHANGED <<kind, kubelet, op, vol, inFlight, up, store, mounts, labels, restored, faults>>

\* lvremove of a recorded volume; it fails when there is no such LV.
Remove(h) ==
    LET v == vol[h]
    IN  /\ At(h, "remove") /\ saving = NoHandler
        /\ lvs' = IF v \in memory THEN lvs \ {v} ELSE lvs
        /\ GoTo(h, IF v \notin memory THEN "ok" ELSE IF v \in lvs THEN "deleteVolume" ELSE "err")
        /\ UNCHANGED <<kind, kubelet, op, vol, inFlight, up, store, mounts, labels, restored, faults>>

----------------------------------------------------------------------------
(* Answers, crashes *)

Answered(h) ==
    LET v == vol[h]
    IN  /\ call' = IF call[v] = h THEN [call EXCEPT ![v] = NoHandler] ELSE call
        /\ view' = IF call[v] = h /\ step[h] = "ok"
                   THEN [view EXCEPT ![v] = IF op[h] = "publish" THEN "mounted" ELSE "released"]
                   ELSE view

\* Mutant: the volume of a failed request stays in the table.
ReplyKeeps(h) ==
    /\ up /\ step[h] \in {"ok", "err"}
    /\ inFlight' = IF step[h] = "ok" THEN inFlight \ {vol[h]} ELSE inFlight
    /\ GoTo(h, "idle")
    /\ Answered(h)
    /\ UNCHANGED <<kind, pod, op, vol, up, store, disk, faults>>

\* The handler returns; kubelet learns the result unless it has given up.
Reply(h) ==
    /\ up /\ step[h] \in {"ok", "err"}
    /\ inFlight' = inFlight \ {vol[h]}
    /\ GoTo(h, "idle")
    /\ Answered(h)
    /\ UNCHANGED <<kind, pod, op, vol, up, store, disk, faults>>

Crash ==
    /\ up /\ Fault
    /\ up' = FALSE
    /\ step' = [h \in Handlers |-> "idle"]
    /\ call' = [v \in Volumes |-> NoHandler]
    /\ inFlight' = {} /\ memory' = {} /\ saving' = NoHandler
    /\ UNCHANGED <<kind, pod, view, op, vol, file, readable, disk>>

\* NewVolumeStore reads the file; with a file cut off newNodeServer exits.
Restart ==
    /\ ~up /\ readable
    /\ up' = TRUE
    /\ memory' = file
    /\ UNCHANGED <<kind, kubelet, handler, inFlight, file, readable, saving, disk, faults>>

----------------------------------------------------------------------------
(* Specifications *)

Kubelet(v) == \E h \in Handlers : Publish(v, h) \/ Unpublish(v, h)

\* What a handler does next when nothing fails.
Works(h) ==
    \/ CreateLV(h) \/ Mount(h) \/ LabelRestored(h) \/ RestoreData(h)
    \/ AddVolume(h) \/ DeleteVolume(h) \/ Saved(h)
    \/ Throttle(h) \/ Format(h) \/ Cleanup(h) \/ Remove(h) \/ Reply(h)

SaveFails(h) ==
    \/ CreateFails(h, "addVolume", memory \cup {vol[h]})
    \/ CreateFails(h, "deleteVolume", memory \ {vol[h]})
    \/ EncodeFails(h)

Next ==
    \/ \E v \in Volumes : Kubelet(v) \/ Aborted(v) \/ Timeout(v) \/ PodGone(v) \/ PodAgain(v)
    \/ \E h \in Handlers : Works(h) \/ Fails(h) \/ FormatFails(h) \/ SaveFails(h)
    \/ Crash \/ Restart

Spec == Init /\ [][Next]_vars

(***************************************************************************)
(* The environment in which the store and the logical volumes do not come  *)
(* apart for good: the store's file can be written; once the pod of an     *)
(* ephemeral volume is gone, nothing fails between the steps that create   *)
(* or remove the LV and the one that saves the entry; and the pod does not *)
(* go after a failed attempt that has not been repeated.                   *)
(***************************************************************************)
AtRisk(h) ==
    /\ Ephemeral(vol[h]) /\ pod[vol[h]] = "gone"
    /\ step[h] \in {"createLV", "mount", "addVolume", "saving", "format", "deleteVolume"}

Publishing(v) ==
    \E h \in Handlers : vol[h] = v /\ op[h] = "publish" /\ step[h] \notin {"idle", "err"}

CleanPodGone(v) ==
    /\ Ephemeral(v) => view[v] \in {"fresh", "mounted"} \/ Publishing(v)
    /\ PodGone(v)

CleanFails(h) == ~AtRisk(h) /\ (Fails(h) \/ FormatFails(h))

CleanCrash == readable /\ (\A h \in Handlers : ~AtRisk(h)) /\ Crash

CleanNext ==
    \/ \E v \in Volumes : Kubelet(v) \/ Aborted(v) \/ Timeout(v) \/ CleanPodGone(v) \/ PodAgain(v)
    \/ \E h \in Handlers : Works(h) \/ CleanFails(h)
    \/ CleanCrash \/ Restart

CleanSpec == Init /\ [][CleanNext]_vars

\* Kubelet repeats a call that did not succeed, a handler goes on, and the
\* DaemonSet restarts the server.
FairCleanSpec ==
    /\ CleanSpec
    /\ \A v \in Volumes : WF_vars(Kubelet(v))
    /\ \A h \in Handlers : WF_vars(Works(h))
    /\ WF_vars(Restart)

----------------------------------------------------------------------------
(* Properties *)

\* What NodePublishVolume has promised a pod stays true while the pod is there:
\* its logical volume exists and, unless kata attaches the device, is mounted.
\* The in-flight table is what keeps late handlers from undoing it.
PublishedReady ==
    \A v \in Volumes : view[v] = "mounted" =>
        /\ HasLV(v) => v \in lvs
        /\ kind[v] # "direct" => v \in mounts

\* The node server removes the logical volume of an ephemeral volume that is
\* neither mounted nor in use, and never the one of a PV.
RemovesOnlyUnused ==
    [][\A v \in lvs \ lvs' : Ephemeral(v) /\ v \notin mounts /\ view[v] # "mounted"]_vars

\* An ephemeral volume is deleted with its pod: once kubelet has unpublished it
\* its logical volume is gone.
NoOrphan == \A v \in Volumes : Ephemeral(v) /\ view[v] = "released" => v \notin lvs

\* A volume made from a snapshot holds its data when the pod gets it.
RestoredBeforeUse ==
    \A v \in Volumes : kind[v] = "snapshot" /\ view[v] = "mounted" => v \in restored

\* A pod that stays gets its volumes and one that goes releases them, across
\* timeouts, failed commands and crashes.
Settles ==
    \A v \in Volumes :
        /\ pod[v] = "alive" ~> view[v] = "mounted" \/ pod[v] = "gone"
        /\ pod[v] = "gone" ~> view[v] \in {"fresh", "released"}

(***************************************************************************)
(* What makes PublishedReady and RemovesOnlyUnused inductive.              *)
(***************************************************************************)
Active(h) == step[h] # "idle"

\* The in-flight table: one handler per volume, and kubelet is unsure of it.
OneHandlerPerVolume ==
    /\ \A h \in Handlers : Active(h) => up /\ vol[h] \in inFlight /\ view[vol[h]] = "uncertain"
    /\ \A g, h \in Handlers : Active(g) /\ Active(h) /\ vol[g] = vol[h] => g = h
    /\ \A v \in Volumes : call[v] # NoHandler => Active(call[v]) /\ vol[call[v]] = v

\* Steps of a publish that come after createLV, and those after the mount.
Created(h) ==
    /\ op[h] = "publish"
    /\ step[h] \in {"mount", "restore", "restoring", "addVolume", "saving", "throttle", "format", "ok"}

Mounted(h) == Created(h) /\ step[h] # "mount"

HandlerKnows ==
    \A h \in Handlers :
        /\ Created(h) /\ HasLV(vol[h]) => vol[h] \in lvs
        /\ Mounted(h) /\ kind[vol[h]] # "direct" => vol[h] \in mounts
        /\ step[h] \in {"remove", "deleteVolume"} => op[h] = "unpublish" /\ vol[h] \notin mounts
        /\ step[h] = "cleanup" => op[h] = "unpublish"
        /\ step[h] \in {"createLV", "mount", "restore", "restoring", "addVolume", "throttle", "format"}
              => op[h] = "publish"
        /\ step[h] \in {"addVolume", "format"} => Ephemeral(vol[h])
        /\ step[h] = "format" => kind[vol[h]] = "direct"
        /\ kind[vol[h]] = "direct" => step[h] # "mount"

\* The store only ever names ephemeral volumes, and direct ones are not mounted.
StoreEphemeral ==
    /\ \A v \in memory \cup file : Ephemeral(v)
    /\ \A v \in mounts : kind[v] # "direct"

NodeInv == TypeOK /\ OneHandlerPerVolume /\ HandlerKnows /\ StoreEphemeral /\ PublishedReady

(***************************************************************************)
(* What makes NoOrphan inductive in the clean environment: the file is the *)
(* map whenever a crash can happen, and the LV of an ephemeral volume      *)
(* whose pod is gone is in the store, or about to be.                      *)
(***************************************************************************)
Entries == IF up THEN memory ELSE file

FileCurrent == (~up => readable) /\ (up /\ readable => file = memory)

HandlersRecord ==
    \A h \in Handlers : Ephemeral(vol[h]) =>
        /\ step[h] \notin {"restore", "restoring"}
        /\ op[h] = "publish" /\ step[h] \in {"saving", "throttle", "format", "ok"} => vol[h] \in memory
        /\ op[h] = "unpublish" /\ Active(h) => pod[vol[h]] = "gone"
        /\ op[h] = "unpublish" /\ step[h] \in {"deleteVolume", "saving", "ok"} => vol[h] \notin lvs

Recording(v) ==
    \E h \in Handlers : vol[h] = v /\ op[h] = "publish" /\ step[h] \in {"createLV", "mount", "addVolume"}

LVsRecorded ==
    \A v \in Volumes : Ephemeral(v) =>
        /\ view[v] = "fresh" => v \notin lvs
        /\ view[v] = "mounted" => v \in Entries
        /\ pod[v] = "gone" /\ v \in lvs => v \in Entries \/ Recording(v)

CleanInv == FileCurrent /\ HandlersRecord /\ LVsRecorded /\ NoOrphan
=============================================================================
