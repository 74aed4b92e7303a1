-------------------------- MODULE VolumeLifecycle ---------------------------
(***************************************************************************)
(* The CSI controller service (pkg/csi/controllerserver.go) and the lvmd   *)
(* server of a node that it drives over gRPC (pkg/csi/client, pkg/csi/     *)
(* server): volumes are created, expanded and deleted, read-only snapshots *)
(* taken and dropped, by calls that the sidecars of Kubernetes repeat      *)
(* until they succeed.  The service gives up on a call whose context       *)
(* expires; the handler in lvmd does not, and runs its commands to the end.*)
(*                                                                         *)
(* A volume is "lvm" (the extender schedules it, the service creates its   *)
(* logical volume), "framework" (the scheduler plugin chose the VG, the    *)
(* node creates the logical volume), "restored" (an extender volume whose  *)
(* source is a read-only snapshot: it has no logical volume of its own) or *)
(* "device" (a device or mount point; lv is then the data on it).          *)
(***************************************************************************)
EXTENDS Naturals, FiniteSets

CONSTANTS
    Vols, Snaps,
    SourceOf,   \* the volume a snapshot is taken of
    From,       \* the snapshot a "restored" volume is made from
    Kinds,      \* the assignments of kinds to volumes
    MaxCalls,   \* bound on the calls the service handles at a time
    MaxSize,    \* bound on the size of a volume
    MaxFaults,  \* bound on failed commands, expired calls and restarts
    Misreads    \* TRUE: a failed read of a VolumeSnapshot is one of the faults

Names == Vols \cup Snaps
AllKinds == {"lvm", "framework", "restored", "device"}

ASSUME NameAssumption == Vols \cap Snaps = {}
ASSUME SourceAssumption == SourceOf \in [Snaps -> Vols] /\ From \in [Vols -> Snaps]
ASSUME KindsAssumption == Kinds \subseteq [Vols -> AllKinds]
ASSUME BoundAssumption == /\ MaxSize \in Nat \ {0}
                          /\ MaxCalls \in Nat /\ MaxFaults \in Nat
                          /\ Misreads \in BOOLEAN

VARIABLES
    kind,       \* the kind of each volume
    claim,      \* volumes whose claim exists
    want,       \* the size each claim asks for
    pv, attr,   \* the PersistentVolumes, and what is recorded in them
    capacity,   \* the size each PersistentVolume states
    content,    \* the VolumeSnapshotContents
    inFlight,   \* names the service works on
    call,       \* the calls in progress
    late,       \* lvmd handlers whose call was given up
    lv,         \* sizes of the logical volumes of the node, 0 when absent
    abandoned,  \* names whose creation was asked of lvmd by a call that failed
    faults

kube == <<kind, claim, want, pv, attr, capacity, content>>
vars == <<kube, inFlight, call, late, lv, abandoned, faults>>

Ops == {"create", "delete", "snapshot", "dropSnapshot", "expand"}
\* The commands a handler of lvmd runs, in order, per operation.
LvmdPcs == {"lvcreate", "lvs", "origin", "lvremove", "clean", "lvcreate-s", "lvs-s",
            "lvremove-s", "lvextend"}
ServicePcs == {"get", "source"}
Busy == [op : Ops, name : Names, pc : ServicePcs \cup LvmdPcs, size : 0..MaxSize, ro : BOOLEAN]
Handler == [op : Ops, name : Names, pc : LvmdPcs, size : 0..MaxSize]
Attributes == [vg : BOOLEAN, ro : BOOLEAN]

\* Every variable keeps its type; in particular no handler makes a volume larger
\* than any claim asked for.
TypeOK ==
    /\ kind \in [Vols -> AllKinds]
    /\ claim \subseteq Vols
    /\ want \in [Vols -> 1..MaxSize]
    /\ pv \in [Vols -> {"none", "live", "released", "gone"}]
    /\ attr \in [Vols -> Attributes]
    /\ capacity \in [Vols -> 0..MaxSize]
    /\ content \in [Snaps -> {"none", "asked", "ready", "unwanted", "gone"}]
    /\ inFlight \subseteq Names
    /\ call \subseteq Busy
    /\ late \subseteq Handler
    /\ lv \in [Names -> 0..MaxSize]
    /\ abandoned \subseteq Names
    /\ faults \in 0..MaxFaults

Init ==
    /\ kind \in Kinds
    /\ claim = Vols
    /\ want = [v \in Vols |-> 1]
    /\ pv = [v \in Vols |-> "none"]
    /\ attr = [v \in Vols |-> [vg |-> FALSE, ro |-> FALSE]]
    /\ capacity = [v \in Vols |-> 0]
    /\ content = [s \in Snaps |-> "none"]
    /\ inFlight = {}
    /\ call = {}
    /\ late = {}
    /\ lv = [n \in Names |-> 0]
    /\ abandoned = {}
    /\ faults = 0

HasPV(v) == pv[v] \in {"live", "released"}
SnapsOn(v) == {s \in Snaps : SourceOf[s] = v}

\* A fault may be taken while the bound allows it.
Fault == faults < MaxFaults /\ faults' = faults + 1

(***************************************************************************)
(* The service's side of a call.                                           *)
(***************************************************************************)

\* inFlight.Insert: refused while the same name is worked on.
Insert(n) == n \notin inFlight

Begin(op, n, pc, size, ro) ==
    /\ Cardinality(call) < MaxCalls
    /\ call' = call \cup {[op |-> op, name |-> n, pc |-> pc, size |-> size, ro |-> ro]}

Enter(op, n, pc, size, ro) ==
    /\ Insert(n)
    /\ inFlight' = inFlight \cup {n}
    /\ Begin(op, n, pc, size, ro)

\* Mutant of Leave: the deferred inFlight.Delete is missing.
LeaveInFlight(c) ==
    /\ call' = call \ {c}
    /\ UNCHANGED inFlight

\* The deferred inFlight.Delete and the answer; an expansion is not in the table.
Leave(c) ==
    /\ inFlight' = IF c.op = "expand" THEN inFlight ELSE inFlight \ {c.name}
    /\ call' = call \ {c}

At(c, op, pc) == c.op = op /\ c.pc = pc

Goto(c, pc) ==
    /\ call' = (call \ {c}) \cup {[c EXCEPT !.pc = pc]}
    /\ UNCHANGED inFlight

\* The call may have asked lvmd for a logical volume.
Asked(c) == c.pc \in {"lvcreate", "source", "lvcreate-s"}

\* The call fails, and may leave behind the logical volume it asked for.
Fail(c) ==
    /\ Leave(c)
    /\ abandoned' = IF Asked(c) THEN abandoned \cup {c.name} ELSE abandoned

\* IsReadOnlySnapshotPVC2: an error of the API server reads as "not read-only".
IsReadOnlySnapshotPVC2(v, r) ==
    \/ r = (kind[v] = "restored") /\ UNCHANGED faults
    \/ Misreads /\ kind[v] = "restored" /\ ~r /\ Fault

\* The scheduler that placed the pod of the claim (pvcPodSchedulerMap); without
\* one the architecture is unknown and CreateVolume fails before it does anything.
ArchExtender(v) == kind[v] \in {"lvm", "restored", "device"}

\* CreateVolume up to the first request to lvmd.
CreateVolume(v) ==
    /\ v \in claim /\ pv[v] = "none"
    /\ kind[v] = "restored" => content[From[v]] = "ready"
    /\ \E ro \in BOOLEAN :
        /\ IsReadOnlySnapshotPVC2(v, ro)
        /\ Enter("create", v,
                 IF ArchExtender(v) /\ kind[v] # "device" /\ ~ro THEN "get" ELSE "source",
                 want[v], ro)
    /\ UNCHANGED <<kube, late, lv, abandoned>>

\* Mutant of GetLV: the test of the name that GetVolume returned is inverted.
GetLVInverted(c) ==
    /\ At(c, "create", "get")
    /\ Goto(c, IF lv[c.name] > 0 THEN "lvcreate" ELSE "source")
    /\ UNCHANGED <<kube, late, lv, abandoned, faults>>

\* The VG is scheduled and lvmd is asked for the logical volume.
GetLV(c) ==
    /\ At(c, "create", "get")
    /\ Goto(c, IF lv[c.name] > 0 THEN "source" ELSE "lvcreate")
    /\ UNCHANGED <<kube, late, lv, abandoned, faults>>

\* The content source, and the answer: the provisioner records a PersistentVolume.
Provisioned(c) ==
    /\ At(c, "create", "source")
    /\ LET v == c.name IN
        \E ro \in BOOLEAN :
            /\ IsReadOnlySnapshotPVC2(v, ro)
            /\ kind[v] = "restored" =>
                /\ content[From[v]] \in {"asked", "ready", "unwanted"}
                /\ ro => HasPV(SourceOf[From[v]])
            /\ pv' = [pv EXCEPT ![v] = IF v \in claim THEN "live" ELSE "released"]
            /\ attr' = [attr EXCEPT ![v] =
                 [vg |-> ro \/ kind[v] = "lvm" \/ (kind[v] = "restored" /\ ~c.ro),
                  ro |-> ro]]
            /\ capacity' = [capacity EXCEPT ![v] = c.size]
    /\ Leave(c)
    /\ UNCHANGED <<kind, claim, want, content, late, lv, abandoned>>

\* CreateVolume finds no content, or no PersistentVolume of the source, and fails.
SourceMissing(c) ==
    /\ At(c, "create", "source")
    /\ LET v == c.name IN
        /\ kind[v] = "restored"
        /\ \/ content[From[v]] \in {"none", "gone"}
           \/ ~HasPV(SourceOf[From[v]])
    /\ Fail(c)
    /\ UNCHANGED <<kube, late, lv, faults>>

\* DeleteVolume answers without lvmd for a read-only snapshot and for a
\* PersistentVolume that names no VG.
NothingToDelete(v) == kind[v] # "device" /\ (attr[v].ro \/ ~attr[v].vg)

DeleteVolume(v) ==
    /\ pv[v] = "released"
    /\ \/ /\ NothingToDelete(v)
          /\ Insert(v)
          /\ pv' = [pv EXCEPT ![v] = "gone"]
          /\ UNCHANGED <<attr, inFlight, call>>
       \/ /\ ~NothingToDelete(v)
          /\ Enter("delete", v, IF kind[v] = "device" THEN "clean" ELSE "get", 0, FALSE)
          /\ UNCHANGED <<pv, attr>>
    /\ UNCHANGED <<kind, claim, want, capacity, content, late, lv, abandoned, faults>>

\* The sidecar removes the PersistentVolume once DeleteVolume succeeded.
Deleted(c) ==
    /\ pv' = [pv EXCEPT ![c.name] = "gone"]
    /\ Leave(c)
    /\ UNCHANGED <<content, capacity>>

\* Mutant of GetLVToDelete: the answer of GetVolume is not used, DeleteVolume succeeds.
GetLVToDeleteSkips(c) ==
    /\ At(c, "delete", "get")
    /\ Deleted(c)
    /\ UNCHANGED <<kind, claim, want, attr, late, lv, abandoned, faults>>

GetLVToDelete(c) ==
    /\ At(c, "delete", "get")
    /\ \/ /\ lv[c.name] > 0
          /\ Goto(c, "lvs")
          /\ UNCHANGED <<pv, content, capacity>>
       \/ lv[c.name] = 0 /\ Deleted(c)
    /\ UNCHANGED <<kind, claim, want, attr, late, lv, abandoned, faults>>

\* CreateSnapshot of a read-only snapshot: the source must name its VG and node.
CreateSnapshot(s) ==
    /\ content[s] = "asked"
    /\ HasPV(SourceOf[s]) /\ attr[SourceOf[s]].vg
    /\ Enter("snapshot", s, "get", 1, FALSE)
    /\ UNCHANGED <<kube, late, lv, abandoned, faults>>

Ready(c) ==
    /\ content' = [content EXCEPT ![c.name] = IF @ = "asked" THEN "ready" ELSE @]
    /\ Leave(c)
    /\ UNCHANGED <<pv, capacity>>

GetSnapshotLV(c) ==
    /\ At(c, "snapshot", "get")
    /\ \/ /\ lv[c.name] = 0
          /\ Goto(c, "lvcreate-s")
          /\ UNCHANGED <<pv, content, capacity>>
       \/ lv[c.name] > 0 /\ Ready(c)
    /\ UNCHANGED <<kind, claim, want, attr, late, lv, abandoned, faults>>

\* DeleteSnapshot needs the PersistentVolume of the source to find the node.
DeleteSnapshot(s) ==
    /\ content[s] = "unwanted"
    /\ HasPV(SourceOf[s]) /\ attr[SourceOf[s]].vg
    /\ Enter("dropSnapshot", s, "get", 0, FALSE)
    /\ UNCHANGED <<kube, late, lv, abandoned, faults>>

Dropped(c) ==
    /\ content' = [content EXCEPT ![c.name] = "gone"]
    /\ Leave(c)
    /\ UNCHANGED <<pv, capacity>>

\* Mutant of GetSnapshotToDrop: the snapshot is reported gone without lvmd.
GetSnapshotToDropSkips(c) ==
    /\ At(c, "dropSnapshot", "get")
    /\ Dropped(c)
    /\ UNCHANGED <<kind, claim, want, attr, late, lv, abandoned, faults>>

GetSnapshotToDrop(c) ==
    /\ At(c, "dropSnapshot", "get")
    /\ \/ /\ lv[c.name] > 0
          /\ Goto(c, "lvs-s")
          /\ UNCHANGED <<pv, content, capacity>>
       \/ lv[c.name] = 0 /\ Dropped(c)
    /\ UNCHANGED <<kind, claim, want, attr, late, lv, abandoned, faults>>

\* ControllerExpandVolume does not enter the in-flight table; the resizer makes
\* one call per volume at a time.
ControllerExpandVolume(v) ==
    /\ pv[v] = "live" /\ attr[v].vg
    /\ want[v] > capacity[v]
    /\ \A c \in call : c.op = "expand" => c.name # v
    /\ Begin("expand", v, "lvextend", want[v], FALSE)
    /\ UNCHANGED <<kube, inFlight, late, lv, abandoned, faults>>

Expanded(c) ==
    /\ capacity' = [capacity EXCEPT ![c.name] = c.size]
    /\ Leave(c)
    /\ UNCHANGED <<pv, content>>

(***************************************************************************)
(* lvmd: the next command of a handler.  Its outcome is the new set of     *)
(* logical volumes and the next command, or "ok" or "err" at the end.      *)
(***************************************************************************)
Outcome(newlv, pc) == [lv |-> newlv, pc |-> pc]
Refuse == Outcome(lv, "err")

\* lvcreate refuses a name that is in use.
CreateLV(h) ==
    IF lv[h.name] = 0 THEN Outcome([lv EXCEPT ![h.name] = h.size], "ok") ELSE Refuse

\* Mutant of RemoveLV: the snapshots of the volume are not looked for.
RemoveLVUnchecked(h) ==
    CASE h.pc = "lvs"    -> Outcome(lv, IF lv[h.name] = 0 THEN "ok" ELSE "origin")
      [] h.pc = "origin" -> Outcome([n \in Names |-> IF n \in {h.name} \cup SnapsOn(h.name)
                                                    THEN 0 ELSE lv[n]], "ok")

\* RemoveLV lists the volume, looks for snapshots of it, and removes it.
\* lvremove -f takes the snapshots of the volume with it.
RemoveLV(h) ==
    CASE h.pc = "lvs"      -> Outcome(lv, IF lv[h.name] = 0 THEN "ok" ELSE "origin")
      [] h.pc = "origin"   -> IF \E s \in SnapsOn(h.name) : lv[s] > 0
                              THEN Refuse ELSE Outcome(lv, "lvremove")
      [] h.pc = "lvremove" -> IF lv[h.name] = 0 THEN Refuse
                              ELSE Outcome([n \in Names |-> IF n \in {h.name} \cup SnapsOn(h.name)
                                                            THEN 0 ELSE lv[n]], "ok")

CreateSnapshotLV(h) ==
    IF lv[h.name] = 0 /\ lv[SourceOf[h.name]] > 0
    THEN Outcome([lv EXCEPT ![h.name] = h.size], "ok") ELSE Refuse

RemoveSnapshot(h) ==
    CASE h.pc = "lvs-s"      -> Outcome(lv, IF lv[h.name] = 0 THEN "ok" ELSE "lvremove-s")
      [] h.pc = "lvremove-s" -> IF lv[h.name] = 0 THEN Refuse
                                ELSE Outcome([lv EXCEPT ![h.name] = 0], "ok")

\* Mutant of ExpandLV: the size is taken as what to add (lvextend -L+).
ExpandLVBy(h) ==
    IF lv[h.name] > 0
    THEN Outcome([lv EXCEPT ![h.name] = @ + h.size], "ok") ELSE Refuse

\* lvextend only grows a volume: asked for the size it has, it fails.
ExpandLV(h) ==
    IF lv[h.name] > 0 /\ h.size > lv[h.name]
    THEN Outcome([lv EXCEPT ![h.name] = h.size], "ok") ELSE Refuse

\* CleanPath and CleanDevice.
Clean(h) == Outcome([lv EXCEPT ![h.name] = 0], "ok")

Run(h) ==
    CASE h.pc = "lvcreate"                     -> CreateLV(h)
      [] h.pc \in {"lvs", "origin", "lvremove"} -> RemoveLV(h)
      [] h.pc = "clean"                        -> Clean(h)
      [] h.pc = "lvcreate-s"                   -> CreateSnapshotLV(h)
      [] h.pc \in {"lvs-s", "lvremove-s"}      -> RemoveSnapshot(h)
      [] h.pc = "lvextend"                     -> ExpandLV(h)

InLvmd(c) == c.pc \in LvmdPcs
HandlerOf(c) == [op |-> c.op, name |-> c.name, pc |-> c.pc, size |-> c.size]

\* What the service does with the success of its handler.
Answered(c) ==
    CASE c.op = "create"       -> Goto(c, "source") /\ UNCHANGED <<pv, content, capacity>>
      [] c.op = "delete"       -> Deleted(c)
      [] c.op = "snapshot"     -> Ready(c)
      [] c.op = "dropSnapshot" -> Dropped(c)
      [] c.op = "expand"       -> Expanded(c)

\* A command of a handler whose caller waits.
Serve(c) ==
    /\ InLvmd(c)
    /\ LET out == Run(HandlerOf(c)) IN
        /\ lv' = out.lv
        /\ IF out.pc = "ok" THEN Answered(c) /\ UNCHANGED abandoned
           ELSE IF out.pc = "err" THEN Fail(c) /\ UNCHANGED <<pv, content, capacity>>
           ELSE Goto(c, out.pc) /\ UNCHANGED <<pv, content, capacity, abandoned>>
    /\ UNCHANGED <<kind, claim, want, attr, late, faults>>

\* A command of a handler that nobody waits for any more.
ServeLate(h) ==
    /\ h \in late
    /\ LET out == Run(h) IN
        /\ lv' = out.lv
        /\ late' = (late \ {h}) \cup
               (IF out.pc \in {"ok", "err"} THEN {} ELSE {[h EXCEPT !.pc = out.pc]})
    /\ UNCHANGED <<kube, inFlight, call, abandoned, faults>>

\* The request does not reach lvmd, or its command fails: the call fails.
CallFails(c) ==
    /\ c.pc # "source"
    /\ Fault
    /\ Fail(c)
    /\ UNCHANGED <<kube, late, lv>>

\* The context of the call expires; the handler in lvmd carries on.
Timeout(c) ==
    /\ InLvmd(c)
    /\ Fault
    /\ Fail(c)
    /\ late' = late \cup {HandlerOf(c)}
    /\ UNCHANGED <<kube, lv>>

\* The service restarts: its calls and its table are lost, not the handlers.
ServiceRestart ==
    /\ call # {}
    /\ Fault
    /\ late' = late \cup {HandlerOf(c) : c \in {d \in call : InLvmd(d)}}
    /\ abandoned' = abandoned \cup {c.name : c \in {d \in call : Asked(d)}}
    /\ call' = {}
    /\ inFlight' = {}
    /\ UNCHANGED <<kube, lv>>

\* lvmd restarts with the agent: its handlers stop where they are.
LvmdRestart ==
    /\ late # {} \/ \E c \in call : InLvmd(c)
    /\ Fault
    /\ late' = {}
    /\ LET dead == {c \in call : InLvmd(c)} IN
        /\ call' = call \ dead
        /\ inFlight' = inFlight \ {c.name : c \in {d \in dead : d.op # "expand"}}
        /\ abandoned' = abandoned \cup {c.name : c \in {d \in dead : Asked(d)}}
    /\ UNCHANGED <<kube, lv>>

(***************************************************************************)
(* Kubernetes: claims, pods, snapshots and the node.                       *)
(***************************************************************************)

\* A claim is protected while a snapshot of it is being made.
DeleteClaim(v) ==
    /\ v \in claim
    /\ \A s \in SnapsOn(v) : content[s] # "asked"
    /\ claim' = claim \ {v}
    /\ pv' = [pv EXCEPT ![v] = IF @ = "live" THEN "released" ELSE @]
    /\ UNCHANGED <<kind, want, attr, capacity, content, inFlight, call, late, lv,
                   abandoned, faults>>

\* Only a volume with a logical volume of its own can be expanded.
GrowClaim(v) ==
    /\ kind[v] \in {"lvm", "framework"}
    /\ v \in claim /\ pv[v] = "live" /\ want[v] < MaxSize
    /\ want' = [want EXCEPT ![v] = @ + 1]
    /\ UNCHANGED <<kind, claim, pv, attr, capacity, content, inFlight, call, late, lv,
                   abandoned, faults>>

AskSnapshot(s) ==
    /\ content[s] = "none"
    /\ SourceOf[s] \in claim /\ pv[SourceOf[s]] = "live"
    /\ content' = [content EXCEPT ![s] = "asked"]
    /\ UNCHANGED <<kind, claim, want, pv, attr, capacity, inFlight, call, late, lv,
                   abandoned, faults>>

\* A snapshot is protected while a claim is being restored from it.
DiscardSnapshot(s) ==
    /\ content[s] \in {"asked", "ready"}
    /\ \A v \in claim : ~(kind[v] = "restored" /\ From[v] = s /\ pv[v] = "none")
    /\ content' = [content EXCEPT ![s] = "unwanted"]
    /\ UNCHANGED <<kind, claim, want, pv, attr, capacity, inFlight, call, late, lv,
                   abandoned, faults>>

\* The allocation of the scheduler plugin reaches the PersistentVolume.
Migrated(v) ==
    /\ kind[v] = "framework" /\ pv[v] = "live" /\ ~attr[v].vg
    /\ attr' = [attr EXCEPT ![v].vg = TRUE]
    /\ UNCHANGED <<kind, claim, want, pv, capacity, content, inFlight, call, late, lv,
                   abandoned, faults>>

\* The node publishes the volume: it creates the logical volume if the service
\* did not, and data is written to a device or mount point.
NodePublish(v) ==
    /\ pv[v] = "live" /\ lv[v] = 0
    /\ (kind[v] = "framework" /\ attr[v].vg) \/ kind[v] = "device"
    /\ lv' = [lv EXCEPT ![v] = capacity[v]]
    /\ UNCHANGED <<kube, inFlight, call, late, abandoned, faults>>

Sidecars ==
    \/ \E v \in Vols : CreateVolume(v) \/ DeleteVolume(v) \/ ControllerExpandVolume(v)
    \/ \E s \in Snaps : CreateSnapshot(s) \/ DeleteSnapshot(s)

Controller(c) ==
    \/ GetLV(c) \/ Provisioned(c) \/ SourceMissing(c)
    \/ GetLVToDelete(c) \/ GetSnapshotLV(c) \/ GetSnapshotToDrop(c)

Faults ==
    \/ \E c \in call : CallFails(c) \/ Timeout(c)
    \/ ServiceRestart
    \/ LvmdRestart

Kubernetes ==
    \/ \E v \in Vols : \/ DeleteClaim(v) \/ GrowClaim(v)
                       \/ Migrated(v) \/ NodePublish(v)
    \/ \E s \in Snaps : AskSnapshot(s) \/ DiscardSnapshot(s)

Next ==
    \/ Sidecars
    \/ \E c \in call : Controller(c) \/ Serve(c)
    \/ \E h \in late : ServeLate(h)
    \/ Faults
    \/ Kubernetes

Spec == Init /\ [][Next]_vars

\* A sidecar repeats its call until it succeeds; MaxCalls is a bound of the model,
\* hence strong fairness.  The service and the handlers of lvmd run to their end.
Fairness ==
    /\ \A v \in Vols : SF_vars(DeleteVolume(v))
    /\ \A n \in Names : WF_vars(\E c \in call : c.name = n /\ (Controller(c) \/ Serve(c)))

FairSpec == Spec /\ Fairness

(***************************************************************************)
(* Properties.                                                             *)
(***************************************************************************)

\* A volume that can be used is as large as its PersistentVolume states, however
\* creations and expansions were retried, lost or late.
CapacityBacked ==
    \A v \in Vols :
        (/\ pv[v] = "live" /\ attr[v].vg /\ ~attr[v].ro
         /\ kind[v] = "framework" => lv[v] > 0) => lv[v] >= capacity[v]

\* A snapshot reported ready exists, and so does the volume it depends on: the
\* deletion of a volume fails while it has a snapshot (the comment in DeleteSnapshot).
ReadySnapshotUsable ==
    \A s \in Snaps : content[s] = "ready" => lv[s] > 0 /\ lv[SourceOf[s]] > 0

\* Once everything about a volume or snapshot is gone from Kubernetes, nothing of it
\* is left on the node, unless a call that created it was never answered.
DeletedLeavesNothing ==
    /\ \A v \in Vols \ abandoned :
        (/\ v \notin claim /\ pv[v] \in {"none", "gone"}
         /\ \A c \in call : c.name # v) => lv[v] = 0
    /\ \A s \in Snaps \ abandoned : content[s] = "gone" => lv[s] = 0

\* A released volume is removed, unless a snapshot on the node holds it.
ReleasedIsRemoved ==
    \A v \in Vols : pv[v] = "released" ~> (pv[v] = "gone" \/ \E s \in SnapsOn(v) : lv[s] > 0)

Store == INSTANCE VolumeStore WITH volume <- pv, snap <- content,
                                   held <- {s \in Snaps : lv[s] > 0}

\* The service and lvmd implement the promise of VolumeStore.
ImplementsStore == Store!Spec

(***************************************************************************)
(* What makes the properties inductive.  A handler of lvmd works for a     *)
(* call, or goes on after it: what it may do follows from what its call    *)
(* found in Kubernetes and from what never comes back there.               *)
(***************************************************************************)
Work == call \cup late

\* The commands of each operation, for a call or a handler.
Program(h) ==
    /\ h.op = "create" => h.name \in Vols /\ h.pc \in {"get", "lvcreate", "source"} /\ h.size = 1
    /\ h.op = "delete" => h.name \in Vols /\ h.pc \in {"get", "clean", "lvs", "origin", "lvremove"}
    /\ h.op = "snapshot" => h.name \in Snaps /\ h.pc \in {"get", "lvcreate-s"} /\ h.size = 1
    /\ h.op = "dropSnapshot" => h.name \in Snaps /\ h.pc \in {"get", "lvs-s", "lvremove-s"}
    /\ h.op = "expand" => h.name \in Vols /\ h.pc = "lvextend"

\* What holds for a handler, even after its call.
Stands(h) ==
    /\ h.op = "create" /\ h.pc # "source" => kind[h.name] \in {"lvm", "restored"}
    /\ h.op = "delete" => pv[h.name] \in {"released", "gone"}
    /\ h.pc = "clean" => kind[h.name] = "device"
    /\ h.pc = "lvremove" => \A s \in SnapsOn(h.name) : content[s] # "ready"
    /\ h.op = "snapshot" => content[h.name] # "none" /\ attr[SourceOf[h.name]].vg
    /\ h.op = "dropSnapshot" => content[h.name] \in {"unwanted", "gone"}

WorkStands == \A h \in Work : Program(h) /\ Stands(h)

\* The in-flight table: one call per name, expansions aside.
OneCallPerName ==
    /\ \A c \in call : c.op # "expand" => c.name \in inFlight
    /\ \A c, d \in call : c.op # "expand" /\ d.op # "expand" /\ c.name = d.name => c = d

\* What a call found in Kubernetes when it began is still there.
Current(c) ==
    /\ c.op = "create" => pv[c.name] = "none"
    /\ c.op = "delete" => pv[c.name] = "released"
    /\ c.op = "snapshot" => content[c.name] \in {"asked", "unwanted"}
    /\ c.op = "dropSnapshot" => content[c.name] = "unwanted"

CallsCurrent == \A c \in call : Current(c)

\* A snapshot is on the node only with its volume, and as long as it is ready.
SnapshotsFollow ==
    \A s \in Snaps :
        /\ content[s] # "none" => pv[SourceOf[s]] # "none"
        /\ content[s] = "asked" => pv[SourceOf[s]] = "live"
        /\ content[s] = "ready" => lv[s] > 0
        /\ lv[s] > 0 => content[s] # "none" /\ lv[SourceOf[s]] > 0 /\ attr[SourceOf[s]].vg

\* The logical volume of a claim is made, with the size the claim began with, before
\* the PersistentVolume is.
VolumesBacked ==
    /\ \A v \in Vols : /\ pv[v] = "none" => want[v] = 1 /\ ~attr[v].vg
                       /\ kind[v] = "device" => ~attr[v].vg
                       /\ kind[v] = "framework" /\ ~attr[v].vg => lv[v] = 0
    /\ \A c \in call :
          (/\ c.op = "create" /\ c.pc = "source"
           /\ kind[c.name] = "lvm" \/ (kind[c.name] = "restored" /\ ~c.ro)) => lv[c.name] > 0

LifeInv ==
    /\ TypeOK /\ WorkStands /\ OneCallPerName /\ CallsCurrent
    /\ SnapshotsFollow /\ VolumesBacked /\ CapacityBacked

(***************************************************************************)
(* The rest holds when no read of a VolumeSnapshot fails: a volume made    *)
(* from a read-only snapshot never has a logical volume, and a volume or   *)
(* snapshot that is gone has none, unless a call that asked for it failed. *)
(***************************************************************************)
ReadsRight ==
    /\ \A h \in Work : h.op = "create" /\ h.pc # "source" => kind[h.name] = "lvm"
    /\ \A v \in Vols : pv[v] # "none" => /\ attr[v].ro => kind[v] = "restored"
                                         /\ kind[v] = "lvm" => attr[v].vg

RestoredHasNoLV == \A v \in Vols : kind[v] = "restored" => lv[v] = 0

\* The handlers that still create something nobody waits for.
LateIsAbandoned ==
    \A h \in late : h.op \in {"create", "snapshot"} => h.name \in abandoned

\* A creation call holds the logical volume that no PersistentVolume names yet.
Answering(v) == \E c \in call : c.name = v /\ c.op = "create" /\ c.pc = "source"

GoneIsRemoved ==
    /\ \A v \in Vols \ abandoned : /\ pv[v] = "none" /\ lv[v] > 0 => Answering(v)
                                   /\ pv[v] = "gone" => lv[v] = 0
    /\ \A s \in Snaps \ abandoned : content[s] = "gone" => lv[s] = 0

RemovalInv == ReadsRight /\ RestoredHasNoLV /\ LateIsAbandoned /\ GoneIsRemoved
=============================================================================
