-------------------------- MODULE NodeStorageSync ---------------------------
(***************************************************************************)
(* The NodeLocalStorage (NLS) of each node.  The controller creates it,    *)
(* keeps its spec equal to what the NodeLocalStorageInitConfig (NLSC)      *)
(* says, and deletes it with the node (pkg/controller/controller.go).  The *)
(* agent of the node creates the groups and mounts that the spec asks for, *)
(* writes the status and extends snapshots (pkg/agent).  Both read copies  *)
(* that are stale when they write.                                         *)
(*                                                                         *)
(* An update is refused when the object is not the one that was read: the  *)
(* resource version is abstracted to the object itself.                    *)
(***************************************************************************)
EXTENDS Discovery

CONSTANTS
    Nodes, Labels, Configs,
    Reservations,           \* values of the annotation storage-reserved
    All,                    \* the work item that names no NLS
    NoNode, NoConfig, NoNLS, NoStatus, Idle,
    Tombstone,              \* a DeletedFinalStateUnknown: the deletion of a node that went
                            \* while nobody watched
    Workers,                \* goroutines of the controller
    Scenes                  \* the states to start in: objects, hosts, the processes that
                            \* run, and the changes and faults that may happen

ASSUME NodeAssumption ==
    All \notin Nodes /\ NoNode \notin Nodes /\ Tombstone \notin Labels \cup {NoNode}
ASSUME WorkerAssumption == Workers \in Nat \ {0}
ASSUME SceneAssumption ==
    \A s \in Scenes : s.node \in [Nodes -> Labels \cup {NoNode}] /\ DOMAIN s.nls = Nodes

VARIABLES
    node,       \* the labels of each Node, or NoNode
    nlsc,       \* the NLSC
    nls,        \* the NLS of each node
    contents,   \* the snapshots whose VolumeSnapshotContent, and its class, exist
    nodeEvents, \* changes of a Node that the controller's watch still has to bring
    nodeCache, nlscCache, nlsCache,     \* the listers of the controller
    notify,     \* calls of the node handlers that wait for their goroutine
    queue,      \* the work queue of the controller
    jobs,       \* the items that workers are processing
    host,       \* the host of each agent
    found,      \* the report of a running Discover
    todo,       \* the resources that a running InitResource has left
    scene,      \* the scene of this behaviour
    changes,    \* the number of changes and faults so far
    excused     \* nodes whose NLS may stay behind

api == <<node, nlsc, nls, contents>>
lister == <<nodeEvents, nodeCache, nlscCache, nlsCache, notify>>
work == <<queue, jobs>>
agent == <<found, todo>>
ghost == <<scene, changes, excused>>
vars == <<api, lister, work, host, agent, ghost>>

Agents == DOMAIN scene.host     \* the nodes on which an agent runs

NLS(spec) == [spec |-> spec, reserved |-> <<>>, status |-> NoStatus]

(***************************************************************************)
(* Changes from outside, and faults.  Their number is bounded.             *)
(***************************************************************************)

Change(k) ==
    /\ k \in scene.kinds
    /\ changes < scene.max
    /\ changes' = changes + 1
    /\ UNCHANGED scene

SetNode(n, l) ==
    /\ Change("node")
    /\ n \in scene.movable
    /\ l # node[n]
    /\ node' = [node EXCEPT ![n] = l]
    /\ nodeEvents' = [nodeEvents EXCEPT ![n] = Append(@, l)]
    /\ UNCHANGED <<nlsc, nls, contents, nodeCache, nlscCache, nlsCache, notify, work, host,
                   agent, excused>>

SetConfig(c) ==
    /\ Change("config")
    /\ c # nlsc
    /\ nlsc' = c
    /\ UNCHANGED <<node, nls, contents, lister, work, host, agent, excused>>

\* A user writes the annotation, or deletes the object.
SetNLS(n, o) ==
    /\ Change("nls")
    /\ nls[n] \notin {NoNLS, o}
    /\ nls' = [nls EXCEPT ![n] = o]
    /\ UNCHANGED <<node, nlsc, contents, lister, work, host, agent, excused>>

EditNLS(n) ==
    \/ SetNLS(n, NoNLS)
    \/ nls[n] # NoNLS /\ \E r \in Reservations : SetNLS(n, [nls[n] EXCEPT !.reserved = r])

SetHost(n, h) ==
    /\ host[n] # h
    /\ host' = [host EXCEPT ![n] = h]
    /\ UNCHANGED <<api, lister, work, agent, excused>>

\* A device breaks, is repaired or plugged in; another LV is created; a snapshot
\* fills up; the host restarts, which loses the mounts.
HostChanges(n) ==
    \/ \E d \in Devs, s \in {"ok", "bad"} :
          /\ Change("device")
          /\ d \notin UNION {host[n].vg[v] : v \in VGs} \cup host[n].mounted
          /\ SetHost(n, [host[n] EXCEPT !.dev[d] = s])
    \/ \E v \in VGs :
          /\ Change("volume")
          /\ BytesFree(host[n], v) > 0
          /\ \/ SetHost(n, [host[n] EXCEPT !.foreign[v] = @ + 1])
             \/ SetHost(n, [host[n] EXCEPT !.local[v] = @ + 1])
    \/ \E s \in host[n].snaps :
          /\ Change("snapshot")
          /\ SetHost(n, [host[n] EXCEPT !.over = @ \cup {s}])
    \/ /\ Change("reboot")
       /\ SetHost(n, [host[n] EXCEPT !.mounted = {}])

DeleteContent(s) ==
    /\ Change("snapshot")
    /\ s \in contents
    /\ contents' = contents \ {s}
    /\ UNCHANGED <<node, nlsc, nls, lister, work, host, agent, excused>>

(***************************************************************************)
(* The informers of the controller.  A handler runs in a goroutine of its  *)
(* own, after the lister has changed.  Nodes have no update handler, and   *)
(* the NLS and the NLSC no delete handler.                                 *)
(***************************************************************************)

\* What an event leaves in the lister.
Seen(e) == IF e = Tombstone THEN NoNode ELSE e

Handlers(old, e) ==
    CASE e = Tombstone -> <<"tombstone">>
      [] e = NoNode -> <<"delete">>
      [] OTHER -> IF old = NoNode THEN <<"add">> ELSE <<>>

FirstItems == {n \in Nodes : nls[n] # NoNLS} \cup (IF nlsc = NoConfig THEN {} ELSE {All})
FirstList(l) == IF l = NoNode THEN <<>> ELSE <<"add">>

ObserveNode(n) ==
    /\ nodeEvents[n] # <<>>
    /\ nodeCache' = [nodeCache EXCEPT ![n] = Seen(Head(nodeEvents[n]))]
    /\ nodeEvents' = [nodeEvents EXCEPT ![n] = Tail(@)]
    /\ notify' = [notify EXCEPT ![n] = @ \o Handlers(nodeCache[n], Head(nodeEvents[n]))]
    /\ UNCHANGED <<api, nlscCache, nlsCache, work, host, agent, ghost>>

LastOf(s) == s[Len(s)]

\* The watch of the Nodes breaks, and the reflector lists them anew.  The events from
\* some point on are lost: a node that exists is handed in as it is, and for one that
\* the lister would still show there is a tombstone.
RelistNode(n) ==
    /\ Change("relist")
    /\ \E k \in 1 .. Len(nodeEvents[n]) :
          LET kept == SubSeq(nodeEvents[n], 1, k - 1)
              last == IF kept = <<>> THEN nodeCache[n] ELSE Seen(LastOf(kept))
              listed == IF node[n] # NoNode THEN <<node[n]>>
                        ELSE IF last # NoNode THEN <<Tombstone>> ELSE <<>>
          IN  nodeEvents' = [nodeEvents EXCEPT ![n] = kept \o listed]
    /\ UNCHANGED <<api, nodeCache, nlscCache, nlsCache, notify, work, host, agent, excused>>

CreateNLSByNode(n) ==
    /\ queue' = queue \cup {n}
    /\ UNCHANGED <<nls, ghost>>

Creating(n) == \E j \in jobs : j.node = n /\ j.base = NoNLS

Gone(n) == nls[n] = NoNLS /\ ~Creating(n)

\* MetaNamespaceKeyFunc fails for a tombstone, and nothing is asked for.  The deletion
\* is not repeated when it fails, and a creation that was decided before the node
\* went comes after it.
DeleteNLSByNode(n, obj) ==
    /\ UNCHANGED queue
    /\ \/ /\ obj = "tombstone"
          /\ excused' = IF Gone(n) THEN excused ELSE excused \cup {n}
          /\ UNCHANGED <<nls, scene, changes>>
       \/ /\ obj = "delete"
          /\ nls' = [nls EXCEPT ![n] = NoNLS]
          /\ excused' = IF Creating(n) THEN excused \cup {n} ELSE excused \ {n}
          /\ UNCHANGED <<scene, changes>>
       \/ /\ obj = "delete"
          /\ Change("api")
          /\ excused' = excused \cup {n}
          /\ UNCHANGED nls

HandleNode(n) ==
    /\ notify[n] # <<>>
    /\ notify' = [notify EXCEPT ![n] = Tail(@)]
    /\ IF Head(notify[n]) = "add" THEN CreateNLSByNode(n)
       ELSE DeleteNLSByNode(n, Head(notify[n]))
    /\ UNCHANGED <<node, nlsc, contents, nodeEvents, nodeCache, nlscCache, nlsCache, jobs, host,
                   agent>>

HandleNLSC ==
    /\ nlscCache # nlsc
    /\ nlscCache' = nlsc
    /\ queue' = IF nlsc = NoConfig THEN queue ELSE queue \cup {All}
    /\ UNCHANGED <<api, nodeEvents, nodeCache, nlsCache, notify, jobs, host, agent, ghost>>

HandleNLS(n) ==
    /\ nlsCache[n] # nls[n]
    /\ nlsCache' = [nlsCache EXCEPT ![n] = nls[n]]
    /\ queue' = IF nls[n] = NoNLS THEN queue ELSE queue \cup {n}
    /\ UNCHANGED <<api, nodeEvents, nodeCache, nlscCache, notify, jobs, host, agent, ghost>>

\* Every 30 seconds the informers hand in what their listers hold as updates.
\* Mutant of Listed: the configuration is not handed in again.
ListedNLS == {n \in Nodes : nlsCache[n] # NoNLS}

Listed == {n \in Nodes : nlsCache[n] # NoNLS} \cup (IF nlscCache = NoConfig THEN {} ELSE {All})
Resync(i) ==
    /\ i \in Listed \ queue
    /\ queue' = queue \cup {i}
    /\ UNCHANGED <<api, lister, jobs, host, agent, ghost>>

(***************************************************************************)
(* The workers.  A job has the names it still has to handle, and the write *)
(* it has decided on: of which node, over which copy, with which spec.     *)
(***************************************************************************)

Job(i, names) == [item |-> i, names |-> names, node |-> NoNode, base |-> NoNLS, spec |-> Idle]

ProcessNextWorkItem(i) ==
    /\ i \in queue
    /\ Cardinality(jobs) < Workers
    /\ \A j \in jobs : j.item # i
    /\ queue' = queue \ {i}
    /\ jobs' = jobs \cup {Job(i, IF i = All THEN {n \in Nodes : nodeCache[n] # NoNode} ELSE {i})}
    /\ UNCHANGED <<api, lister, host, agent, ghost>>

Continue(j, k) == jobs' = (jobs \ {j}) \cup {k} /\ UNCHANGED queue
Finish(j) == jobs' = jobs \ {j} /\ UNCHANGED queue
Requeue(j) == jobs' = jobs \ {j} /\ queue' = queue \cup {j.item}

\* Mutant of CanUpdateNLSSpec: a node that is gone gets the global configuration.
CanUpdateAnyNLSSpec(n) == nlscCache # NoConfig

\* updateNLSSpec fails without the NLSC or without the node.
CanUpdateNLSSpec(n) == nlscCache # NoConfig /\ nodeCache[n] # NoNode
UpdateNLSSpec(n) == SpecOf(nlscCache, nodeCache[n])

SyncName(j, n) ==
    IF ~CanUpdateNLSSpec(n) THEN Requeue(j)
    ELSE IF nlsCache[n] # NoNLS /\ nlsCache[n].spec = UpdateNLSSpec(n)
         THEN Continue(j, Job(j.item, j.names \ {n}))
         ELSE Continue(j, [Job(j.item, j.names) EXCEPT
                                !.node = n, !.base = nlsCache[n], !.spec = UpdateNLSSpec(n)])

SyncHandler(j) ==
    /\ j.node = NoNode
    /\ IF j.names = {} THEN IF nlscCache = NoConfig THEN Requeue(j) ELSE Finish(j)
                       ELSE \E n \in j.names : SyncName(j, n)
    /\ UNCHANGED <<api, lister, host, agent, ghost>>

\* Create or Update: refused when the object is not the copy of the lister.
WriteNLS(j) ==
    /\ j.node # NoNode
    /\ \/ /\ nls[j.node] = j.base
          /\ nls' = [nls EXCEPT ![j.node] =
                        IF @ = NoNLS THEN NLS(j.spec) ELSE [@ EXCEPT !.spec = j.spec]]
          /\ Continue(j, Job(j.item, j.names \ {j.node}))
          /\ UNCHANGED ghost
       \/ /\ nls[j.node] # j.base
          /\ Requeue(j)
          /\ UNCHANGED <<nls, ghost>>
       \/ /\ Change("api")
          /\ Requeue(j)
          /\ UNCHANGED <<nls, excused>>
    /\ UNCHANGED <<node, nlsc, contents, lister, host, agent>>

\* A new process has no queue, and is told of what exists but not of what went.
Missed == {n \in Nodes : node[n] = NoNode /\ nls[n] # NoNLS}

ControllerRestart ==
    /\ Change("restart")
    /\ nodeCache' = node /\ nlscCache' = nlsc /\ nlsCache' = nls
    /\ nodeEvents' = [n \in Nodes |-> <<>>]
    /\ notify' = [n \in Nodes |-> FirstList(node[n])]
    /\ queue' = FirstItems
    /\ jobs' = {}
    /\ excused' = Missed
    /\ UNCHANGED <<api, host, agent>>

(***************************************************************************)
(* The agent.  Its timers start Discover, InitResource and                 *)
(* ExpandSnapshotLVIfNeeded; a new spec starts InitResource earlier.       *)
(***************************************************************************)

Discover(n) ==
    /\ found[n] = Idle
    /\ nls[n] # NoNLS
    /\ Readable(host[n])
    /\ \E failed \in SUBSET VGs :
          /\ IF failed = {} THEN UNCHANGED ghost ELSE Change("lvm") /\ UNCHANGED excused
          /\ found' = [found EXCEPT ![n] =
                          [nls |-> nls[n], status |-> Report(host[n], nls[n], failed)]]
    /\ UNCHANGED <<api, lister, work, host, todo>>

\* Mutant of IsNlsStatusChanged: the sizes are not compared.
IsNlsStatusChangedNames(n) ==
    \/ found[n].nls.status = NoStatus
    \/ DOMAIN found[n].nls.status.vgs # DOMAIN found[n].status.vgs

IsNlsStatusChanged(n) == found[n].nls.status # found[n].status

UpdateStatus(n) ==
    /\ found[n] # Idle
    /\ found' = [found EXCEPT ![n] = Idle]
    /\ \/ /\ nls' = IF IsNlsStatusChanged(n) /\ nls[n] = found[n].nls
                    THEN [nls EXCEPT ![n].status = found[n].status] ELSE nls
          /\ UNCHANGED ghost
       \/ /\ Change("api")
          /\ UNCHANGED <<nls, excused>>
    /\ UNCHANGED <<node, nlsc, contents, lister, work, host, todo>>

InitResource(n) ==
    /\ todo[n] = Idle
    /\ nls[n] # NoNLS
    /\ todo' = [todo EXCEPT ![n] = nls[n].spec.init]
    /\ UNCHANGED <<api, lister, work, host, found, ghost>>

\* Mutant of InitVG: InitResource returns when a group cannot be created.
InitVGReturns(n) ==
    /\ todo[n] # Idle
    /\ todo[n].vgs # <<>>
    /\ LET g == Head(todo[n].vgs)
           h == IF LookupVolumeGroup(host[n], g.name) THEN host[n] ELSE CreateVG(host[n], g)
       IN  /\ host' = [host EXCEPT ![n] = h]
           /\ todo' = [todo EXCEPT ![n] = IF LookupVolumeGroup(h, g.name) THEN [@ EXCEPT !.vgs = Tail(@)]
                                          ELSE Idle]
    /\ UNCHANGED <<api, lister, work, found, ghost>>

\* The next group of the list: one that exists is left alone.
InitVG(n) ==
    /\ todo[n] # Idle
    /\ todo[n].vgs # <<>>
    /\ LET g == Head(todo[n].vgs)
       IN  host' = IF LookupVolumeGroup(host[n], g.name) THEN host
                   ELSE [host EXCEPT ![n] = CreateVG(host[n], g)]
    /\ todo' = [todo EXCEPT ![n].vgs = Tail(@)]
    /\ UNCHANGED <<api, lister, work, found, ghost>>

InitMountPoints(n) ==
    /\ todo[n] # Idle
    /\ todo[n].vgs = <<>>
    /\ host' = [host EXCEPT ![n] = MountPoints(host[n], todo[n].mountpoints)]
    /\ todo' = [todo EXCEPT ![n] = Idle]
    /\ UNCHANGED <<api, lister, work, found, ghost>>

ExpandSnapshotLVIfNeeded(n) ==
    /\ host' = [host EXCEPT ![n] = ExpandSnapshotLVs(host[n], contents)]
    /\ UNCHANGED <<api, lister, work, agent, ghost>>

\* The agent may end between the labels of the devices and vgcreate.
AgentRestart(n) ==
    /\ Change("restart")
    /\ found' = [found EXCEPT ![n] = Idle]
    /\ todo' = [todo EXCEPT ![n] = Idle]
    /\ host' = IF todo[n] = Idle \/ todo[n].vgs = <<>> THEN host
               ELSE [host EXCEPT ![n].pvs = @ \cup CreatePhysicalVolumes(host[n], Head(todo[n].vgs).devices)]
    /\ UNCHANGED <<api, lister, work, excused>>

(***************************************************************************)
(* The specification.                                                      *)
(***************************************************************************)

\* The controller has just listed what there is, and the agents start.
Init ==
    /\ scene \in Scenes
    /\ node = scene.node /\ nlsc = scene.nlsc /\ nls = scene.nls
    /\ contents = Range(Snaps)
    /\ nodeCache = node /\ nlscCache = nlsc /\ nlsCache = nls
    /\ nodeEvents = [n \in Nodes |-> <<>>]
    /\ notify = [n \in Nodes |-> FirstList(node[n])]
    /\ queue = FirstItems
    /\ jobs = {}
    /\ host = scene.host
    /\ found = [n \in Agents |-> Idle]
    /\ todo = [n \in Agents |-> Idle]
    /\ changes = 0
    /\ excused = Missed

Controller ==
    /\ scene.controller
    /\ \/ \E n \in Nodes : ObserveNode(n) \/ RelistNode(n) \/ HandleNode(n) \/ HandleNLS(n)
       \/ HandleNLSC
       \/ \E i \in Nodes \cup {All} : Resync(i) \/ ProcessNextWorkItem(i)
       \/ \E j \in jobs : SyncHandler(j) \/ WriteNLS(j)
       \/ ControllerRestart

Agent(n) ==
    \/ Discover(n) \/ UpdateStatus(n)
    \/ InitResource(n) \/ InitVG(n) \/ InitMountPoints(n)
    \/ ExpandSnapshotLVIfNeeded(n)
    \/ AgentRestart(n)

Environment ==
    \/ \E n \in Nodes, l \in Labels \cup {NoNode} : SetNode(n, l)
    \/ \E c \in Configs : SetConfig(c)
    \/ \E n \in Nodes : EditNLS(n)
    \/ \E n \in Agents : HostChanges(n)
    \/ \E s \in Range(Snaps) : DeleteContent(s)

Next == Controller \/ Environment \/ \E n \in Agents : Agent(n)

Spec == Init /\ [][Next]_vars

\* The watches go on, the informers resynchronise, the queue is served in order, and
\* the timers of the agent fire.
ControllerFairness ==
    /\ \A n \in Nodes : WF_vars(ObserveNode(n)) /\ WF_vars(HandleNode(n)) /\ WF_vars(HandleNLS(n))
    /\ WF_vars(HandleNLSC)
    /\ \A i \in Nodes \cup {All} :
          /\ WF_vars(Resync(i))
          /\ SF_vars(ProcessNextWorkItem(i))
          /\ WF_vars(\E j \in jobs : j.item = i /\ (SyncHandler(j) \/ WriteNLS(j)))

AgentFairness(n) ==
    /\ WF_vars(n \in Agents /\ (Discover(n) \/ UpdateStatus(n)))
    /\ WF_vars(n \in Agents /\ (InitResource(n) \/ InitVG(n) \/ InitMountPoints(n)))
    /\ WF_vars(n \in Agents /\ ExpandSnapshotLVIfNeeded(n))

FairSpec == Spec /\ (scene.controller => ControllerFairness) /\ \A n \in Nodes : AgentFairness(n)

(***************************************************************************)
(* Properties.                                                             *)
(***************************************************************************)

Settled(n) == nodeEvents[n] = <<>> /\ notify[n] = <<>> /\ ~Creating(n)

\* When a node is gone and the controller has handled it, its NLS is gone ("delete:
\* deleteNLS", docs/design/controller.md), except in four cases that the code leaves
\* open: the deletion came as a tombstone, which deleteNLSByNode cannot name
\* (controller.go:439-442); its one request failed; the node went while the controller
\* was down; or a worker was about to create the object.  In no other case does an NLS
\* stay, and late work items never bring one back.
NLSGoesWithNode ==
    \A n \in Nodes :
        scene.controller /\ node[n] = NoNode /\ Settled(n) /\ nls[n] # NoNLS => n \in excused

\* An induction needs more.  Behind the events of a node the lister agrees with the
\* API; a node that the lister has seen go still has its deletion waiting as the last
\* call, or it has no NLS and no worker that would create one; and a report of the
\* agent never was of a missing NLS.
NodeViews(n) ==
    IF nodeEvents[n] = <<>> THEN nodeCache[n] = node[n]
                            ELSE Seen(LastOf(nodeEvents[n])) = node[n]

DeletionsLast(n) ==
    nodeCache[n] = NoNode =>
        IF notify[n] = <<>> THEN n \in excused \/ Gone(n)
                            ELSE LastOf(notify[n]) \in {"delete", "tombstone"}

SyncTypes ==
    /\ node \in [Nodes -> Labels \cup {NoNode}]
    /\ DOMAIN nls = Nodes /\ DOMAIN nodeCache = Nodes
    /\ nodeEvents \in [Nodes -> Seq(Labels \cup {NoNode, Tombstone})]
    /\ notify \in [Nodes -> Seq({"add", "delete", "tombstone"})]
    /\ \A j \in jobs : j.names \subseteq Nodes /\ j.node \in Nodes \cup {NoNode}
    /\ DOMAIN found = Agents
    /\ \A n \in Agents : found[n] # Idle => found[n].nls # NoNLS

SyncInv == SyncTypes /\ \A n \in Nodes : NodeViews(n) /\ DeletionsLast(n)

\* The spec of each node's NLS becomes, and stays, what the NLSC says for the labels
\* of the node, whatever was lost or refused on the way: no event handler sees a
\* change of labels or the deletion of an NLS, only the resynchronisation does.
SpecFollowsConfig ==
    <>[](scene.controller /\ nlsc # NoConfig =>
            \A n \in Nodes : node[n] # NoNode =>
                nls[n] # NoNLS /\ nls[n].spec = SpecOf(nlsc, node[n]))

\* What the status should say: the docs deduct the LVs of others and the reservation.
Due(h, v, reserved) ==
    LET taken == IF v \in DOMAIN reserved THEN Max({h.foreign[v], reserved[v].size})
                                          ELSE h.foreign[v]
    IN  BytesTotal(h, v) - taken

Plain(h, reserved) ==
    \A v \in DOMAIN reserved : reserved[v].percent = 0 /\ reserved[v].size <= BytesTotal(h, v)

\* The status becomes, and stays, true of the host: the groups with their space, and
\* among them the ones the spec lets open-local use.  A failed lookup, a refused
\* update or a stale report is repaired by the next round.  (Not when a device cannot
\* be read, nor for a reservation in percent or larger than the group.)
StatusFollowsHost ==
    <>[](\A n \in Agents :
            nls[n] # NoNLS /\ Readable(host[n]) /\ Plain(host[n], nls[n].reserved) =>
                LET h == host[n]
                    there == {v \in VGs : h.vg[v] # {}}
                    status == nls[n].status
                IN  /\ status # NoStatus
                    /\ DOMAIN status.vgs = there
                    /\ \A v \in there : status.vgs[v].allocatable = Due(h, v, nls[n].reserved)
                    /\ status.filtered \cap VGs =
                         {v \in there \cap nls[n].spec.include : v \notin nls[n].spec.exclude})

\* A group of the spec whose devices are free is created, and a device to be mounted
\* is mounted, however many others of the list fail and whenever the agent stops.
ResourcesAreInited ==
    <>[](\A n \in Agents : nls[n] # NoNLS =>
            LET init == nls[n].spec.init
            IN  /\ \A i \in 1 .. Len(init.vgs) :
                      \/ LookupVolumeGroup(host[n], init.vgs[i].name)
                      \/ \E d \in Range(init.vgs[i].devices) : ~IsFree(host[n], d)
                /\ \A d \in init.mountpoints : ~IsFree(host[n], d))

\* The loop of the agent ends at a snapshot whose content or class is missing, and at
\* one that it fails to extend.
EndsLoop(n, s) ==
    /\ s \in host[n].snaps
    /\ s \notin contents \/ (OverThreshold(host[n], s) /\ ~CanExpand(host[n], s))

\* A snapshot that passes its threshold is extended, unless the loop ends at it or at
\* one that lvs lists before it: one without a VolumeSnapshotContent or class
\* (snapshot.go:59-70), or one in a full group (snapshot.go:72-75).  In the second case
\* it is not extended although its own group has room.
SnapshotsAreExtended ==
    <>[](\A n \in Agents : \A i \in 1 .. Len(Snaps) :
            Snaps[i] \in host[n].over => \E k \in 1 .. i : EndsLoop(n, Snaps[k]))
=============================================================================
