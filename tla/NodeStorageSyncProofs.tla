----------------------- MODULE NodeStorageSyncProofs ------------------------
(***************************************************************************)
(* NLSGoesWithNode holds in every behaviour of Spec: for any nodes,        *)
(* workers, configurations and faults, an NLS that outlives its node is    *)
(* one of the four cases that the code leaves open: a tombstone, a failed  *)
(* request, a controller that was down, or a creation under way.  The      *)
(* inductive invariant is SyncInv.                                         *)
(***************************************************************************)
EXTENDS NodeStorageSync, SequenceTheorems, TLAPS

USE DEF api, lister, work, agent, ghost

Deletions == {"delete", "tombstone"}
Calls == {"add", "delete", "tombstone"}
Events == Labels \cup {NoNode, Tombstone}

\* The calls that one event or the first list brings.
LEMMA CallSequences ==
    /\ \A old, e : Handlers(old, e) \in Seq(Calls)
    /\ \A old, e : Seen(e) = NoNode => \E c \in Deletions : Handlers(old, e) = <<c>>
    /\ \A l : FirstList(l) \in Seq(Calls)
<1>1. <<>> \in Seq(Calls)
  BY EmptySeq
<1>2. \A c \in Calls : <<c>> \in Seq(Calls)
  OBVIOUS
<1>3. {<<"delete">>, <<"add">>, <<"tombstone">>} \subseteq Seq(Calls)
  BY <1>2 DEF Calls
<1>4. ASSUME NEW old, NEW e
      PROVE  /\ Handlers(old, e) \in Seq(Calls)
             /\ Seen(e) = NoNode => \E c \in Deletions : Handlers(old, e) = <<c>>
  <2>1. CASE e = Tombstone
    BY <1>3, <2>1 DEF Handlers, Deletions
  <2>2. CASE e = NoNode
    BY <1>3, <2>2, NodeAssumption DEF Handlers, Deletions
  <2>3. CASE e # Tombstone /\ e # NoNode
    BY <1>1, <1>3, <2>3 DEF Handlers, Seen
  <2> QED
    BY <2>1, <2>2, <2>3
<1> QED
  BY <1>1, <1>3, <1>4 DEF FirstList

\* Taking the first element leaves the last one in place, if there are two.
LEMMA TailKeepsLast ==
    ASSUME NEW S, NEW s \in Seq(S), s # <<>>
    PROVE  /\ Head(s) \in S /\ Tail(s) \in Seq(S)
           /\ Tail(s) = <<>> => LastOf(s) = Head(s)
           /\ Tail(s) # <<>> => LastOf(Tail(s)) = LastOf(s)
<1>1. /\ Head(s) \in S /\ Tail(s) \in Seq(S) /\ Len(Tail(s)) = Len(s) - 1
      /\ \A i \in 1 .. Len(Tail(s)) : Tail(s)[i] = s[i + 1]
  BY HeadTailProperties
<1>2. Len(s) \in Nat \ {0} /\ (Tail(s) # <<>> => Len(Tail(s)) \in Nat \ {0})
  BY <1>1, EmptySeq
<1>3. ASSUME Tail(s) = <<>> PROVE LastOf(s) = Head(s)
  <2>1. Len(s) = 1
    BY <1>1, <1>2, <1>3
  <2> QED
    BY <2>1 DEF LastOf
<1> QED
  BY <1>1, <1>2, <1>3 DEF LastOf

\* What was added last is last.
LEMMA AddedIsLast ==
    ASSUME NEW S, NEW s \in Seq(S), NEW e \in S
    PROVE  /\ Append(s, e) \in Seq(S) /\ Append(s, e) # <<>> /\ LastOf(Append(s, e)) = e
           /\ s \o <<e>> # <<>> /\ LastOf(s \o <<e>>) = e
<1>1. Len(s) \in Nat
  OBVIOUS
<1> QED
  BY <1>1, AppendProperties, AppendIsConcat DEF LastOf

\* What SyncInv is about.
relevant == <<node, nls, nodeEvents, nodeCache, notify, jobs, found, scene, excused>>

\* SyncInv does not depend on the other variables.
LEMMA SyncFrame == SyncInv /\ UNCHANGED relevant => SyncInv'
BY DEF relevant, SyncInv, SyncTypes, NodeViews, DeletionsLast, Gone, Creating, Agents

\* The informers have listed everything, and no work has begun.
LEMMA SyncInit == Init => SyncInv
<1> SUFFICES ASSUME Init PROVE SyncInv
  OBVIOUS
<1>1. SyncTypes
  <2>1. notify \in [Nodes -> Seq(Calls)]
    BY CallSequences DEF Init
  <2>2. <<>> \in Seq(Labels \cup {NoNode, Tombstone})
    BY EmptySeq
  <2> QED
    BY <2>1, <2>2, SceneAssumption DEF Init, SyncTypes, Agents, Calls
<1>2. ASSUME NEW n \in Nodes PROVE NodeViews(n) /\ DeletionsLast(n)
  BY <1>2 DEF Init, NodeViews, DeletionsLast, Gone, Creating, FirstList, Missed
<1> QED
  BY <1>1, <1>2 DEF SyncInv

\* The handlers of the node informer.
LEMMA ObserveNodeSync ==
    ASSUME SyncInv, NEW n \in Nodes, ObserveNode(n)
    PROVE  SyncInv'
<1> USE DEF ObserveNode
<1> DEFINE h == Handlers(nodeCache[n], Head(nodeEvents[n]))
<1>1. SyncTypes /\ \A m \in Nodes : NodeViews(m) /\ DeletionsLast(m)
  BY DEF SyncInv
<1>2. /\ nodeEvents[n] \in Seq(Events) /\ nodeEvents[n] # <<>>
      /\ notify[n] \in Seq(Calls)
  BY <1>1 DEF SyncTypes, Events, Calls
<1>3. /\ h \in Seq(Calls)
      /\ Seen(Head(nodeEvents[n])) = NoNode => \E c \in Deletions : h = <<c>>
  BY CallSequences
<1> HIDE DEF h
<1>4. notify' = [notify EXCEPT ![n] = notify[n] \o h]
  BY DEF h
<1>5. SyncTypes'
  <2>1. nodeEvents' \in [Nodes -> Seq(Events)]
    BY <1>1, <1>2, TailKeepsLast DEF SyncTypes, Events
  <2>2. notify' \in [Nodes -> Seq(Calls)]
    <3>1. notify[n] \o h \in Seq(Calls)
      BY <1>2, <1>3, ConcatProperties
    <3> QED
      BY <1>1, <1>4, <3>1 DEF SyncTypes, Calls
  <2> QED
    BY <1>1, <2>1, <2>2 DEF SyncTypes, Agents, Events, Calls
<1>6. ASSUME NEW m \in Nodes PROVE NodeViews(m)' /\ DeletionsLast(m)'
  <2>1. CASE m # n
    BY <1>1, <2>1, <1>4 DEF SyncTypes, NodeViews, DeletionsLast, Gone, Creating
  <2>2. CASE m = n
    <3>1. NodeViews(n)'
      <4>1. /\ nodeEvents'[n] = Tail(nodeEvents[n])
            /\ nodeCache'[n] = Seen(Head(nodeEvents[n]))
        BY <1>1 DEF SyncTypes
      <4> QED
        BY <1>1, <1>2, <4>1, TailKeepsLast DEF NodeViews
    <3>2. ASSUME nodeCache'[n] = NoNode
          PROVE  notify'[n] # <<>> /\ LastOf(notify'[n]) \in Deletions
      <4>1. PICK c \in Deletions : h = <<c>>
        BY <1>1, <1>3, <3>2 DEF SyncTypes
      <4>2. notify'[n] = notify[n] \o <<c>>
        BY <1>1, <1>4, <4>1 DEF SyncTypes
      <4>3. notify[n] \o <<c>> # <<>> /\ LastOf(notify[n] \o <<c>>) = c
        BY <1>2, AddedIsLast DEF Calls, Deletions
      <4> QED
        BY <4>2, <4>3
    <3> QED
      BY <2>2, <3>1, <3>2 DEF DeletionsLast, Deletions
  <2> QED
    BY <2>1, <2>2
<1> QED
  BY <1>5, <1>6 DEF SyncInv

\* After a new list the last event that is left still shows what the API has.
LEMMA RelistSync ==
    ASSUME SyncInv, NEW n \in Nodes, RelistNode(n)
    PROVE  SyncInv'
<1> USE DEF RelistNode, Change
<1>1. SyncTypes /\ \A m \in Nodes : NodeViews(m) /\ DeletionsLast(m)
  BY DEF SyncInv
<1>2. /\ nodeEvents[n] \in Seq(Events)
      /\ nodeEvents \in [Nodes -> Seq(Events)]
      /\ node[n] \in Labels \cup {NoNode}
  BY <1>1 DEF SyncTypes, Events
<1>3. PICK k \in 1 .. Len(nodeEvents[n]) :
          LET kept == SubSeq(nodeEvents[n], 1, k - 1)
              last == IF kept = <<>> THEN nodeCache[n] ELSE Seen(LastOf(kept))
              listed == IF node[n] # NoNode THEN <<node[n]>>
                        ELSE IF last # NoNode THEN <<Tombstone>> ELSE <<>>
          IN  nodeEvents' = [nodeEvents EXCEPT ![n] = kept \o listed]
  OBVIOUS
<1> DEFINE kept == SubSeq(nodeEvents[n], 1, k - 1)
           last == IF kept = <<>> THEN nodeCache[n] ELSE Seen(LastOf(kept))
           left == nodeEvents'[n]
<1>4. kept \in Seq(Events)
  BY <1>2, SubSeqProperties
<1>5. /\ nodeEvents' = [nodeEvents EXCEPT ![n] = left]
      /\ \/ node[n] # NoNode /\ left = kept \o <<node[n]>>
         \/ node[n] = NoNode /\ last # NoNode /\ left = kept \o <<Tombstone>>
         \/ node[n] = NoNode /\ last = NoNode /\ left = kept \o <<>>
  BY <1>2, <1>3
<1> HIDE DEF kept
<1>6. /\ left \in Seq(Events)
      /\ IF left = <<>> THEN nodeCache[n] = node[n] ELSE Seen(LastOf(left)) = node[n]
  <2>1. CASE node[n] # NoNode
    <3>1. /\ kept \o <<node[n]>> \in Seq(Events) /\ kept \o <<node[n]>> # <<>>
          /\ LastOf(kept \o <<node[n]>>) = node[n]
      BY <1>2, <1>4, AddedIsLast DEF Events
    <3> QED
      BY <1>2, <1>5, <2>1, <3>1, NodeAssumption DEF Seen
  <2>2. CASE node[n] = NoNode /\ last # NoNode
    <3>1. /\ kept \o <<Tombstone>> \in Seq(Events) /\ kept \o <<Tombstone>> # <<>>
          /\ LastOf(kept \o <<Tombstone>>) = Tombstone
      BY <1>4, AddedIsLast DEF Events
    <3> QED
      BY <1>5, <2>2, <3>1 DEF Seen
  <2>3. CASE node[n] = NoNode /\ last = NoNode
    <3>1. left = kept
      BY <1>4, <1>5, <2>3, ConcatEmptySeq
    <3> QED
      BY <1>4, <2>3, <3>1
  <2> QED
    BY <2>1, <2>2, <2>3
<1> HIDE DEF left
<1>7. nodeEvents' \in [Nodes -> Seq(Events)] /\ nodeEvents'[n] = left
  BY <1>2, <1>5, <1>6
<1>8. SyncTypes'
  BY <1>1, <1>7 DEF SyncTypes, Agents, Events
<1>9. ASSUME NEW m \in Nodes PROVE NodeViews(m)'
  BY <1>1, <1>2, <1>5, <1>6, <1>7 DEF NodeViews
<1>10. ASSUME NEW m \in Nodes PROVE DeletionsLast(m)'
  BY <1>1 DEF DeletionsLast, Gone, Creating
<1> QED
  BY <1>8, <1>9, <1>10 DEF SyncInv

\* A tombstone, a deletion that fails, and one that overtakes a creation, are excused;
\* one that comes before the last call is followed by another.
LEMMA HandleNodeSync ==
    ASSUME SyncInv, NEW n \in Nodes, HandleNode(n)
    PROVE  SyncInv'
<1> USE DEF HandleNode
<1>1. SyncTypes /\ \A m \in Nodes : NodeViews(m) /\ DeletionsLast(m)
  BY DEF SyncInv
<1>2. notify[n] \in Seq(Calls) /\ notify[n] # <<>>
  BY <1>1 DEF SyncTypes, Calls
<1>3. /\ scene' = scene
      /\ \A m \in Nodes : m # n => nls'[m] = nls[m] /\ (m \in excused <=> m \in excused')
      /\ DOMAIN nls' = Nodes
  BY <1>1 DEF CreateNLSByNode, DeleteNLSByNode, Change, SyncTypes
<1>4. SyncTypes'
  <2>1. notify' \in [Nodes -> Seq(Calls)]
    BY <1>1, <1>2, TailKeepsLast DEF SyncTypes, Calls
  <2> QED
    BY <1>1, <1>3, <2>1 DEF SyncTypes, Agents, Calls
<1>5. ASSUME NEW m \in Nodes PROVE NodeViews(m)' /\ DeletionsLast(m)'
  <2>1. NodeViews(m)'
    BY <1>1 DEF NodeViews
  <2>2. CASE m # n
    BY <1>1, <1>3, <2>1, <2>2 DEF SyncTypes, DeletionsLast, Gone, Creating
  <2>3. CASE m = n /\ nodeCache[n] = NoNode
    <3>1. LastOf(notify[n]) \in Deletions /\ notify'[n] = Tail(notify[n])
      BY <1>1, <1>2, <2>3 DEF DeletionsLast, SyncTypes, Deletions
    <3>2. CASE Tail(notify[n]) = <<>>
      <4>1. Head(notify[n]) \in Deletions
        BY <1>2, <3>1, <3>2, TailKeepsLast
      <4>2. DeleteNLSByNode(n, Head(notify[n]))
        BY <4>1 DEF Deletions
      <4>3. n \in excused' \/ Gone(n)'
        BY <1>1, <4>2 DEF DeleteNLSByNode, Gone, Creating, SyncTypes
      <4> QED
        BY <2>1, <2>3, <3>1, <3>2, <4>3 DEF DeletionsLast
    <3>3. CASE Tail(notify[n]) # <<>>
      BY <1>2, <2>1, <2>3, <3>1, <3>3, TailKeepsLast DEF DeletionsLast, Deletions
    <3> QED
      BY <3>2, <3>3
  <2>4. CASE m = n /\ nodeCache[n] # NoNode
    BY <2>1, <2>4 DEF DeletionsLast
  <2> QED
    BY <2>2, <2>3, <2>4
<1> QED
  BY <1>4, <1>5 DEF SyncInv

\* Steps that leave the node informer alone and create no object.
LEMMA QuietSync ==
    ASSUME SyncInv, SyncTypes', UNCHANGED <<node, nodeEvents, nodeCache, notify, excused>>,
           \A n \in Nodes : nodeCache[n] = NoNode /\ Gone(n) => Gone(n)'
    PROVE  SyncInv'
BY DEF SyncInv, NodeViews, DeletionsLast

\* Outside changes: the object of a node that is gone cannot be edited.
LEMMA EnvironmentSync ==
    ASSUME SyncInv, Environment
    PROVE  SyncInv'
<1>1. SyncTypes /\ \A m \in Nodes : NodeViews(m) /\ DeletionsLast(m)
  BY DEF SyncInv
<1>2. ASSUME NEW n \in Nodes, NEW l \in Labels \cup {NoNode}, SetNode(n, l)
      PROVE  SyncInv'
  <2> USE <1>2 DEF SetNode, Change
  <2>1. nodeEvents[n] \in Seq(Events) /\ l \in Events
    BY <1>1 DEF SyncTypes, Events
  <2>2. /\ Append(nodeEvents[n], l) \in Seq(Events)
        /\ Append(nodeEvents[n], l) # <<>> /\ LastOf(Append(nodeEvents[n], l)) = l
    BY <2>1, AddedIsLast
  <2>3. SyncTypes'
    BY <1>1, <2>2 DEF SyncTypes, Agents, Events
  <2>4. ASSUME NEW m \in Nodes PROVE NodeViews(m)'
    BY <1>1, <2>2, NodeAssumption DEF SyncTypes, NodeViews, Seen
  <2>5. ASSUME NEW m \in Nodes PROVE DeletionsLast(m)'
    BY <1>1 DEF DeletionsLast, Gone, Creating
  <2> QED
    BY <2>3, <2>4, <2>5 DEF SyncInv
<1>3. ASSUME NEW n \in Nodes, NEW o, SetNLS(n, o)
      PROVE  SyncInv'
  <2> USE <1>3 DEF SetNLS, Change
  <2>1. SyncTypes'
    BY <1>1 DEF SyncTypes, Agents
  <2>2. ASSUME NEW m \in Nodes, Gone(m) PROVE Gone(m)'
    BY <1>1, <2>2 DEF Gone, Creating, SyncTypes
  <2> QED
    BY <2>1, <2>2, QuietSync
<1>4. ASSUME NEW n \in Nodes, EditNLS(n) PROVE SyncInv'
  BY <1>3, <1>4 DEF EditNLS
<1>5. ASSUME NEW c, SetConfig(c) PROVE SyncInv'
  BY <1>5, SyncFrame DEF SetConfig, Change, relevant
<1>6. ASSUME NEW n, HostChanges(n) PROVE SyncInv'
  BY <1>6, SyncFrame DEF HostChanges, SetHost, Change, relevant
<1>7. ASSUME NEW s, DeleteContent(s) PROVE SyncInv'
  BY <1>7, SyncFrame DEF DeleteContent, Change, relevant
<1> QED
  BY <1>2, <1>4, <1>5, <1>6, <1>7 DEF Environment

\* A worker decides on a creation only for a node that the lister has.
LEMMA WorkerSync ==
    ASSUME SyncInv, NEW j \in jobs, SyncHandler(j)
    PROVE  SyncInv'
<1> USE DEF SyncHandler
<1>1. SyncTypes /\ j.names \subseteq Nodes
  BY DEF SyncInv, SyncTypes
<1>2. \/ jobs' = jobs \ {j}
      \/ \E n \in Nodes : jobs' = (jobs \ {j}) \cup {Job(j.item, j.names \ {n})}
      \/ \E n \in Nodes :
            /\ nodeCache[n] # NoNode
            /\ jobs' = (jobs \ {j}) \cup {[Job(j.item, j.names) EXCEPT
                            !.node = n, !.base = nlsCache[n], !.spec = UpdateNLSSpec(n)]}
  BY <1>1 DEF SyncName, Continue, Finish, Requeue, CanUpdateNLSSpec
<1>3. /\ \A k \in jobs' : k.names \subseteq Nodes /\ k.node \in Nodes \cup {NoNode}
      /\ \A k \in jobs' \ jobs : k.node = NoNode \/ nodeCache[k.node] # NoNode
  <2>1. \A k \in jobs : k.names \subseteq Nodes /\ k.node \in Nodes \cup {NoNode}
    BY <1>1 DEF SyncTypes
  <2>2. CASE jobs' = jobs \ {j}
    BY <2>1, <2>2
  <2>3. ASSUME NEW n \in Nodes, jobs' = (jobs \ {j}) \cup {Job(j.item, j.names \ {n})}
        PROVE  <1>3!1 /\ <1>3!2
    BY <1>1, <2>1, <2>3 DEF Job
  <2>4. ASSUME NEW n \in Nodes, nodeCache[n] # NoNode,
               jobs' = (jobs \ {j}) \cup {[Job(j.item, j.names) EXCEPT
                            !.node = n, !.base = nlsCache[n], !.spec = UpdateNLSSpec(n)]}
        PROVE  <1>3!1 /\ <1>3!2
    <3> DEFINE k == [Job(j.item, j.names) EXCEPT
                            !.node = n, !.base = nlsCache[n], !.spec = UpdateNLSSpec(n)]
    <3>1. k.names = j.names /\ k.node = n
      BY DEF Job
    <3> HIDE DEF k
    <3>2. jobs' = (jobs \ {j}) \cup {k}
      BY <2>4 DEF k
    <3> QED
      BY <1>1, <2>1, <2>4, <3>1, <3>2
  <2> QED
    BY <1>2, <2>2, <2>3, <2>4
<1>4. SyncTypes'
  BY <1>1, <1>3 DEF SyncTypes, Agents
<1>5. ASSUME NEW n \in Nodes, nodeCache[n] = NoNode, Gone(n) PROVE Gone(n)'
  BY <1>3, <1>5, NodeAssumption DEF Gone, Creating
<1> QED
  BY <1>4, <1>5, QuietSync

\* The write of a worker creates an object only where that was decided.
LEMMA WriteSync ==
    ASSUME SyncInv, NEW j \in jobs, WriteNLS(j)
    PROVE  SyncInv'
<1> USE DEF WriteNLS, Change
<1>1. SyncTypes /\ j.names \subseteq Nodes /\ j.node \in Nodes
  BY DEF SyncInv, SyncTypes
<1>2. jobs' \subseteq jobs \cup {Job(j.item, j.names \ {j.node})}
  BY DEF Continue, Requeue
<1>3. SyncTypes'
  BY <1>1, <1>2 DEF SyncTypes, Agents, Job
<1>4. ASSUME NEW n \in Nodes, Gone(n) PROVE Gone(n)'
  <2>1. nls'[n] = NoNLS
    BY <1>1, <1>4 DEF SyncTypes, Gone, Creating
  <2>2. ~Creating(n)'
    BY <1>2, <1>4, NodeAssumption DEF Gone, Creating, Job
  <2> QED
    BY <2>1, <2>2 DEF Gone
<1> QED
  BY <1>3, <1>4, QuietSync

\* A new controller starts from what exists.
LEMMA RestartSync == SyncInv /\ ControllerRestart => SyncInv'
<1> SUFFICES ASSUME SyncInv, ControllerRestart PROVE SyncInv'
  OBVIOUS
<1> USE DEF ControllerRestart, Change
<1>1. SyncTypes
  BY DEF SyncInv
<1>2. SyncTypes'
  <2>1. notify' \in [Nodes -> Seq(Calls)]
    BY CallSequences
  <2>2. <<>> \in Seq(Labels \cup {NoNode, Tombstone})
    BY EmptySeq
  <2> QED
    BY <1>1, <2>1, <2>2 DEF SyncTypes, Agents, Calls
<1>3. ASSUME NEW n \in Nodes PROVE NodeViews(n)' /\ DeletionsLast(n)'
  BY <1>3 DEF NodeViews, DeletionsLast, Gone, Creating, FirstList, Missed
<1> QED
  BY <1>2, <1>3 DEF SyncInv

\* Every step of the controller.
LEMMA ControllerSync == SyncInv /\ Controller => SyncInv'
<1> SUFFICES ASSUME SyncInv, Controller PROVE SyncInv'
  OBVIOUS
<1>1. ASSUME NEW n \in Nodes, HandleNLS(n) PROVE SyncInv'
  BY <1>1, SyncFrame DEF HandleNLS, relevant
<1>2. CASE HandleNLSC
  BY <1>2, SyncFrame DEF HandleNLSC, relevant
<1>3. ASSUME NEW i, Resync(i) PROVE SyncInv'
  BY <1>3, SyncFrame DEF Resync, relevant
<1>4. ASSUME NEW i \in Nodes \cup {All}, ProcessNextWorkItem(i) PROVE SyncInv'
  <2> USE <1>4 DEF ProcessNextWorkItem
  <2>1. SyncTypes
    BY DEF SyncInv
  <2>2. PICK names \in SUBSET Nodes : jobs' = jobs \cup {Job(i, names)}
    OBVIOUS
  <2>3. SyncTypes'
    BY <2>1, <2>2 DEF SyncTypes, Agents, Job
  <2>4. ASSUME NEW n \in Nodes, Gone(n) PROVE Gone(n)'
    BY <2>2, <2>4, NodeAssumption DEF Gone, Creating, Job
  <2> QED
    BY <2>3, <2>4, QuietSync
<1> QED
  BY <1>1, <1>2, <1>3, <1>4, ObserveNodeSync, RelistSync, HandleNodeSync, WorkerSync, WriteSync,
     RestartSync DEF Controller

\* The agent writes the status only of the object that it read.
LEMMA AgentSync ==
    ASSUME SyncInv, NEW n \in Agents, Agent(n)
    PROVE  SyncInv'
<1>1. SyncTypes
  BY DEF SyncInv
<1>2. CASE Discover(n)
  <2> USE <1>2 DEF Discover, Change
  <2>1. /\ UNCHANGED <<node, nls, nodeEvents, nodeCache, notify, jobs, scene, excused>>
        /\ DOMAIN found' = Agents
        /\ \A m \in Agents : m # n => found'[m] = found[m]
        /\ found'[n].nls = nls[n]
    BY <1>1 DEF SyncTypes
  <2>2. SyncTypes'
    BY <1>1, <2>1 DEF SyncTypes, Agents
  <2>3. ASSUME NEW m \in Nodes, Gone(m) PROVE Gone(m)'
    BY <2>1, <2>3 DEF Gone, Creating
  <2> QED
    BY <2>1, <2>2, <2>3, QuietSync
<1>3. CASE UpdateStatus(n)
  <2> USE <1>3 DEF UpdateStatus, Change
  <2>1. SyncTypes'
    BY <1>1 DEF SyncTypes, Agents
  <2>2. ASSUME NEW m \in Nodes, Gone(m) PROVE Gone(m)'
    BY <1>1, <2>2 DEF Gone, Creating, SyncTypes
  <2> QED
    BY <2>1, <2>2, QuietSync
<1>4. CASE InitResource(n) \/ InitVG(n) \/ InitMountPoints(n) \/ ExpandSnapshotLVIfNeeded(n)
  BY <1>4, SyncFrame
     DEF InitResource, InitVG, InitMountPoints, ExpandSnapshotLVIfNeeded, relevant
<1>5. CASE AgentRestart(n)
  <2> USE <1>5 DEF AgentRestart, Change
  <2>1. SyncTypes'
    BY <1>1 DEF SyncTypes, Agents
  <2>2. ASSUME NEW m \in Nodes, Gone(m) PROVE Gone(m)'
    BY <2>2 DEF Gone, Creating
  <2> QED
    BY <2>1, <2>2, QuietSync
<1> QED
  BY <1>2, <1>3, <1>4, <1>5 DEF Agent

\* No step breaks the invariant.
LEMMA SyncStep == SyncInv /\ [Next]_vars => SyncInv'
<1> SUFFICES ASSUME SyncInv, [Next]_vars PROVE SyncInv'
  OBVIOUS
<1>1. CASE UNCHANGED vars
  BY <1>1, SyncFrame DEF vars, relevant
<1> QED
  BY <1>1, ControllerSync, EnvironmentSync, AgentSync DEF Next

\* For any nodes, workers, configurations, hosts and faults: once the controller has
\* handled the deletion of a node, its NLS is gone, unless the deletion came as a
\* tombstone (which deleteNLSByNode returns on, controller.go:439-442), its request
\* failed, the node went while the controller was down, or a worker was about to create
\* the object.  No late work item, stale lister, lost event or late report of the agent
\* adds a case.
THEOREM StorageGoesWithNode == Spec => []NLSGoesWithNode
<1>1. SyncInv => NLSGoesWithNode
  BY DEF SyncInv, NLSGoesWithNode, NodeViews, DeletionsLast, Settled, Gone
<1> QED
  BY <1>1, SyncInit, SyncStep, PTL DEF Spec
=============================================================================
