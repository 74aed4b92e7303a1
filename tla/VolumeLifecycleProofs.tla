----------------------- MODULE VolumeLifecycleProofs ------------------------
(***************************************************************************)
(* Proofs about VolumeLifecycle, for any volumes, snapshots, kinds, sizes  *)
(* and faults.                                                             *)
(***************************************************************************)
EXTENDS VolumeLifecycle, TLAPS

(***************************************************************************)
(* The commands of lvmd.                                                   *)
(***************************************************************************)

\* A command of handler h changes the logical volumes, and pc comes next.
Does(h, pc) ==
    \/ pc = "err" /\ lv' = lv
    \/ h.pc = "lvcreate" /\ pc = "ok" /\ lv[h.name] = 0 /\ lv' = [lv EXCEPT ![h.name] = h.size]
    \/ h.pc = "lvs" /\ pc = "ok" /\ lv[h.name] = 0 /\ lv' = lv
    \/ h.pc = "lvs" /\ pc = "origin" /\ lv' = lv
    \/ h.pc = "origin" /\ pc = "lvremove" /\ lv' = lv /\ \A s \in SnapsOn(h.name) : lv[s] = 0
    \/ /\ h.pc = "lvremove" /\ pc = "ok"
       /\ lv' = [n \in Names |-> IF n \in {h.name} \cup SnapsOn(h.name) THEN 0 ELSE lv[n]]
    \/ h.pc = "clean" /\ pc = "ok" /\ lv' = [lv EXCEPT ![h.name] = 0]
    \/ /\ h.pc = "lvcreate-s" /\ pc = "ok" /\ lv[h.name] = 0 /\ lv[SourceOf[h.name]] > 0
       /\ lv' = [lv EXCEPT ![h.name] = h.size]
    \/ h.pc = "lvs-s" /\ pc = "ok" /\ lv[h.name] = 0 /\ lv' = lv
    \/ h.pc = "lvs-s" /\ pc = "lvremove-s" /\ lv' = lv
    \/ h.pc = "lvremove-s" /\ pc = "ok" /\ lv' = [lv EXCEPT ![h.name] = 0]
    \/ /\ h.pc = "lvextend" /\ pc = "ok" /\ h.size > lv[h.name] /\ lv[h.name] > 0
       /\ lv' = [lv EXCEPT ![h.name] = h.size]

LEMMA RunDoes ==
    ASSUME TypeOK, NEW h, h.name \in Names, h.pc \in LvmdPcs, h.pc \in {"lvcreate-s"} => h.name \in Snaps,
           h.pc \in {"lvs", "origin", "lvremove"} => h.name \in Vols,
           lv' = Run(h).lv
    PROVE  Does(h, Run(h).pc)
  <1>0. \A s \in Snaps : s \in Names /\ lv[s] \in Nat
    BY DEF TypeOK, Names
  <1>1. CASE h.pc = "lvcreate"
    BY <1>1 DEF Run, CreateLV, Refuse, Outcome, Does
  <1>2. CASE h.pc = "lvs"
    BY <1>2 DEF Run, RemoveLV, Refuse, Outcome, Does
  <1>3. CASE h.pc = "origin"
    <2>1. Run(h) = IF \E s \in SnapsOn(h.name) : lv[s] > 0
                   THEN Refuse ELSE Outcome(lv, "lvremove")
      BY <1>3 DEF Run, RemoveLV
    <2>2. CASE \E s \in SnapsOn(h.name) : lv[s] > 0
      BY <2>1, <2>2 DEF Refuse, Outcome, Does
    <2>3. CASE ~\E s \in SnapsOn(h.name) : lv[s] > 0
      <3>1. \A s \in SnapsOn(h.name) : lv[s] = 0
        BY <1>0, <2>3 DEF SnapsOn
      <3> QED BY <1>3, <2>1, <2>3, <3>1 DEF Outcome, Does
    <2> QED BY <2>2, <2>3
  <1>4. CASE h.pc = "lvremove"
    BY <1>4 DEF Run, RemoveLV, Refuse, Outcome, Does
  <1>5. CASE h.pc = "clean"
    BY <1>5 DEF Run, Clean, Outcome, Does
  <1>6. CASE h.pc = "lvcreate-s"
    BY <1>6 DEF Run, CreateSnapshotLV, Refuse, Outcome, Does
  <1>7. CASE h.pc \in {"lvs-s", "lvremove-s"}
    BY <1>7 DEF Run, RemoveSnapshot, Refuse, Outcome, Does
  <1>8. CASE h.pc = "lvextend"
    BY <1>8 DEF Run, ExpandLV, Refuse, Outcome, Does
  <1> QED BY <1>1, <1>2, <1>3, <1>4, <1>5, <1>6, <1>7, <1>8 DEF LvmdPcs

\* Sizes stay within their bound.
LEMMA DoesType ==
    ASSUME TypeOK, NEW h, h.name \in Names, h.size \in 0..MaxSize, NEW pc, Does(h, pc)
    PROVE  lv' \in [Names -> 0..MaxSize] /\ pc \in LvmdPcs \cup {"ok", "err"}
    BY BoundAssumption DEF TypeOK, Does, LvmdPcs

(***************************************************************************)
(* Calls and handlers.                                                     *)
(***************************************************************************)

LEMMA WorkType ==
    ASSUME TypeOK, NEW h \in Work
    PROVE  /\ h.op \in Ops /\ h.name \in Names /\ h.size \in 0..MaxSize
           /\ h.pc \in ServicePcs \cup LvmdPcs
           /\ h \in late => h.pc \in LvmdPcs
           /\ h \in call => h \in Busy /\ h.ro \in BOOLEAN
    BY DEF TypeOK, Work, Busy, Handler

\* The handler of a call is the call without its flag.
LEMMA HandlerIs ==
    ASSUME TypeOK, NEW c \in call, InLvmd(c)
    PROVE  LET h == HandlerOf(c)
           IN  /\ h \in Handler
               /\ h.op = c.op /\ h.name = c.name /\ h.pc = c.pc /\ h.size = c.size
    BY DEF TypeOK, Busy, Handler, HandlerOf, InLvmd

\* A call that moves on stays the same call.
LEMMA GotoIs ==
    ASSUME TypeOK, NEW c \in call, NEW pc \in ServicePcs \cup LvmdPcs, Goto(c, pc)
    PROVE  \E k \in Busy : /\ k.op = c.op /\ k.name = c.name /\ k.pc = pc
                           /\ k.size = c.size /\ k.ro = c.ro
                           /\ call' = (call \ {c}) \cup {k} /\ inFlight' = inFlight
  <1> DEFINE k == [c EXCEPT !.pc = pc]
  <1>1. c \in Busy
    BY DEF TypeOK
  <1>2. /\ k \in Busy /\ k.op = c.op /\ k.name = c.name /\ k.pc = pc
        /\ k.size = c.size /\ k.ro = c.ro
    BY <1>1 DEF Busy
  <1>3. call' = (call \ {c}) \cup {k} /\ inFlight' = inFlight
    BY DEF Goto
  <1> QED BY <1>2, <1>3

\* A new call.
LEMMA BeginIs ==
    ASSUME TypeOK, NEW op \in Ops, NEW n \in Names, NEW pc \in ServicePcs \cup LvmdPcs,
           NEW size \in 0..MaxSize, NEW ro \in BOOLEAN, Begin(op, n, pc, size, ro)
    PROVE  \E k \in Busy : /\ k.op = op /\ k.name = n /\ k.pc = pc
                           /\ k.size = size /\ k.ro = ro
                           /\ call' = call \cup {k}
  <1> DEFINE k == [op |-> op, name |-> n, pc |-> pc, size |-> size, ro |-> ro]
  <1>1. /\ k \in Busy /\ k.op = op /\ k.name = n /\ k.pc = pc /\ k.size = size /\ k.ro = ro
    BY DEF Busy
  <1>2. call' = call \cup {k}
    BY DEF Begin
  <1> QED BY <1>1, <1>2

\* The flag only matters for a creation.
LEMMA BeginPlain ==
    ASSUME TypeOK, NEW op \in Ops, NEW n \in Names, NEW pc \in ServicePcs \cup LvmdPcs,
           NEW size \in 0..MaxSize,
           call' = call \cup {[op |-> op, name |-> n, pc |-> pc, size |-> size, ro |-> FALSE]}
    PROVE  \E k \in Busy : /\ k.op = op /\ k.name = n /\ k.pc = pc /\ k.size = size
                           /\ call' = call \cup {k}
  <1> DEFINE k == [op |-> op, name |-> n, pc |-> pc, size |-> size, ro |-> FALSE]
  <1>1. k \in Busy /\ k.op = op /\ k.name = n /\ k.pc = pc /\ k.size = size
    BY DEF Busy
  <1> QED BY <1>1

\* What Kubernetes knows only moves on.
KubeForward ==
    /\ kind' = kind
    /\ \A v \in Vols :
         /\ \/ pv'[v] = pv[v]
            \/ pv[v] = "none" /\ pv'[v] \in {"live", "released"}
            \/ pv[v] = "live" /\ pv'[v] = "released"
            \/ pv[v] = "released" /\ pv'[v] = "gone"
         /\ pv[v] # "none" /\ attr[v].vg => attr'[v].vg
    /\ \A s \in Snaps :
         \/ content'[s] = content[s]
         \/ content[s] = "none" /\ content'[s] = "asked"
         \/ content[s] = "asked" /\ content'[s] = "ready"
         \/ content[s] \in {"asked", "ready"} /\ content'[s] = "unwanted"
         \/ content[s] = "unwanted" /\ content'[s] = "gone"

\* So what a handler relies on stays.
LEMMA StandsForward ==
    ASSUME LifeInv, KubeForward, NEW h, h.op \in Ops, Program(h), Stands(h)
    PROVE  Program(h)' /\ Stands(h)'
  <1>1. Program(h)'
    BY DEF Program
  <1>2. h.op = "create" /\ h.pc # "source" => kind'[h.name] \in {"lvm", "restored"}
    BY DEF KubeForward, Stands
  <1>3. h.op = "delete" => pv'[h.name] \in {"released", "gone"}
    BY DEF KubeForward, Stands, Program, LifeInv, TypeOK
  <1>4. h.pc = "clean" => kind'[h.name] = "device"
    BY DEF KubeForward, Stands
  <1>5. ASSUME h.pc = "lvremove", h.op = "delete", NEW s \in SnapsOn(h.name)
        PROVE  content'[s] # "ready"
    <2>1. s \in Snaps /\ SourceOf[s] = h.name
      BY DEF SnapsOn
    <2>2. content[s] \notin {"asked", "ready"}
      BY <1>5, <2>1 DEF LifeInv, SnapshotsFollow, Stands
    <2> QED BY <2>1, <2>2 DEF KubeForward
  <1>6. h.op = "snapshot" => content'[h.name] # "none" /\ attr'[SourceOf[h.name]].vg
    <2> SUFFICES ASSUME h.op = "snapshot"
                 PROVE  content'[h.name] # "none" /\ attr'[SourceOf[h.name]].vg
      OBVIOUS
    <2>1. h.name \in Snaps /\ SourceOf[h.name] \in Vols /\ content[h.name] # "none"
      BY SourceAssumption DEF Program, Stands
    <2>2. pv[SourceOf[h.name]] # "none"
      BY <2>1 DEF LifeInv, SnapshotsFollow
    <2> QED BY <2>1, <2>2 DEF KubeForward, Stands
  <1>7. h.op = "dropSnapshot" => content'[h.name] \in {"unwanted", "gone"}
    BY DEF KubeForward, Stands, Program
  <1>8. h.pc = "lvremove" => h.op = "delete"
    BY DEF Program, Ops
  <1> QED BY <1>1, <1>2, <1>3, <1>4, <1>5, <1>6, <1>7, <1>8 DEF Stands, SnapsOn

\* A handler in the next state is one of now, the handler of a call, or a new one.
LEMMA WorkMoves ==
    ASSUME LifeInv, KubeForward,
           \A h \in Work' :
               \/ \E g \in Work : h.op = g.op /\ h.name = g.name /\ h.pc = g.pc /\ h.size = g.size
               \/ h.op \in Ops /\ Program(h) /\ Stands(h)'
    PROVE  WorkStands'
  <1> SUFFICES ASSUME NEW h \in Work'
               PROVE  Program(h) /\ Stands(h)'
    BY DEF WorkStands, Program
  <1>1. CASE \E g \in Work : h.op = g.op /\ h.name = g.name /\ h.pc = g.pc /\ h.size = g.size
    <2>1. PICK g \in Work : h.op = g.op /\ h.name = g.name /\ h.pc = g.pc /\ h.size = g.size
      BY <1>1
    <2>2. g.op \in Ops /\ Program(g) /\ Stands(g)
      BY WorkType DEF LifeInv, WorkStands
    <2>3. h.op \in Ops /\ Program(h) /\ Stands(h)
      BY <2>1, <2>2 DEF Program, Stands
    <2> QED BY <2>3, StandsForward
  <1> QED BY <1>1

\* Calls that end leave the others alone.
LEMMA FewerCalls ==
    ASSUME OneCallPerName, call' \subseteq call,
           \A c \in call' : c.op # "expand" => c.name \in inFlight'
    PROVE  OneCallPerName'
    BY DEF OneCallPerName

LEMMA LeaveTable ==
    ASSUME LifeInv, NEW c \in call, Leave(c)
    PROVE  /\ call' = call \ {c} /\ inFlight' \subseteq inFlight /\ OneCallPerName'
           /\ c.op # "expand" => \A d \in call' : d.op # "expand" => d.name # c.name
    BY FewerCalls DEF LifeInv, OneCallPerName, Leave

LEMMA SameCallTable ==
    ASSUME OneCallPerName, NEW c \in call, NEW k, k.op = c.op, k.name = c.name,
           call' = (call \ {c}) \cup {k}, inFlight' = inFlight
    PROVE  OneCallPerName'
    BY DEF OneCallPerName

LEMMA NewCallTable ==
    ASSUME OneCallPerName, NEW k, call' = call \cup {k},
           \/ k.op # "expand" /\ k.name \notin inFlight /\ inFlight' = inFlight \cup {k.name}
           \/ k.op = "expand" /\ inFlight' = inFlight
    PROVE  OneCallPerName'
    BY DEF OneCallPerName

\* The counter of faults stays below its bound.
LEMMA FaultType ==
    ASSUME faults \in 0..MaxFaults, Fault \/ UNCHANGED faults
    PROVE  faults' \in 0..MaxFaults
    BY BoundAssumption DEF Fault

\* Calls are given up and their handlers go on, or stop: nothing else changes.
LEMMA GiveUp ==
    ASSUME LifeInv, UNCHANGED <<kube, lv>>, call' \subseteq call,
           late' \subseteq late \cup {HandlerOf(c) : c \in {d \in call : InLvmd(d)}},
           inFlight' \subseteq inFlight,
           \A c \in call' : c.op # "expand" => c.name \in inFlight',
           abandoned' \subseteq abandoned \cup {c.name : c \in call},
           Fault \/ UNCHANGED faults
    PROVE  LifeInv'
  <1>1. \A h \in late' : h \in late \/ \E c \in call : InLvmd(c) /\ h = HandlerOf(c)
    OBVIOUS
  <1>2. TypeOK'
    <2>1. late' \subseteq Handler
      BY <1>1, HandlerIs DEF LifeInv, TypeOK
    <2>2. abandoned' \subseteq Names
      BY DEF LifeInv, TypeOK, Busy
    <2>3. faults' \in 0..MaxFaults
      BY FaultType DEF LifeInv, TypeOK
    <2> QED BY <2>1, <2>2, <2>3 DEF LifeInv, TypeOK, kube
  <1>3. WorkStands'
    <2>1. KubeForward
      BY DEF KubeForward, kube
    <2>2. \A h \in Work' :
             \E g \in Work : h.op = g.op /\ h.name = g.name /\ h.pc = g.pc /\ h.size = g.size
      BY <1>1, HandlerIs DEF Work, LifeInv
    <2> QED BY <2>1, <2>2, WorkMoves
  <1>4. OneCallPerName'
    BY FewerCalls DEF LifeInv
  <1>5. CallsCurrent'
    BY DEF LifeInv, CallsCurrent, Current, kube
  <1>6. SnapshotsFollow' /\ VolumesBacked' /\ CapacityBacked'
    BY DEF LifeInv, SnapshotsFollow, VolumesBacked, CapacityBacked, kube
  <1> QED BY <1>2, <1>3, <1>4, <1>5, <1>6 DEF LifeInv

LEMMA FailLife ==
    ASSUME LifeInv, NEW c \in call, Fail(c), UNCHANGED <<kube, lv>>,
           late' \subseteq late \cup {HandlerOf(d) : d \in {e \in call : InLvmd(e)}},
           Fault \/ UNCHANGED faults
    PROVE  LifeInv'
  <1>1. call' = call \ {c} /\ inFlight' \subseteq inFlight /\ OneCallPerName'
    BY LeaveTable DEF Fail
  <1>2. abandoned' \subseteq abandoned \cup {d.name : d \in call}
    BY DEF Fail
  <1> QED BY <1>1, <1>2, GiveUp DEF OneCallPerName

LEMMA FaultsLife ==
    ASSUME LifeInv, Faults \/ \E c \in call : SourceMissing(c)
    PROVE  LifeInv'
  <1>1. ASSUME NEW c \in call, CallFails(c) \/ SourceMissing(c)
        PROVE  LifeInv'
    BY <1>1, FailLife DEF CallFails, SourceMissing
  <1>2. ASSUME NEW c \in call, Timeout(c)
        PROVE  LifeInv'
    BY <1>2, FailLife DEF Timeout
  <1>3. CASE ServiceRestart
    BY <1>3, GiveUp DEF ServiceRestart
  <1>4. CASE LvmdRestart
    <2> DEFINE dead == {c \in call : InLvmd(c)}
    <2>1. /\ call' = call \ dead
          /\ inFlight' = inFlight \ {c.name : c \in {d \in dead : d.op # "expand"}}
          /\ abandoned' = abandoned \cup {c.name : c \in {d \in dead : Asked(d)}}
          /\ late' = {} /\ Fault /\ UNCHANGED <<kube, lv>>
      BY <1>4 DEF LvmdRestart
    <2>2. ASSUME NEW c \in call', c.op # "expand"
          PROVE  c.name \in inFlight'
      BY <2>1, <2>2 DEF LifeInv, OneCallPerName
    <2> QED BY <2>1, <2>2, GiveUp
  <1> QED BY <1>1, <1>2, <1>3, <1>4 DEF Faults

(***************************************************************************)
(* What a command does to volumes and snapshots.                           *)
(***************************************************************************)

LEMMA DoesProgram ==
    ASSUME LifeInv, NEW h \in Work, NEW pc, Does(h, pc)
    PROVE  /\ h.op \in Ops /\ Program(h) /\ Stands(h) /\ h.name \in Names /\ h.size \in 0..MaxSize
           /\ lv \in [Names -> 0..MaxSize] /\ lv' \in [Names -> 0..MaxSize]
           /\ Vols \subseteq Names /\ Snaps \subseteq Names
           /\ \A n \in Names : lv[n] \in Nat /\ lv'[n] \in Nat
  <1>1. /\ h.op \in Ops /\ Program(h) /\ Stands(h) /\ h.name \in Names /\ h.size \in 0..MaxSize
        /\ lv \in [Names -> 0..MaxSize] /\ Vols \subseteq Names /\ Snaps \subseteq Names
    BY WorkType DEF LifeInv, WorkStands, TypeOK, Names
  <1>2. lv' \in [Names -> 0..MaxSize]
    BY <1>1, DoesType DEF LifeInv
  <1> QED BY <1>1, <1>2, BoundAssumption

\* A volume whose claim may use it never shrinks, and only the service creates one.
LEMMA DoesVolumes ==
    ASSUME LifeInv, NEW h \in Work, NEW pc, Does(h, pc), NEW v \in Vols
    PROVE  /\ pv[v] \in {"none", "live"} => lv'[v] >= lv[v]
           /\ lv[v] = 0 /\ lv'[v] > 0 => h.name = v /\ h.pc = "lvcreate"
  <1>0. v \notin Snaps /\ v \in Names
    BY NameAssumption DEF Names
  <1>1. CASE lv'[v] = lv[v]
    BY <1>0, <1>1, DoesProgram
  <1>2. CASE h.pc = "lvcreate" /\ lv[h.name] = 0 /\ lv' = [lv EXCEPT ![h.name] = h.size]
    BY <1>0, <1>2, DoesProgram
  <1>3. CASE h.pc = "lvremove" /\ lv' = [n \in Names |-> IF n \in {h.name} \cup SnapsOn(h.name) THEN 0 ELSE lv[n]]
    <2>1. v \notin SnapsOn(h.name) /\ h.op = "delete"
      BY <1>0, <1>3, DoesProgram DEF SnapsOn, Program, Ops
    <2>2. lv'[v] = IF v = h.name THEN 0 ELSE lv[v]
      BY <1>0, <1>3, <2>1
    <2> QED BY <1>0, <2>1, <2>2, DoesProgram DEF Stands
  <1>4. CASE h.pc = "clean" /\ lv' = [lv EXCEPT ![h.name] = 0]
    <2>1. h.op = "delete"
      BY <1>4, DoesProgram DEF Program, Ops
    <2> QED BY <1>0, <1>4, <2>1, DoesProgram DEF Stands
  <1>5. CASE h.pc \in {"lvcreate-s", "lvremove-s"} /\ \E x : lv' = [lv EXCEPT ![h.name] = x]
    <2>1. h.name \in Snaps
      BY <1>5, DoesProgram DEF Program, Ops
    <2> QED BY <1>0, <1>1, <1>5, <2>1, DoesProgram
  <1>6. CASE h.size > lv[h.name] /\ lv[h.name] > 0 /\ lv' = [lv EXCEPT ![h.name] = h.size]
    BY <1>0, <1>6, DoesProgram
  <1> QED BY <1>1, <1>2, <1>3, <1>4, <1>5, <1>6 DEF Does

\* Snapshots stay with their volumes, and those that are ready stay.
LEMMA DoesSnapshots ==
    ASSUME LifeInv, NEW h \in Work, NEW pc, Does(h, pc), NEW s \in Snaps
    PROVE  /\ content[s] = "ready" => lv'[s] > 0
           /\ lv'[s] > 0 => /\ content[s] # "none" /\ lv'[SourceOf[s]] > 0
                            /\ attr[SourceOf[s]].vg
  <1> DEFINE v == SourceOf[s]
  <1>0. /\ v \in Vols /\ s \notin Vols /\ v \notin Snaps /\ v # s
        /\ s \in Names /\ v \in Names
    BY NameAssumption, SourceAssumption DEF Names
  <1>1. /\ content[s] = "ready" => lv[s] > 0
        /\ lv[s] > 0 => content[s] # "none" /\ lv[v] > 0 /\ attr[v].vg
    BY DEF LifeInv, SnapshotsFollow
  <1>2. CASE lv'[s] = lv[s] /\ lv'[v] >= lv[v]
    BY <1>0, <1>1, <1>2, DoesProgram
  <1>3. CASE h.pc = "lvcreate" /\ lv[h.name] = 0 /\ lv' = [lv EXCEPT ![h.name] = h.size]
    <2>1. h.name \in Vols
      BY <1>3, DoesProgram DEF Program, Ops
    <2> QED BY <1>0, <1>2, <1>3, <2>1, DoesProgram
  <1>4. CASE h.pc = "lvremove" /\ lv' = [n \in Names |-> IF n \in {h.name} \cup SnapsOn(h.name) THEN 0 ELSE lv[n]]
    <2>1. h.name \in Vols /\ h.op = "delete"
      BY <1>4, DoesProgram DEF Program, Ops
    <2>2. CASE v = h.name
      <3>1. s \in SnapsOn(h.name)
        BY <2>2 DEF SnapsOn
      <3> QED BY <1>0, <1>4, <3>1, DoesProgram DEF Stands
    <2>3. CASE v # h.name
      <3>1. s \notin {h.name} \cup SnapsOn(h.name) /\ v \notin {h.name} \cup SnapsOn(h.name)
        BY <1>0, <2>1, <2>3 DEF SnapsOn
      <3> QED BY <1>0, <1>2, <1>4, <3>1, DoesProgram
    <2> QED BY <2>2, <2>3
  <1>5. CASE h.pc = "clean" /\ lv' = [lv EXCEPT ![h.name] = 0]
    <2>1. h.name \in Vols /\ ~attr[h.name].vg
      BY <1>5, DoesProgram DEF Program, Ops, Stands, LifeInv, VolumesBacked
    <2> QED BY <1>0, <1>1, <1>5, <2>1, DoesProgram
  <1>6. CASE /\ h.pc = "lvcreate-s" /\ lv[h.name] = 0 /\ lv[SourceOf[h.name]] > 0
             /\ lv' = [lv EXCEPT ![h.name] = h.size]
    <2>1. h.op = "snapshot" /\ h.name \in Snaps /\ h.size = 1
      BY <1>6, DoesProgram DEF Program, Ops
    <2> QED BY <1>0, <1>1, <1>6, <2>1, DoesProgram DEF Stands
  <1>7. CASE h.pc = "lvremove-s" /\ lv' = [lv EXCEPT ![h.name] = 0]
    <2>1. h.op = "dropSnapshot" /\ h.name \in Snaps
      BY <1>7, DoesProgram DEF Program, Ops
    <2> QED BY <1>0, <1>1, <1>7, <2>1, DoesProgram DEF Stands
  <1>8. CASE /\ h.pc = "lvextend" /\ h.size > lv[h.name] /\ lv[h.name] > 0
             /\ lv' = [lv EXCEPT ![h.name] = h.size]
    <2>1. h.name \in Vols
      BY <1>8, DoesProgram DEF Program, Ops
    <2> QED BY <1>0, <1>2, <1>8, <2>1, DoesProgram
  <1>9. CASE lv' = lv
    BY <1>0, <1>2, <1>9, DoesProgram
  <1> QED BY <1>3, <1>4, <1>5, <1>6, <1>7, <1>8, <1>9 DEF Does

\* The step of a handler that goes on: its next command may run.
LEMMA DoesNext ==
    ASSUME LifeInv, NEW h \in Work, NEW pc, Does(h, pc), pc \notin {"ok", "err"},
           NEW k, k.op = h.op, k.name = h.name, k.size = h.size, k.pc = pc
    PROVE  Program(k) /\ Stands(k) /\ lv' = lv /\ pc \in LvmdPcs
  <1>0. /\ h.op \in Ops /\ Program(h) /\ Stands(h)
        /\ \A n \in Names : lv[n] \in Nat
    BY DoesProgram
  <1>1. CASE h.pc = "origin" /\ pc = "lvremove" /\ lv' = lv /\ \A s \in SnapsOn(h.name) : lv[s] = 0
    <2>1. h.op = "delete"
      BY <1>0, <1>1 DEF Program, Ops
    <2>2. \A s \in SnapsOn(h.name) : content[s] # "ready"
      BY <1>1 DEF SnapsOn, LifeInv, SnapshotsFollow
    <2> QED BY <1>0, <1>1, <2>1, <2>2 DEF Program, Stands, LvmdPcs
  <1>2. CASE h.pc = "lvs" /\ pc = "origin" /\ lv' = lv
    BY <1>0, <1>2 DEF Program, Stands, LvmdPcs, Ops
  <1>3. CASE h.pc = "lvs-s" /\ pc = "lvremove-s" /\ lv' = lv
    BY <1>0, <1>3 DEF Program, Stands, LvmdPcs, Ops
  <1> QED BY <1>1, <1>2, <1>3 DEF Does

(***************************************************************************)
(* The steps of the service and of lvmd preserve LifeInv.                  *)
(***************************************************************************)

\* What every step does to the logical volumes.
LvGood ==
    /\ lv' \in [Names -> 0..MaxSize]
    /\ \A v \in Vols : /\ pv[v] \in {"none", "live"} => lv'[v] >= lv[v]
                       /\ kind[v] \notin {"lvm", "restored"} /\ lv[v] = 0 => lv'[v] = 0
    /\ \A s \in Snaps : /\ content[s] = "ready" => lv'[s] > 0
                        /\ lv'[s] > 0 => /\ content[s] # "none" /\ lv'[SourceOf[s]] > 0
                                         /\ attr[SourceOf[s]].vg

LEMMA DoesGood ==
    ASSUME LifeInv, NEW h \in Work, NEW pc, Does(h, pc)
    PROVE  LvGood
  <1>1. \A v \in Vols : /\ pv[v] \in {"none", "live"} => lv'[v] >= lv[v]
                        /\ lv[v] = 0 /\ lv'[v] > 0 => h.name = v /\ h.pc = "lvcreate"
    BY DoesVolumes
  <1>2. lv' \in [Names -> 0..MaxSize] /\ Stands(h) /\ Vols \subseteq Names
        /\ Program(h) /\ h.op \in Ops
        /\ \A n \in Names : lv'[n] \in Nat
    BY DoesProgram
  <1>3. \A v \in Vols : kind[v] \notin {"lvm", "restored"} /\ lv[v] = 0 => lv'[v] = 0
    BY <1>1, <1>2 DEF Stands, Program, Ops
  <1> QED BY <1>1, <1>2, <1>3, DoesSnapshots DEF LvGood

LEMMA SameGood ==
    ASSUME LifeInv, lv' = lv
    PROVE  LvGood
  <1>1. \A v \in Vols : lv[v] \in Nat
    BY BoundAssumption DEF LifeInv, TypeOK, Names
  <1> QED BY <1>1 DEF LvGood, LifeInv, TypeOK, SnapshotsFollow

\* A call moves on within the service or lvmd.
LEMMA MoveLife ==
    ASSUME LifeInv, LvGood, NEW c \in call, NEW k \in Busy,
           k.op = c.op, k.name = c.name, k.size = c.size, k.ro = c.ro,
           call' = (call \ {c}) \cup {k}, inFlight' = inFlight,
           Program(k), Stands(k), k.pc = "source" => lv'[k.name] > 0,
           UNCHANGED <<kube, late, abandoned, faults>>
    PROVE  LifeInv'
  <1>0. Vols \subseteq Names /\ \A n \in Names : lv[n] \in Nat /\ lv'[n] \in Nat
    BY BoundAssumption DEF LifeInv, TypeOK, Names, LvGood
  <1>1. TypeOK'
    BY DEF LifeInv, TypeOK, LvGood, kube
  <1>2. KubeForward
    BY DEF KubeForward, kube
  <1>3. WorkStands'
    <2>1. Stands(k)' /\ k.op \in Ops
      BY <1>2, StandsForward DEF Busy
    <2>2. \A h \in Work' : h \in Work \/ h = k
      BY DEF Work
    <2> QED BY <1>2, <2>1, <2>2, WorkMoves
  <1>4. OneCallPerName'
    BY SameCallTable DEF LifeInv
  <1>5. CallsCurrent'
    BY DEF LifeInv, CallsCurrent, Current, kube
  <1>6. SnapshotsFollow'
    BY DEF LifeInv, SnapshotsFollow, LvGood, kube
  <1>7. VolumesBacked'
    <2>1. ASSUME NEW d \in call', d.op = "create", d.pc = "source",
                 kind[d.name] = "lvm" \/ (kind[d.name] = "restored" /\ ~d.ro)
          PROVE  lv'[d.name] > 0
      <3>1. CASE d = k
        BY <2>1, <3>1
      <3>2. CASE d \in call
        <4>1. d.name \in Vols /\ pv[d.name] = "none" /\ lv[d.name] > 0
          BY <2>1, <3>2 DEF LifeInv, WorkStands, Work, Program, CallsCurrent, Current, VolumesBacked
        <4> QED BY <1>0, <4>1 DEF LvGood
      <3> QED BY <3>1, <3>2
    <2> QED BY <2>1 DEF LifeInv, VolumesBacked, LvGood, kube
  <1>8. CapacityBacked'
    <2> SUFFICES ASSUME NEW v \in Vols, pv[v] = "live", attr[v].vg, ~attr[v].ro,
                        kind[v] = "framework" => lv'[v] > 0
                 PROVE  lv'[v] >= capacity[v]
      BY DEF CapacityBacked, kube
    <2> QED BY <1>0 DEF LifeInv, CapacityBacked, LvGood, TypeOK
  <1> QED BY <1>1, <1>3, <1>4, <1>5, <1>6, <1>7, <1>8 DEF LifeInv

\* A call succeeds: Kubernetes records its result.
Recorded(c) ==
    \/ /\ c.op = "delete" /\ pv' = [pv EXCEPT ![c.name] = "gone"]
       /\ UNCHANGED <<content, capacity>>
    \/ /\ c.op = "snapshot" /\ lv'[c.name] > 0
       /\ content' = [content EXCEPT ![c.name] = IF @ = "asked" THEN "ready" ELSE @]
       /\ UNCHANGED <<pv, capacity>>
    \/ /\ c.op = "dropSnapshot" /\ content' = [content EXCEPT ![c.name] = "gone"]
       /\ UNCHANGED <<pv, capacity>>
    \/ /\ c.op = "expand" /\ lv'[c.name] = c.size
       /\ capacity' = [capacity EXCEPT ![c.name] = c.size]
       /\ UNCHANGED <<pv, content>>

LEMMA RecordedIs ==
    ASSUME LifeInv, NEW c \in call, Recorded(c)
    PROVE  /\ c.name \in Names /\ c.size \in 0..MaxSize /\ Program(c)
           /\ \A v \in Vols :
                /\ \/ pv'[v] = pv[v]
                   \/ v = c.name /\ c.op = "delete" /\ pv[v] = "released" /\ pv'[v] = "gone"
                /\ \/ capacity'[v] = capacity[v]
                   \/ v = c.name /\ c.op = "expand" /\ capacity'[v] = c.size
           /\ \A s \in Snaps :
                \/ content'[s] = content[s]
                \/ /\ s = c.name /\ c.op = "snapshot" /\ content[s] = "asked"
                   /\ content'[s] = "ready" /\ lv'[s] > 0
                \/ s = c.name /\ c.op = "dropSnapshot" /\ content[s] = "unwanted" /\ content'[s] = "gone"
  <1>1. c \in Work
    BY DEF Work
  <1>2. Program(c) /\ Current(c) /\ c.op \in Ops
    BY <1>1, WorkType DEF LifeInv, WorkStands, CallsCurrent
  <1>3. CASE c.op = "delete"
    BY <1>1, <1>2, <1>3, WorkType DEF Recorded, LifeInv, TypeOK, Current, Program
  <1>4. CASE c.op = "snapshot"
    BY <1>1, <1>2, <1>4, WorkType DEF Recorded, LifeInv, TypeOK, Current, Program
  <1>5. CASE c.op = "dropSnapshot"
    BY <1>1, <1>2, <1>5, WorkType DEF Recorded, LifeInv, TypeOK, Current, Program
  <1>6. CASE c.op = "expand"
    BY <1>1, <1>2, <1>6, WorkType DEF Recorded, LifeInv, TypeOK, Current, Program
  <1> QED BY <1>3, <1>4, <1>5, <1>6 DEF Recorded

LEMMA RecordedLife ==
    ASSUME LifeInv, LvGood, NEW c \in call, Recorded(c), Leave(c),
           UNCHANGED <<kind, claim, want, attr, late, abandoned, faults>>
    PROVE  LifeInv'
  <1>0. Vols \subseteq Names /\ \A n \in Names : lv[n] \in Nat /\ lv'[n] \in Nat
    BY BoundAssumption DEF LifeInv, TypeOK, Names, LvGood
  <1>1. call' = call \ {c} /\ inFlight' \subseteq inFlight /\ OneCallPerName'
        /\ (c.op # "expand" => \A d \in call' : d.op # "expand" => d.name # c.name)
    BY LeaveTable
  <1>2. TypeOK'
    <2>1. pv' \in [Vols -> {"none", "live", "released", "gone"}]
      BY DEF LifeInv, TypeOK, Recorded
    <2>2. capacity' \in [Vols -> 0..MaxSize]
      BY RecordedIs DEF LifeInv, TypeOK, Recorded
    <2>3. content' \in [Snaps -> {"none", "asked", "ready", "unwanted", "gone"}]
      BY DEF LifeInv, TypeOK, Recorded
    <2> QED BY <1>1, <2>1, <2>2, <2>3 DEF LifeInv, TypeOK, LvGood
  <1>3. KubeForward
    BY RecordedIs DEF KubeForward
  <1>4. WorkStands'
    <2>1. \A h \in Work' : h \in Work
      BY <1>1 DEF Work
    <2> QED BY <1>3, <2>1, WorkMoves
  <1>5. CallsCurrent'
    <2> SUFFICES ASSUME NEW d \in call'
                 PROVE  Current(d)'
      BY DEF CallsCurrent
    <2>1. Current(d) /\ Program(d)
      BY <1>1 DEF LifeInv, CallsCurrent, WorkStands, Work
    <2>2. CASE d.op = "expand"
      BY <2>2 DEF Current
    <2>3. CASE d.op # "expand"
      <3>1. d.name # c.name \/ c.op = "expand"
        BY <1>1, <2>3
      <3> QED BY <2>1, <3>1, RecordedIs DEF Current, Program
    <2> QED BY <2>2, <2>3
  <1>6. SnapshotsFollow'
    <2> SUFFICES ASSUME NEW s \in Snaps
                 PROVE  /\ content'[s] # "none" => pv'[SourceOf[s]] # "none"
                        /\ content'[s] = "asked" => pv'[SourceOf[s]] = "live"
                        /\ content'[s] = "ready" => lv'[s] > 0
                        /\ lv'[s] > 0 => /\ content'[s] # "none" /\ lv'[SourceOf[s]] > 0
                                         /\ attr'[SourceOf[s]].vg
      BY DEF SnapshotsFollow
    <2>1. SourceOf[s] \in Vols
      BY SourceAssumption
    <2> QED BY <2>1, RecordedIs DEF LifeInv, SnapshotsFollow, LvGood
  <1>7. VolumesBacked'
    <2>1. ASSUME NEW d \in call', d.op = "create", d.pc = "source",
                 kind[d.name] = "lvm" \/ (kind[d.name] = "restored" /\ ~d.ro)
          PROVE  lv'[d.name] > 0
      <3>1. d.name \in Vols /\ pv[d.name] = "none" /\ lv[d.name] > 0
        BY <1>1, <2>1 DEF LifeInv, WorkStands, Work, Program, CallsCurrent, Current, VolumesBacked
      <3> QED BY <1>0, <3>1 DEF LvGood
    <2> QED BY <2>1, RecordedIs DEF LifeInv, VolumesBacked, LvGood
  <1>8. CapacityBacked'
    <2> SUFFICES ASSUME NEW v \in Vols, pv'[v] = "live", attr[v].vg, ~attr[v].ro,
                        kind[v] = "framework" => lv'[v] > 0
                 PROVE  lv'[v] >= capacity'[v]
      BY DEF CapacityBacked
    <2>1. pv[v] = "live"
      BY RecordedIs
    <2>2. lv'[v] >= capacity[v]
      BY <1>0, <2>1 DEF LifeInv, CapacityBacked, LvGood, TypeOK
    <2> QED BY <1>0, <2>2, RecordedIs DEF Recorded
  <1> QED BY <1>1, <1>2, <1>4, <1>5, <1>6, <1>7, <1>8 DEF LifeInv

\* A command of a handler, as a command of its call.
LEMMA ServeDoes ==
    ASSUME LifeInv, NEW c \in call, Serve(c)
    PROVE  LET pc == Run(HandlerOf(c)).pc
           IN  /\ Does(c, pc)
               /\ pc = "ok" => Answered(c) /\ UNCHANGED abandoned
               /\ pc = "err" => Fail(c) /\ UNCHANGED <<pv, content, capacity>>
               /\ pc \notin {"ok", "err"} =>
                     Goto(c, pc) /\ UNCHANGED <<pv, content, capacity, abandoned>>
  <1> DEFINE h == HandlerOf(c)
  <1>1. InLvmd(c) /\ lv' = Run(h).lv
    BY DEF Serve
  <1>2. h.op = c.op /\ h.name = c.name /\ h.pc = c.pc /\ h.size = c.size
    BY <1>1, HandlerIs DEF LifeInv
  <1>3. c \in Work /\ Program(c) /\ c.op \in Ops /\ c.name \in Names /\ c.pc \in LvmdPcs
    BY <1>1, WorkType DEF Work, LifeInv, WorkStands, InLvmd
  <1>4. /\ c.pc = "lvcreate-s" => c.name \in Snaps
        /\ c.pc \in {"lvs", "origin", "lvremove"} => c.name \in Vols
    BY <1>3 DEF Program, Ops
  <1>5. Does(h, Run(h).pc)
    <2> HIDE DEF h
    <2> QED BY <1>1, <1>2, <1>3, <1>4, RunDoes DEF LifeInv
  <1>6. Does(c, Run(h).pc)
    <2> HIDE DEF h
    <2> QED BY <1>2, <1>5 DEF Does
  <1> QED BY <1>6 DEF Serve

LEMMA AnsweredRecorded ==
    ASSUME LifeInv, NEW c \in call, c.op # "create", Does(c, "ok"), Answered(c)
    PROVE  Recorded(c) /\ Leave(c)
  <1>0. c \in Work
    BY DEF Work
  <1>1. c.op \in Ops /\ Program(c) /\ c.name \in Names /\ lv \in [Names -> 0..MaxSize]
    BY <1>0, DoesProgram
  <1>2. CASE c.op = "delete"
    BY <1>2 DEF Answered, Deleted, Recorded
  <1>3. CASE c.op = "snapshot"
    <2>1. lv'[c.name] > 0
      BY <1>1, <1>3 DEF Does, Program
    <2> QED BY <1>3, <2>1 DEF Answered, Ready, Recorded
  <1>4. CASE c.op = "dropSnapshot"
    BY <1>4 DEF Answered, Dropped, Recorded
  <1>5. CASE c.op = "expand"
    <2>1. lv'[c.name] = c.size
      BY <1>1, <1>5 DEF Does, Program
    <2> QED BY <1>5, <2>1 DEF Answered, Expanded, Recorded
  <1> QED BY <1>1, <1>2, <1>3, <1>4, <1>5 DEF Ops

LEMMA ServeLife ==
    ASSUME LifeInv, NEW c \in call, Serve(c)
    PROVE  LifeInv'
  <1> DEFINE pc == Run(HandlerOf(c)).pc
  <1>0. c \in Work /\ Does(c, pc) /\ LvGood /\ UNCHANGED <<kind, claim, want, attr, late, faults>>
    BY ServeDoes, DoesGood DEF Work, Serve
  <1>1. CASE pc = "err"
    <2>1. lv' = lv /\ Fail(c) /\ UNCHANGED kube
      BY <1>0, <1>1, ServeDoes DEF Does, kube
    <2> QED BY <1>0, <2>1, FailLife
  <1>2. CASE pc = "ok" /\ c.op # "create"
    <2>1. Recorded(c) /\ Leave(c) /\ UNCHANGED abandoned
      BY <1>0, <1>2, ServeDoes, AnsweredRecorded
    <2> QED BY <1>0, <2>1, RecordedLife
  <1>3. CASE pc = "ok" /\ c.op = "create"
    <2>1. Goto(c, "source") /\ UNCHANGED <<pv, content, capacity, abandoned>>
      BY <1>3, ServeDoes DEF Answered
    <2>2. PICK k \in Busy : /\ k.op = c.op /\ k.name = c.name /\ k.pc = "source"
                           /\ k.size = c.size /\ k.ro = c.ro
                           /\ call' = (call \ {c}) \cup {k} /\ inFlight' = inFlight
      BY <2>1, GotoIs DEF LifeInv, ServicePcs
    <2>3. Program(c) /\ Stands(c) /\ c.name \in Names /\ lv \in [Names -> 0..MaxSize]
      BY <1>0, DoesProgram
    <2>4. Program(k) /\ Stands(k)
      BY <1>3, <2>2, <2>3 DEF Program, Stands
    <2>5. lv'[k.name] > 0
      BY <1>0, <1>3, <2>2, <2>3 DEF Does, Program
    <2> QED BY <1>0, <2>1, <2>2, <2>4, <2>5, MoveLife DEF kube
  <1>4. CASE pc \notin {"ok", "err"}
    <2>1. Goto(c, pc) /\ UNCHANGED <<pv, content, capacity, abandoned>>
      BY <1>4, ServeDoes
    <2>2. pc \in LvmdPcs
      BY <1>0, <1>4, DoesProgram, DoesType DEF LifeInv
    <2> HIDE DEF pc
    <2>3. PICK k \in Busy : /\ k.op = c.op /\ k.name = c.name /\ k.pc = pc
                           /\ k.size = c.size /\ k.ro = c.ro
                           /\ call' = (call \ {c}) \cup {k} /\ inFlight' = inFlight
      BY <2>1, <2>2, GotoIs DEF LifeInv
    <2>4. Program(k) /\ Stands(k) /\ k.pc # "source"
      BY <1>0, <1>4, <2>2, <2>3, DoesNext DEF LvmdPcs
    <2> QED BY <1>0, <2>1, <2>3, <2>4, MoveLife DEF kube
  <1> QED BY <1>1, <1>2, <1>3, <1>4

LEMMA ServeLateDoes ==
    ASSUME LifeInv, NEW h \in late, ServeLate(h)
    PROVE  h \in Work /\ Does(h, Run(h).pc)
  <1>1. /\ h \in Work /\ Program(h) /\ h.op \in Ops /\ h.name \in Names /\ h.pc \in LvmdPcs
        /\ h.size \in 0..MaxSize
    BY WorkType DEF Work, LifeInv, WorkStands
  <1>2. /\ h.pc = "lvcreate-s" => h.name \in Snaps
        /\ h.pc \in {"lvs", "origin", "lvremove"} => h.name \in Vols
    BY <1>1 DEF Program, Ops
  <1>3. lv' = Run(h).lv
    BY DEF ServeLate
  <1> QED BY <1>1, <1>2, <1>3, RunDoes DEF LifeInv

LEMMA ServeLateLife ==
    ASSUME LifeInv, NEW h \in late, ServeLate(h)
    PROVE  LifeInv'
  <1> DEFINE pc == Run(h).pc
             k == [h EXCEPT !.pc = pc]
  <1>1. h \in Work /\ Does(h, pc) /\ LvGood
    BY ServeLateDoes, DoesGood
  <1>2. /\ late' = (late \ {h}) \cup (IF pc \in {"ok", "err"} THEN {} ELSE {k})
        /\ UNCHANGED <<kube, inFlight, call, abandoned, faults>>
    BY DEF ServeLate
  <1>3. h \in Handler
    BY DEF LifeInv, TypeOK
  <1>4. ASSUME pc \notin {"ok", "err"}
        PROVE  /\ k \in Handler /\ k.op = h.op /\ k.name = h.name /\ k.size = h.size
               /\ Program(k) /\ Stands(k)
    <2>1. pc \in LvmdPcs
      BY <1>1, <1>4, DoesProgram, DoesType DEF LifeInv
    <2>2. k \in Handler /\ k.op = h.op /\ k.name = h.name /\ k.size = h.size /\ k.pc = pc
      BY <1>3, <2>1 DEF Handler
    <2> HIDE DEF k, pc
    <2> QED BY <1>1, <1>4, <2>2, DoesNext
  <1>5. TypeOK'
    <2>1. late' \subseteq Handler
      BY <1>2, <1>4 DEF LifeInv, TypeOK
    <2> QED BY <1>1, <1>2, <2>1 DEF LifeInv, TypeOK, LvGood, kube
  <1>6. KubeForward
    BY <1>2 DEF KubeForward, kube
  <1>7. WorkStands'
    <2>1. ASSUME NEW g \in Work'
          PROVE  g \in Work \/ (g.op \in Ops /\ Program(g) /\ Stands(g)')
      <3>1. CASE g \in Work
        BY <3>1
      <3>2. CASE g = k /\ pc \notin {"ok", "err"}
        <4>1. g.op \in Ops /\ Program(g) /\ Stands(g)
          BY <1>4, <3>2 DEF Handler
        <4> QED BY <1>6, <4>1, StandsForward
      <3> QED BY <1>2, <3>1, <3>2 DEF Work
    <2> QED BY <1>6, <2>1, WorkMoves
  <1>8. OneCallPerName' /\ CallsCurrent'
    BY <1>2 DEF LifeInv, OneCallPerName, CallsCurrent, Current, kube
  <1>9. SnapshotsFollow'
    BY <1>1, <1>2 DEF LifeInv, SnapshotsFollow, LvGood, kube
  <1>10. Vols \subseteq Names /\ \A n \in Names : lv[n] \in Nat /\ lv'[n] \in Nat
    BY <1>1, BoundAssumption DEF LifeInv, TypeOK, Names, LvGood
  <1>11. VolumesBacked'
    <2>1. ASSUME NEW d \in call, d.op = "create", d.pc = "source",
                 kind[d.name] = "lvm" \/ (kind[d.name] = "restored" /\ ~d.ro)
          PROVE  lv'[d.name] > 0
      <3>1. d.name \in Vols /\ pv[d.name] = "none" /\ lv[d.name] > 0
        BY <2>1 DEF LifeInv, WorkStands, Work, Program, CallsCurrent, Current, VolumesBacked
      <3> QED BY <1>1, <1>10, <3>1 DEF LvGood
    <2> QED BY <1>1, <1>2, <2>1 DEF LifeInv, VolumesBacked, LvGood, kube
  <1>12. CapacityBacked'
    <2> SUFFICES ASSUME NEW v \in Vols, pv[v] = "live", attr[v].vg, ~attr[v].ro,
                        kind[v] = "framework" => lv'[v] > 0
                 PROVE  lv'[v] >= capacity[v]
      BY <1>2 DEF CapacityBacked, kube
    <2> QED BY <1>1, <1>10 DEF LifeInv, CapacityBacked, LvGood, TypeOK
  <1> QED BY <1>5, <1>7, <1>8, <1>9, <1>11, <1>12 DEF LifeInv

\* The steps of the service after its GetVolume.
LEMMA LookupLife ==
    ASSUME LifeInv, NEW c \in call,
           GetLV(c) \/ GetLVToDelete(c) \/ GetSnapshotLV(c) \/ GetSnapshotToDrop(c)
    PROVE  LifeInv'
  <1>0. /\ c \in Work /\ Program(c) /\ Stands(c) /\ c.name \in Names /\ lv[c.name] \in Nat
        /\ lv' = lv /\ LvGood /\ UNCHANGED <<kind, claim, want, attr, late, abandoned, faults>>
    <2>1. c \in Work /\ lv' = lv /\ UNCHANGED <<kind, claim, want, attr, late, abandoned, faults>>
      BY DEF Work, GetLV, GetLVToDelete, GetSnapshotLV, GetSnapshotToDrop, kube
    <2>2. Program(c) /\ Stands(c) /\ c.name \in Names
      BY <2>1, WorkType DEF LifeInv, WorkStands
    <2> QED BY <2>1, <2>2, SameGood, BoundAssumption DEF LifeInv, TypeOK
  <1>1. ASSUME NEW pc \in {"lvs", "lvcreate-s", "lvs-s", "source", "lvcreate"}, Goto(c, pc),
               UNCHANGED <<pv, content, capacity>>, c.pc = "get",
               \/ c.op = "create" /\ pc = "source" /\ lv[c.name] > 0
               \/ c.op = "create" /\ pc = "lvcreate" /\ kind[c.name] \in {"lvm", "restored"}
               \/ c.op = "delete" /\ pc = "lvs"
               \/ c.op = "snapshot" /\ pc = "lvcreate-s"
               \/ c.op = "dropSnapshot" /\ pc = "lvs-s"
        PROVE  LifeInv'
    <2>1. PICK k \in Busy : /\ k.op = c.op /\ k.name = c.name /\ k.pc = pc
                           /\ k.size = c.size /\ k.ro = c.ro
                           /\ call' = (call \ {c}) \cup {k} /\ inFlight' = inFlight
      BY <1>1, GotoIs DEF LifeInv, ServicePcs, LvmdPcs
    <2>2. Program(k) /\ Stands(k) /\ (k.pc = "source" => lv'[k.name] > 0)
      BY <1>0, <1>1, <2>1 DEF Program, Stands
    <2> QED BY <1>0, <1>1, <2>1, <2>2, MoveLife DEF kube
  <1>2. ASSUME Recorded(c), Leave(c)
        PROVE  LifeInv'
    BY <1>0, <1>2, RecordedLife
  <1>3. CASE GetLV(c)
    <2>1. c.op = "create" /\ c.pc = "get" /\ kind[c.name] \in {"lvm", "restored"}
      BY <1>0, <1>3 DEF GetLV, At, Stands
    <2>2. UNCHANGED <<pv, content, capacity>>
      BY <1>3 DEF GetLV, kube
    <2>3. CASE lv[c.name] > 0
      BY <1>1, <1>3, <2>1, <2>2, <2>3 DEF GetLV
    <2>4. CASE ~(lv[c.name] > 0)
      BY <1>1, <1>3, <2>1, <2>2, <2>4 DEF GetLV
    <2> QED BY <2>3, <2>4
  <1>4. CASE GetLVToDelete(c)
    BY <1>0, <1>1, <1>2, <1>4 DEF GetLVToDelete, Deleted, Recorded, At
  <1>5. CASE GetSnapshotLV(c)
    BY <1>0, <1>1, <1>2, <1>5 DEF GetSnapshotLV, Ready, Recorded, At
  <1>6. CASE GetSnapshotToDrop(c)
    BY <1>0, <1>1, <1>2, <1>6 DEF GetSnapshotToDrop, Dropped, Recorded, At
  <1> QED BY <1>3, <1>4, <1>5, <1>6

\* A new call finds in Kubernetes what it needs.
LEMMA EnterLife ==
    ASSUME LifeInv, NEW k \in Busy, call' = call \cup {k},
           Program(k), Stands(k), Current(k),
           \/ k.op # "expand" /\ k.name \notin inFlight /\ inFlight' = inFlight \cup {k.name}
           \/ k.op = "expand" /\ inFlight' = inFlight,
           k.op = "create" /\ k.pc = "source" =>
               kind[k.name] # "lvm" /\ (kind[k.name] = "restored" => k.ro),
           UNCHANGED <<kube, late, lv, abandoned>>, Fault \/ UNCHANGED faults
    PROVE  LifeInv'
  <1>1. TypeOK'
    <2>1. faults' \in 0..MaxFaults
      BY FaultType DEF LifeInv, TypeOK
    <2> QED BY <2>1 DEF LifeInv, TypeOK, kube, Busy
  <1>2. KubeForward
    BY DEF KubeForward, kube
  <1>3. WorkStands'
    <2>1. Stands(k)' /\ k.op \in Ops
      BY <1>2, StandsForward DEF Busy
    <2>2. \A h \in Work' : h \in Work \/ h = k
      BY DEF Work
    <2> QED BY <1>2, <2>1, <2>2, WorkMoves
  <1>4. OneCallPerName'
    BY NewCallTable DEF LifeInv
  <1>5. CallsCurrent'
    BY DEF LifeInv, CallsCurrent, Current, kube
  <1>6. SnapshotsFollow' /\ CapacityBacked'
    BY DEF LifeInv, SnapshotsFollow, CapacityBacked, kube
  <1>7. VolumesBacked'
    BY DEF LifeInv, VolumesBacked, kube
  <1> QED BY <1>1, <1>3, <1>4, <1>5, <1>6, <1>7 DEF LifeInv

\* What CreateVolume starts with.
LEMMA CreateVolumeIs ==
    ASSUME LifeInv, NEW v \in Vols, CreateVolume(v)
    PROVE  \E k \in Busy :
              /\ k.op = "create" /\ k.name = v /\ k.size = 1
              /\ v \notin inFlight /\ inFlight' = inFlight \cup {v} /\ call' = call \cup {k}
              /\ pv[v] = "none" /\ UNCHANGED <<kube, late, lv, abandoned>>
              /\ \/ k.pc = "get" /\ ~k.ro /\ kind[v] \in {"lvm", "restored"}
                 \/ k.pc = "source" /\ kind[v] # "lvm" /\ (kind[v] = "restored" => k.ro)
              /\ Fault \/ UNCHANGED faults
              /\ ~Misreads => (k.ro <=> kind[v] = "restored")
  <1>1. PICK ro \in BOOLEAN :
           /\ IsReadOnlySnapshotPVC2(v, ro)
           /\ Enter("create", v,
                    IF ArchExtender(v) /\ kind[v] # "device" /\ ~ro THEN "get" ELSE "source",
                    want[v], ro)
    BY DEF CreateVolume
  <1> DEFINE pc == IF ArchExtender(v) /\ kind[v] # "device" /\ ~ro THEN "get" ELSE "source"
  <1>2. pv[v] = "none" /\ want[v] = 1 /\ 1 \in 0..MaxSize /\ v \in Names /\ kind[v] \in AllKinds
    BY BoundAssumption DEF CreateVolume, LifeInv, VolumesBacked, Names, TypeOK
  <1>3. v \notin inFlight /\ inFlight' = inFlight \cup {v} /\ Begin("create", v, pc, 1, ro)
    BY <1>1, <1>2 DEF Enter, Insert
  <1>4. PICK k \in Busy : /\ k.op = "create" /\ k.name = v /\ k.pc = pc
                         /\ k.size = 1 /\ k.ro = ro /\ call' = call \cup {k}
    <2>1. pc \in ServicePcs \cup LvmdPcs
      BY DEF ServicePcs
    <2> HIDE DEF pc
    <2> QED BY <1>2, <1>3, <2>1, BeginIs DEF LifeInv, Ops
  <1>5. /\ ro => kind[v] = "restored"
        /\ ~Misreads => (ro <=> kind[v] = "restored")
        /\ Fault \/ UNCHANGED faults
    BY <1>1 DEF IsReadOnlySnapshotPVC2
  <1>6. \/ k.pc = "get" /\ ~k.ro /\ kind[v] \in {"lvm", "restored"}
        \/ k.pc = "source" /\ kind[v] # "lvm" /\ (kind[v] = "restored" => k.ro)
    BY <1>2, <1>4, <1>5 DEF ArchExtender, AllKinds
  <1>7. UNCHANGED <<kube, late, lv, abandoned>>
    BY DEF CreateVolume
  <1> QED BY <1>2, <1>3, <1>4, <1>5, <1>6, <1>7

LEMMA SidecarsLife ==
    ASSUME LifeInv, Sidecars
    PROVE  LifeInv'
  <1>0. Vols \subseteq Names /\ Snaps \subseteq Names /\ 0 \in 0..MaxSize /\ 1 \in 0..MaxSize
    BY BoundAssumption DEF Names
  <1>1. ASSUME NEW v \in Vols, CreateVolume(v)
        PROVE  LifeInv'
    <2>1. PICK k \in Busy :
              /\ k.op = "create" /\ k.name = v /\ k.size = 1
              /\ v \notin inFlight /\ inFlight' = inFlight \cup {v} /\ call' = call \cup {k}
              /\ pv[v] = "none" /\ UNCHANGED <<kube, late, lv, abandoned>>
              /\ \/ k.pc = "get" /\ ~k.ro /\ kind[v] \in {"lvm", "restored"}
                 \/ k.pc = "source" /\ kind[v] # "lvm" /\ (kind[v] = "restored" => k.ro)
              /\ Fault \/ UNCHANGED faults
      BY <1>1, CreateVolumeIs
    <2>2. Program(k) /\ Stands(k) /\ Current(k)
      BY <2>1 DEF Program, Stands, Current
    <2> QED BY <2>1, <2>2, EnterLife
  <1>2. ASSUME NEW v \in Vols, DeleteVolume(v), ~NothingToDelete(v)
        PROVE  LifeInv'
    <2> DEFINE pc == IF kind[v] = "device" THEN "clean" ELSE "get"
    <2>1. /\ pv[v] = "released" /\ Enter("delete", v, pc, 0, FALSE)
          /\ UNCHANGED <<kube, late, lv, abandoned, faults>>
      BY <1>2 DEF DeleteVolume, kube
    <2>2. pc \in ServicePcs \cup LvmdPcs /\ (pc = "clean" => kind[v] = "device") /\ pc \in {"get", "clean"}
      BY DEF ServicePcs, LvmdPcs
    <2> HIDE DEF pc
    <2>3. PICK k \in Busy : /\ k.op = "delete" /\ k.name = v /\ k.pc = pc /\ call' = call \cup {k}
      BY <1>0, <2>1, <2>2, BeginPlain DEF LifeInv, Ops, Begin, Enter
    <2>4. Program(k) /\ Stands(k) /\ Current(k)
      BY <2>1, <2>2, <2>3 DEF Program, Stands, Current
    <2> QED BY <2>1, <2>3, <2>4, EnterLife DEF Enter, Insert
  <1>3. ASSUME NEW v \in Vols, DeleteVolume(v), NothingToDelete(v)
        PROVE  LifeInv'
    <2>1. /\ v \notin inFlight /\ pv[v] = "released" /\ pv' = [pv EXCEPT ![v] = "gone"]
          /\ UNCHANGED <<kind, claim, want, attr, capacity, content, inFlight, call, late, lv,
                         abandoned, faults>>
      BY <1>3 DEF DeleteVolume, Insert
    <2>2. \A w \in Vols : pv'[w] = IF w = v THEN "gone" ELSE pv[w]
      BY <2>1 DEF LifeInv, TypeOK
    <2>3. TypeOK'
      BY <2>1 DEF LifeInv, TypeOK
    <2>4. KubeForward
      BY <2>1, <2>2 DEF KubeForward
    <2>5. WorkStands'
      <3>1. Work' = Work
        BY <2>1 DEF Work
      <3> QED BY <2>4, <3>1, WorkMoves
    <2>6. OneCallPerName'
      BY <2>1 DEF LifeInv, OneCallPerName
    <2>7. CallsCurrent'
      <3> SUFFICES ASSUME NEW c \in call
                   PROVE  Current(c)'
        BY <2>1 DEF CallsCurrent
      <3>1. Program(c) /\ Current(c) /\ (c.op # "expand" => c.name # v)
        BY <2>1 DEF LifeInv, WorkStands, Work, CallsCurrent, OneCallPerName
      <3> QED BY <2>1, <2>2, <3>1 DEF Program, Current
    <2>8. SnapshotsFollow'
      BY <2>1, <2>2, SourceAssumption DEF LifeInv, SnapshotsFollow
    <2>9. VolumesBacked' /\ CapacityBacked'
      BY <2>1, <2>2 DEF LifeInv, VolumesBacked, CapacityBacked
    <2> QED BY <2>3, <2>5, <2>6, <2>7, <2>8, <2>9 DEF LifeInv
  <1>4. ASSUME NEW v \in Vols, ControllerExpandVolume(v)
        PROVE  LifeInv'
    <2>1. want[v] \in 0..MaxSize
      BY BoundAssumption DEF LifeInv, TypeOK
    <2>2. PICK k \in Busy : k.op = "expand" /\ k.name = v /\ k.pc = "lvextend" /\ call' = call \cup {k}
      BY <1>0, <1>4, <2>1, BeginPlain DEF LifeInv, Ops, Begin, LvmdPcs, ControllerExpandVolume
    <2>3. Program(k) /\ Stands(k) /\ Current(k)
      BY <2>2 DEF Program, Stands, Current
    <2> QED BY <1>4, <2>2, <2>3, EnterLife DEF ControllerExpandVolume
  <1>5. ASSUME NEW s \in Snaps, CreateSnapshot(s)
        PROVE  LifeInv'
    <2>1. PICK k \in Busy : /\ k.op = "snapshot" /\ k.name = s /\ k.pc = "get" /\ k.size = 1
                           /\ call' = call \cup {k}
      BY <1>0, <1>5, BeginPlain DEF LifeInv, Ops, Begin, ServicePcs, CreateSnapshot, Enter
    <2>2. Program(k) /\ Stands(k) /\ Current(k)
      BY <1>5, <2>1 DEF CreateSnapshot, Program, Stands, Current
    <2> QED BY <1>5, <2>1, <2>2, EnterLife DEF CreateSnapshot, Enter, Insert
  <1>6. ASSUME NEW s \in Snaps, DeleteSnapshot(s)
        PROVE  LifeInv'
    <2>1. PICK k \in Busy : /\ k.op = "dropSnapshot" /\ k.name = s /\ k.pc = "get"
                           /\ call' = call \cup {k}
      BY <1>0, <1>6, BeginPlain DEF LifeInv, Ops, Begin, ServicePcs, DeleteSnapshot, Enter
    <2>2. Program(k) /\ Stands(k) /\ Current(k)
      BY <1>6, <2>1 DEF DeleteSnapshot, Program, Stands, Current
    <2> QED BY <1>6, <2>1, <2>2, EnterLife DEF DeleteSnapshot, Enter, Insert
  <1> QED BY <1>1, <1>2, <1>3, <1>4, <1>5, <1>6 DEF Sidecars

\* The PersistentVolume that CreateVolume leads to.
LEMMA ProvisionedIs ==
    ASSUME LifeInv, NEW c \in call, Provisioned(c)
    PROVE  /\ c.op = "create" /\ c.pc = "source" /\ c.name \in Vols /\ c.size = 1 /\ c.ro \in BOOLEAN
           /\ pv[c.name] = "none"
           /\ \E ro \in BOOLEAN, st \in {"live", "released"} :
                /\ ro => kind[c.name] = "restored"
                /\ ~Misreads => (ro <=> kind[c.name] = "restored")
                /\ pv' = [pv EXCEPT ![c.name] = st]
                /\ attr' = [attr EXCEPT ![c.name] =
                     [vg |-> ro \/ kind[c.name] = "lvm" \/ (kind[c.name] = "restored" /\ ~c.ro),
                      ro |-> ro]]
                /\ capacity' = [capacity EXCEPT ![c.name] = 1]
           /\ Leave(c) /\ UNCHANGED <<kind, claim, want, content, late, lv, abandoned>>
           /\ Fault \/ UNCHANGED faults
  <1>1. c.op = "create" /\ c.pc = "source"
    BY DEF Provisioned, At
  <1>2. c \in Work /\ c.name \in Vols /\ c.size = 1 /\ c.ro \in BOOLEAN
    BY <1>1, WorkType DEF Work, LifeInv, WorkStands, Program
  <1>3. pv[c.name] = "none"
    BY <1>1 DEF LifeInv, CallsCurrent, Current
  <1>4. PICK ro \in BOOLEAN :
           /\ IsReadOnlySnapshotPVC2(c.name, ro)
           /\ pv' = [pv EXCEPT ![c.name] = IF c.name \in claim THEN "live" ELSE "released"]
           /\ attr' = [attr EXCEPT ![c.name] =
                [vg |-> ro \/ kind[c.name] = "lvm" \/ (kind[c.name] = "restored" /\ ~c.ro),
                 ro |-> ro]]
           /\ capacity' = [capacity EXCEPT ![c.name] = c.size]
    BY DEF Provisioned
  <1>5. \E st \in {"live", "released"} : pv' = [pv EXCEPT ![c.name] = st]
    BY <1>4
  <1>6. /\ ro => kind[c.name] = "restored"
        /\ ~Misreads => (ro <=> kind[c.name] = "restored")
        /\ Fault \/ UNCHANGED faults
    BY <1>4 DEF IsReadOnlySnapshotPVC2
  <1>7. Leave(c) /\ UNCHANGED <<kind, claim, want, content, late, lv, abandoned>>
    BY DEF Provisioned
  <1> QED BY <1>1, <1>2, <1>3, <1>4, <1>5, <1>6, <1>7

LEMMA ProvisionedLife ==
    ASSUME LifeInv, NEW c \in call, Provisioned(c)
    PROVE  LifeInv'
  <1> DEFINE v == c.name
  <1>0. /\ c.op = "create" /\ c.pc = "source" /\ v \in Vols /\ c.ro \in BOOLEAN /\ pv[v] = "none"
        /\ Leave(c) /\ UNCHANGED <<kind, claim, want, content, late, lv, abandoned>>
        /\ Fault \/ UNCHANGED faults
    BY ProvisionedIs
  <1>1. PICK ro \in BOOLEAN, st \in {"live", "released"} :
           /\ ro => kind[v] = "restored"
           /\ pv' = [pv EXCEPT ![v] = st]
           /\ attr' = [attr EXCEPT ![v] =
                [vg |-> ro \/ kind[v] = "lvm" \/ (kind[v] = "restored" /\ ~c.ro), ro |-> ro]]
           /\ capacity' = [capacity EXCEPT ![v] = 1]
    BY ProvisionedIs
  <1>2. \A w \in Vols \ {v} : pv'[w] = pv[w] /\ attr'[w] = attr[w] /\ capacity'[w] = capacity[w]
    BY <1>1 DEF LifeInv, TypeOK
  <1>3. /\ pv'[v] \in {"live", "released"} /\ capacity'[v] = 1
        /\ attr'[v].vg <=> (ro \/ kind[v] = "lvm" \/ (kind[v] = "restored" /\ ~c.ro))
        /\ attr'[v].ro <=> ro
    BY <1>0, <1>1 DEF LifeInv, TypeOK
  <1>4. call' = call \ {c} /\ inFlight' \subseteq inFlight /\ OneCallPerName'
        /\ (\A d \in call' : d.op # "expand" => d.name # v)
    BY <1>0, LeaveTable
  <1>5. TypeOK'
    <2>1. attr' \in [Vols -> Attributes]
      <3> DEFINE vg == ro \/ kind[v] = "lvm" \/ (kind[v] = "restored" /\ ~c.ro)
      <3>1. vg \in BOOLEAN
        OBVIOUS
      <3>2. attr' = [attr EXCEPT ![v] = [vg |-> vg, ro |-> ro]]
        BY <1>1
      <3> HIDE DEF vg
      <3>3. [vg |-> vg, ro |-> ro] \in Attributes
        BY <3>1 DEF Attributes
      <3> QED BY <3>2, <3>3 DEF LifeInv, TypeOK
    <2>2. pv' \in [Vols -> {"none", "live", "released", "gone"}] /\ capacity' \in [Vols -> 0..MaxSize]
      <3>1. 1 \in 0..MaxSize
        BY BoundAssumption
      <3> QED BY <1>1, <3>1 DEF LifeInv, TypeOK
    <2>3. faults' \in 0..MaxFaults
      BY <1>0, FaultType DEF LifeInv, TypeOK
    <2> QED BY <1>0, <1>4, <2>1, <2>2, <2>3 DEF LifeInv, TypeOK
  <1>6. WorkStands'
    <2>1. KubeForward
      BY <1>0, <1>2, <1>3 DEF KubeForward
    <2>2. \A h \in Work' : h \in Work
      BY <1>0, <1>4 DEF Work
    <2> QED BY <2>1, <2>2, WorkMoves
  <1>7. CallsCurrent'
    <2> SUFFICES ASSUME NEW d \in call'
                 PROVE  Current(d)'
      BY DEF CallsCurrent
    <2>1. Program(d) /\ Current(d) /\ (d.op # "expand" => d.name # v)
      BY <1>4 DEF LifeInv, WorkStands, Work, CallsCurrent
    <2> QED BY <1>0, <1>2, <2>1 DEF Program, Current
  <1>8. SnapshotsFollow'
    <2> SUFFICES ASSUME NEW s \in Snaps
                 PROVE  /\ content[s] # "none" => pv'[SourceOf[s]] # "none"
                        /\ content[s] = "asked" => pv'[SourceOf[s]] = "live"
                        /\ content[s] = "ready" => lv[s] > 0
                        /\ lv[s] > 0 => /\ content[s] # "none" /\ lv[SourceOf[s]] > 0
                                        /\ attr'[SourceOf[s]].vg
      BY <1>0 DEF SnapshotsFollow
    <2>1. SourceOf[s] \in Vols
      BY SourceAssumption
    <2> QED BY <1>0, <1>2, <2>1 DEF LifeInv, SnapshotsFollow
  <1>9. VolumesBacked'
    <2>1. \A w \in Vols : kind[w] = "device" => ~attr'[w].vg
      BY <1>1, <1>2, <1>3 DEF LifeInv, VolumesBacked
    <2>2. \A w \in Vols : pv'[w] = "none" => want[w] = 1 /\ ~attr'[w].vg
      BY <1>2, <1>3 DEF LifeInv, VolumesBacked
    <2>3. \A w \in Vols : kind[w] = "framework" /\ ~attr'[w].vg => lv[w] = 0
      BY <1>0, <1>2 DEF LifeInv, VolumesBacked
    <2> QED BY <1>0, <1>4, <2>1, <2>2, <2>3 DEF LifeInv, VolumesBacked
  <1>10. CapacityBacked'
    <2> SUFFICES ASSUME NEW w \in Vols, pv'[w] = "live", attr'[w].vg, ~attr'[w].ro,
                        kind[w] = "framework" => lv[w] > 0
                 PROVE  lv[w] >= capacity'[w]
      BY <1>0 DEF CapacityBacked
    <2>1. CASE w = v
      <3>1. lv[v] > 0
        BY <1>0, <1>3, <2>1 DEF LifeInv, VolumesBacked
      <3>2. lv[v] \in Nat
        BY <1>0, BoundAssumption DEF LifeInv, TypeOK, Names
      <3> QED BY <1>3, <2>1, <3>1, <3>2
    <2>2. CASE w # v
      BY <1>2, <2>2 DEF LifeInv, CapacityBacked
    <2> QED BY <2>1, <2>2
  <1> QED BY <1>4, <1>5, <1>6, <1>7, <1>8, <1>9, <1>10 DEF LifeInv

(***************************************************************************)
(* The steps of Kubernetes preserve LifeInv.                               *)
(***************************************************************************)

\* No call or handler changes: what they rely on follows from KubeForward.
LEMMA KubeLife ==
    ASSUME LifeInv, KubeForward, TypeOK', UNCHANGED <<inFlight, call, late>>,
           \A v \in Vols : pv[v] # pv'[v] => pv[v] = "live",
           \A s \in Snaps : content[s] # content'[s] => content'[s] \in {"asked", "unwanted"},
           SnapshotsFollow', VolumesBacked', CapacityBacked'
    PROVE  LifeInv'
  <1>1. WorkStands'
    <2>1. Work' = Work
      BY DEF Work
    <2> QED BY <2>1, WorkMoves
  <1>2. OneCallPerName'
    BY DEF LifeInv, OneCallPerName
  <1>3. CallsCurrent'
    <2> SUFFICES ASSUME NEW c \in call
                 PROVE  Current(c)'
      BY DEF CallsCurrent
    <2>1. Program(c) /\ Current(c)
      BY DEF LifeInv, WorkStands, Work, CallsCurrent
    <2>2. c.op = "dropSnapshot" => content'[c.name] = "unwanted"
      BY <2>1 DEF Program, Current, KubeForward
    <2> QED BY <2>1, <2>2 DEF Program, Current, KubeForward
  <1> QED BY <1>1, <1>2, <1>3 DEF LifeInv

LEMMA KubernetesLife ==
    ASSUME LifeInv, Kubernetes
    PROVE  LifeInv'
  <1>0. \A v \in Vols : v \in Names /\ lv[v] \in Nat
    BY BoundAssumption DEF LifeInv, TypeOK, Names
  <1>1. ASSUME NEW v \in Vols, DeleteClaim(v)
        PROVE  LifeInv'
    <2>1. /\ \A s \in SnapsOn(v) : content[s] # "asked"
          /\ UNCHANGED <<kind, want, attr, capacity, content, inFlight, call, late, lv, abandoned, faults>>
          /\ \A w \in Vols : \/ pv'[w] = pv[w]
                             \/ w = v /\ pv[w] = "live" /\ pv'[w] = "released"
      BY <1>1 DEF DeleteClaim, LifeInv, TypeOK
    <2>2. TypeOK'
      BY <1>1 DEF DeleteClaim, LifeInv, TypeOK
    <2>3. KubeForward
      BY <2>1 DEF KubeForward
    <2>4. SnapshotsFollow'
      BY <2>1, SourceAssumption DEF LifeInv, SnapshotsFollow, SnapsOn
    <2>5. VolumesBacked' /\ CapacityBacked'
      BY <2>1 DEF LifeInv, VolumesBacked, CapacityBacked
    <2> QED BY <2>1, <2>2, <2>3, <2>4, <2>5, KubeLife
  <1>2. ASSUME NEW v \in Vols, GrowClaim(v)
        PROVE  LifeInv'
    <2>1. /\ UNCHANGED <<kind, claim, pv, attr, capacity, content, inFlight, call, late, lv, abandoned, faults>>
          /\ \A w \in Vols : pv[w] = "none" => want'[w] = want[w]
      BY <1>2 DEF GrowClaim, LifeInv, TypeOK
    <2>2. TypeOK'
      <3>1. want' \in [Vols -> 1..MaxSize]
        BY <1>2, BoundAssumption DEF GrowClaim, LifeInv, TypeOK
      <3> QED BY <2>1, <3>1 DEF LifeInv, TypeOK
    <2>3. KubeForward
      BY <2>1 DEF KubeForward
    <2>4. SnapshotsFollow' /\ VolumesBacked' /\ CapacityBacked'
      BY <2>1 DEF LifeInv, SnapshotsFollow, VolumesBacked, CapacityBacked
    <2> QED BY <2>1, <2>2, <2>3, <2>4, KubeLife
  <1>3. ASSUME NEW v \in Vols, Migrated(v)
        PROVE  LifeInv'
    <2>1. /\ UNCHANGED <<kind, claim, want, pv, capacity, content, inFlight, call, late, lv, abandoned, faults>>
          /\ kind[v] = "framework" /\ pv[v] = "live" /\ ~attr[v].vg
          /\ attr' = [attr EXCEPT ![v].vg = TRUE]
      BY <1>3 DEF Migrated
    <2>2. attr' \in [Vols -> Attributes] /\ attr'[v].vg
          /\ \A w \in Vols \ {v} : attr'[w] = attr[w]
      BY <2>1 DEF LifeInv, TypeOK, Attributes
    <2>3. TypeOK'
      BY <2>1, <2>2 DEF LifeInv, TypeOK
    <2>4. \A w \in Vols : attr[w].vg => attr'[w].vg
      BY <2>2
    <2>5. KubeForward
      BY <2>1, <2>4 DEF KubeForward
    <2>6. SnapshotsFollow'
      BY <2>1, <2>4, SourceAssumption DEF LifeInv, SnapshotsFollow
    <2>7. VolumesBacked'
      BY <2>1, <2>2 DEF LifeInv, VolumesBacked
    <2>8. CapacityBacked'
      <3>1. lv[v] = 0
        BY <2>1 DEF LifeInv, VolumesBacked
      <3> QED BY <2>1, <2>2, <3>1 DEF LifeInv, CapacityBacked
    <2> QED BY <2>1, <2>3, <2>5, <2>6, <2>7, <2>8, KubeLife
  <1>4. ASSUME NEW v \in Vols, NodePublish(v)
        PROVE  LifeInv'
    <2>1. /\ UNCHANGED <<kind, claim, want, pv, attr, capacity, content, inFlight, call, late, abandoned, faults>>
          /\ pv[v] = "live" /\ lv[v] = 0 /\ kind[v] \in {"framework", "device"}
          /\ kind[v] = "framework" => attr[v].vg
          /\ lv' = [lv EXCEPT ![v] = capacity[v]]
      BY <1>4 DEF NodePublish, kube
    <2>2. lv'[v] = capacity[v] /\ capacity[v] \in Nat /\ \A n \in Names \ {v} : lv'[n] = lv[n]
      BY <1>0, <2>1, BoundAssumption DEF LifeInv, TypeOK
    <2>3. TypeOK'
      BY <2>1 DEF LifeInv, TypeOK
    <2>4. KubeForward
      BY <2>1 DEF KubeForward
    <2>5. SnapshotsFollow'
      <3> SUFFICES ASSUME NEW s \in Snaps
                   PROVE  /\ content[s] = "ready" => lv'[s] > 0
                          /\ lv'[s] > 0 => /\ content[s] # "none" /\ lv'[SourceOf[s]] > 0
                                           /\ attr[SourceOf[s]].vg
        BY <2>1 DEF LifeInv, SnapshotsFollow
      <3>1. s \in Names /\ s # v /\ SourceOf[s] \in Vols
        BY NameAssumption, SourceAssumption DEF Names
      <3>2. lv'[s] = lv[s] /\ (lv[s] > 0 => SourceOf[s] # v)
        BY <2>1, <2>2, <3>1 DEF LifeInv, SnapshotsFollow
      <3> QED BY <1>0, <2>2, <3>1, <3>2 DEF LifeInv, SnapshotsFollow
    <2>6. VolumesBacked'
      <3>1. \A c \in call : c.op = "create" => c.name \in Vols \ {v}
        BY <2>1 DEF LifeInv, WorkStands, Work, Program, CallsCurrent, Current
      <3> QED BY <1>0, <2>1, <2>2, <3>1 DEF LifeInv, VolumesBacked
    <2>7. CapacityBacked'
      BY <1>0, <2>1, <2>2 DEF LifeInv, CapacityBacked
    <2> QED BY <2>1, <2>3, <2>4, <2>5, <2>6, <2>7, KubeLife
  <1>5. ASSUME NEW s \in Snaps, AskSnapshot(s) \/ DiscardSnapshot(s)
        PROVE  LifeInv'
    <2>1. /\ UNCHANGED <<kind, claim, want, pv, attr, capacity, inFlight, call, late, lv, abandoned, faults>>
          /\ \A t \in Snaps :
               \/ content'[t] = content[t]
               \/ content[t] = "none" /\ content'[t] = "asked" /\ pv[SourceOf[t]] = "live"
               \/ content[t] \in {"asked", "ready"} /\ content'[t] = "unwanted"
      BY <1>5 DEF AskSnapshot, DiscardSnapshot, LifeInv, TypeOK
    <2>2. TypeOK'
      BY <1>5 DEF AskSnapshot, DiscardSnapshot, LifeInv, TypeOK
    <2>3. KubeForward
      BY <2>1 DEF KubeForward
    <2>4. SnapshotsFollow'
      BY <2>1 DEF LifeInv, SnapshotsFollow
    <2>5. VolumesBacked' /\ CapacityBacked'
      BY <2>1 DEF LifeInv, VolumesBacked, CapacityBacked
    <2> QED BY <2>1, <2>2, <2>3, <2>4, <2>5, KubeLife
  <1> QED BY <1>1, <1>2, <1>3, <1>4, <1>5 DEF Kubernetes

LEMMA LifeInit == Init => LifeInv
  <1> SUFFICES ASSUME Init
               PROVE  LifeInv
    OBVIOUS
  <1>1. TypeOK
    BY KindsAssumption, BoundAssumption DEF Init, TypeOK, Attributes, Names
  <1>2. WorkStands /\ OneCallPerName /\ CallsCurrent
    BY DEF Init, WorkStands, Work, OneCallPerName, CallsCurrent
  <1>3. SnapshotsFollow
    BY DEF Init, SnapshotsFollow, Names
  <1>4. VolumesBacked /\ CapacityBacked
    BY DEF Init, VolumesBacked, CapacityBacked, Names
  <1> QED BY <1>1, <1>2, <1>3, <1>4 DEF LifeInv

LEMMA LifeStutters ==
    ASSUME LifeInv, UNCHANGED vars
    PROVE  LifeInv'
    BY DEF LifeInv, vars, kube, TypeOK, WorkStands, Work, Program, Stands, OneCallPerName,
           CallsCurrent, Current, SnapshotsFollow, VolumesBacked, CapacityBacked

LEMMA LifeNext == LifeInv /\ [Next]_vars => LifeInv'
  <1> SUFFICES ASSUME LifeInv, [Next]_vars
               PROVE  LifeInv'
    OBVIOUS
  <1>1. ASSUME NEW c \in call, Controller(c) \/ Serve(c)
        PROVE  LifeInv'
    BY <1>1, LookupLife, ProvisionedLife, FaultsLife, ServeLife DEF Controller
  <1>2. ASSUME NEW h \in late, ServeLate(h)
        PROVE  LifeInv'
    BY <1>2, ServeLateLife
  <1>3. CASE UNCHANGED vars
    BY <1>3, LifeStutters
  <1> QED BY <1>1, <1>2, <1>3, SidecarsLife, FaultsLife, KubernetesLife DEF Next

\* For any volumes, snapshots, kinds and sizes, and any number of failed, expired and
\* repeated calls: every variable keeps its type, and no handler of lvmd makes a volume
\* larger than a claim asked for.
THEOREM LifecycleTypes == Spec => []TypeOK
  <1>1. LifeInv => TypeOK
    BY DEF LifeInv
  <1> QED BY <1>1, LifeInit, LifeNext, PTL DEF Spec

\* The same for the size of a volume that can be used: the PersistentVolume never
\* states more than the logical volume has.
THEOREM CapacityAlwaysBacked == Spec => []CapacityBacked
  <1>1. LifeInv => CapacityBacked
    BY DEF LifeInv
  <1> QED BY <1>1, LifeInit, LifeNext, PTL DEF Spec

\* A snapshot that was reported ready is on the node with its volume until its deletion
\* is asked for, whatever handlers of given-up calls still do.
THEOREM ReadySnapshotsStay == Spec => []ReadySnapshotUsable
  <1>1. LifeInv => ReadySnapshotUsable
    BY DEF LifeInv, SnapshotsFollow, ReadySnapshotUsable
  <1> QED BY <1>1, LifeInit, LifeNext, PTL DEF Spec

(***************************************************************************)
(* What is gone is removed: RemovalInv, when no read of a VolumeSnapshot   *)
(* fails.                                                                  *)
(***************************************************************************)

\* Only a handler that creates makes a logical volume appear.
LvFew(h) ==
    \A n \in Names : lv[n] = 0 => \/ lv'[n] = 0
                                  \/ /\ n = h.name /\ h.op \in {"create", "snapshot"}
                                     /\ h.pc \in {"lvcreate", "lvcreate-s"}

LEMMA DoesFew ==
    ASSUME LifeInv, NEW h \in Work, NEW pc, Does(h, pc)
    PROVE  /\ LvFew(h)
           /\ h.op \in {"delete", "dropSnapshot"} /\ pc = "ok" => lv'[h.name] = 0
           /\ pc \notin {"ok", "err"} => lv' = lv /\ h.op \notin {"create", "snapshot"}
  <1>0. /\ h.op \in Ops /\ Program(h) /\ h.name \in Names
        /\ lv \in [Names -> 0..MaxSize] /\ \A n \in Names : lv[n] \in Nat
    BY DoesProgram
  <1>1. LvFew(h)
    <2> SUFFICES ASSUME NEW n \in Names, lv[n] = 0, lv'[n] # 0
                 PROVE  n = h.name /\ h.pc \in {"lvcreate", "lvcreate-s"}
      BY <1>0 DEF LvFew, Program, Ops
    <2> QED BY <1>0 DEF Does
  <1>2. h.op \in {"delete", "dropSnapshot"} /\ pc = "ok" => lv'[h.name] = 0
    BY <1>0 DEF Does, Program
  <1>3. pc \notin {"ok", "err"} => lv' = lv /\ h.op \notin {"create", "snapshot"}
    BY <1>0 DEF Does, Program
  <1> QED BY <1>1, <1>2, <1>3

LEMMA SameFew ==
    ASSUME lv' = lv, NEW h
    PROVE  LvFew(h)
    BY DEF LvFew

\* A handler creates the logical volume of an "lvm" volume.
LEMMA FewRestored ==
    ASSUME LifeInv, RemovalInv, NEW h \in Work, LvFew(h), UNCHANGED kind
    PROVE  RestoredHasNoLV'
  <1> SUFFICES ASSUME NEW v \in Vols, kind[v] = "restored"
               PROVE  lv'[v] = 0
    BY DEF RestoredHasNoLV
  <1>1. v \in Names /\ lv[v] = 0 /\ v \notin Snaps
    BY NameAssumption DEF RemovalInv, RestoredHasNoLV, Names
  <1>2. Program(h)
    BY DEF LifeInv, WorkStands
  <1>3. ~(v = h.name /\ h.op = "create" /\ h.pc = "lvcreate")
    BY DEF RemovalInv, ReadsRight
  <1> QED BY <1>1, <1>2, <1>3 DEF LvFew, Program

\* A logical volume that a call creates is not one that is gone.
LEMMA FewCurrent ==
    ASSUME LifeInv, NEW c \in call, LvFew(c)
    PROVE  /\ \A v \in Vols : lv[v] = 0 /\ lv'[v] # 0 => v = c.name /\ c.op = "create" /\ pv[v] = "none"
           /\ \A s \in Snaps : lv[s] = 0 /\ lv'[s] # 0 =>
                 s = c.name /\ c.op = "snapshot" /\ content[s] # "gone"
  <1>1. Program(c) /\ Current(c)
    BY DEF LifeInv, WorkStands, Work, CallsCurrent
  <1>2. \A v \in Vols : v \in Names /\ v \notin Snaps
    BY NameAssumption DEF Names
  <1>3. \A s \in Snaps : s \in Names /\ s \notin Vols
    BY NameAssumption DEF Names
  <1> QED BY <1>1, <1>2, <1>3 DEF LvFew, Program, Current

\* Calls are given up: what they asked for is abandoned.
LEMMA GiveUpRemoval ==
    ASSUME LifeInv, RemovalInv, UNCHANGED <<kube, lv>>, call' \subseteq call,
           \A h \in late' : h \in late \/ \E d \in call \ call' : InLvmd(d) /\ h = HandlerOf(d),
           abandoned \subseteq abandoned',
           \A d \in call \ call' : Asked(d) => d.name \in abandoned'
    PROVE  RemovalInv'
  <1>1. ASSUME NEW h \in late', h \notin late
        PROVE  \E d \in call \ call' : /\ InLvmd(d) /\ h.op = d.op /\ h.name = d.name
                                       /\ h.pc = d.pc /\ Program(d)
    BY <1>1, HandlerIs DEF LifeInv, WorkStands, Work
  <1>2. ReadsRight'
    <2>1. \A h \in Work' : h.op = "create" /\ h.pc # "source" => kind[h.name] = "lvm"
      BY <1>1 DEF RemovalInv, ReadsRight, Work
    <2> QED BY <2>1 DEF RemovalInv, ReadsRight, kube
  <1>3. LateIsAbandoned'
    <2> SUFFICES ASSUME NEW h \in late', h.op \in {"create", "snapshot"}
                 PROVE  h.name \in abandoned'
      BY DEF LateIsAbandoned
    <2>1. CASE h \in late
      BY <2>1 DEF RemovalInv, LateIsAbandoned
    <2>2. CASE h \notin late
      BY <1>1, <2>2 DEF InLvmd, LvmdPcs, Program, Asked
    <2> QED BY <2>1, <2>2
  <1>4. GoneIsRemoved'
    <2>1. ASSUME NEW v \in Vols \ abandoned', pv[v] = "none", lv[v] > 0
          PROVE  \E d \in call' : d.name = v /\ d.op = "create" /\ d.pc = "source"
      <3>1. PICK d \in call : d.name = v /\ d.op = "create" /\ d.pc = "source"
        BY <2>1 DEF RemovalInv, GoneIsRemoved, Answering
      <3> QED BY <2>1, <3>1 DEF Asked
    <2> QED BY <2>1 DEF RemovalInv, GoneIsRemoved, Answering, kube
  <1> QED BY <1>2, <1>3, <1>4 DEF RemovalInv, RestoredHasNoLV, kube

LEMMA FailRemoval ==
    ASSUME LifeInv, RemovalInv, NEW c \in call, Fail(c), UNCHANGED <<kube, lv>>,
           late' = late \/ (InLvmd(c) /\ late' = late \cup {HandlerOf(c)})
    PROVE  RemovalInv'
  <1>1. call' = call \ {c} /\ abandoned \subseteq abandoned' /\ (Asked(c) => c.name \in abandoned')
    BY DEF Fail, Leave
  <1> QED BY <1>1, GiveUpRemoval

LEMMA FaultsRemoval ==
    ASSUME LifeInv, RemovalInv, Faults \/ \E c \in call : SourceMissing(c)
    PROVE  RemovalInv'
  <1>1. ASSUME NEW c \in call, CallFails(c) \/ SourceMissing(c) \/ Timeout(c)
        PROVE  RemovalInv'
    BY <1>1, FailRemoval DEF CallFails, SourceMissing, Timeout
  <1>2. CASE ServiceRestart
    BY <1>2, GiveUpRemoval DEF ServiceRestart
  <1>3. CASE LvmdRestart
    BY <1>3, GiveUpRemoval DEF LvmdRestart
  <1> QED BY <1>1, <1>2, <1>3 DEF Faults

\* A call moves on.
LEMMA MoveRemoval ==
    ASSUME LifeInv, RemovalInv, NEW c \in call, LvFew(c), c.pc # "source", NEW k \in Busy,
           k.op = c.op, k.name = c.name, call' = (call \ {c}) \cup {k},
           k.op = "create" /\ lv'[k.name] # 0 => k.pc = "source",
           UNCHANGED <<kube, late, abandoned>>
    PROVE  RemovalInv'
  <1>0. c \in Work
    BY DEF Work
  <1>1. ReadsRight'
    <2>1. \A h \in Work' : h.op = "create" /\ h.pc # "source" => kind[h.name] = "lvm"
      BY <1>0 DEF RemovalInv, ReadsRight, Work
    <2> QED BY <2>1 DEF RemovalInv, ReadsRight, kube
  <1>2. RestoredHasNoLV'
    BY <1>0, FewRestored DEF kube
  <1>3. LateIsAbandoned'
    BY DEF RemovalInv, LateIsAbandoned
  <1>4. GoneIsRemoved'
    <2>0. Vols \subseteq Names /\ \A n \in Names : lv[n] \in Nat
      BY BoundAssumption DEF LifeInv, TypeOK, Names
    <2>1. ASSUME NEW v \in Vols \ abandoned, pv[v] = "none", lv'[v] > 0
          PROVE  \E d \in call' : d.name = v /\ d.op = "create" /\ d.pc = "source"
      <3>1. CASE lv[v] > 0
        <4>1. PICK d \in call : d.name = v /\ d.op = "create" /\ d.pc = "source"
          BY <2>1, <3>1 DEF RemovalInv, GoneIsRemoved, Answering
        <4> QED BY <4>1
      <3>2. CASE lv[v] = 0
        <4>1. lv'[v] # 0
          BY <2>1
        <4>2. v = c.name /\ c.op = "create"
          BY <3>2, <4>1, FewCurrent
        <4> QED BY <4>1, <4>2
      <3> QED BY <2>0, <3>1, <3>2
    <2>2. \A v \in Vols \ abandoned : pv[v] = "gone" => lv'[v] = 0
      BY FewCurrent DEF RemovalInv, GoneIsRemoved
    <2>3. \A s \in Snaps \ abandoned : content[s] = "gone" => lv'[s] = 0
      BY FewCurrent DEF RemovalInv, GoneIsRemoved
    <2> QED BY <2>1, <2>2, <2>3 DEF GoneIsRemoved, Answering, kube
  <1> QED BY <1>1, <1>2, <1>3, <1>4 DEF RemovalInv

\* A call succeeds: what Kubernetes records as gone was removed.
LEMMA RecordedRemoval ==
    ASSUME LifeInv, RemovalInv, NEW c \in call, LvFew(c), Recorded(c), Leave(c),
           c.op \in {"delete", "dropSnapshot"} => lv'[c.name] = 0,
           UNCHANGED <<kind, attr, late, abandoned>>
    PROVE  RemovalInv'
  <1>0. c \in Work /\ call' = call \ {c} /\ c.op # "create"
    BY DEF Work, Leave, Recorded
  <1>1. ReadsRight'
    <2>1. \A h \in Work' : h.op = "create" /\ h.pc # "source" => kind[h.name] = "lvm"
      BY <1>0 DEF RemovalInv, ReadsRight, Work
    <2>2. \A v \in Vols : pv'[v] # "none" => pv[v] # "none"
      BY RecordedIs
    <2> QED BY <2>1, <2>2 DEF RemovalInv, ReadsRight
  <1>2. RestoredHasNoLV'
    BY <1>0, FewRestored
  <1>3. LateIsAbandoned'
    BY DEF RemovalInv, LateIsAbandoned
  <1>4. GoneIsRemoved'
    <2>0. Vols \subseteq Names /\ \A n \in Names : lv[n] \in Nat
      BY BoundAssumption DEF LifeInv, TypeOK, Names
    <2>1. ASSUME NEW v \in Vols \ abandoned, pv'[v] = "none", lv'[v] > 0
          PROVE  \E d \in call' : d.name = v /\ d.op = "create" /\ d.pc = "source"
      <3>1. pv[v] = "none"
        BY <2>1, RecordedIs
      <3>2. lv[v] # 0
        <4>1. lv'[v] # 0
          BY <2>1
        <4> QED BY <1>0, <4>1, FewCurrent
      <3>3. PICK d \in call : d.name = v /\ d.op = "create" /\ d.pc = "source"
        BY <2>0, <2>1, <3>1, <3>2 DEF RemovalInv, GoneIsRemoved, Answering
      <3> QED BY <1>0, <3>3
    <2>2. \A v \in Vols \ abandoned : pv'[v] = "gone" => lv'[v] = 0
      BY RecordedIs, FewCurrent DEF RemovalInv, GoneIsRemoved
    <2>3. \A s \in Snaps \ abandoned : content'[s] = "gone" => lv'[s] = 0
      BY RecordedIs, FewCurrent DEF RemovalInv, GoneIsRemoved
    <2> QED BY <2>1, <2>2, <2>3 DEF GoneIsRemoved, Answering
  <1> QED BY <1>1, <1>2, <1>3, <1>4 DEF RemovalInv

LEMMA ServeRemoval ==
    ASSUME LifeInv, RemovalInv, NEW c \in call, Serve(c)
    PROVE  RemovalInv'
  <1> DEFINE pc == Run(HandlerOf(c)).pc
  <1>0. /\ c \in Work /\ Does(c, pc) /\ c.pc \in LvmdPcs
        /\ UNCHANGED <<kind, claim, want, attr, late, faults>>
    BY ServeDoes DEF Work, Serve, InLvmd
  <1>1. /\ LvFew(c)
        /\ c.op \in {"delete", "dropSnapshot"} /\ pc = "ok" => lv'[c.name] = 0
        /\ pc \notin {"ok", "err"} => lv' = lv /\ c.op \notin {"create", "snapshot"}
    BY <1>0, DoesFew
  <1>2. c.pc # "source"
    BY <1>0 DEF LvmdPcs
  <1>3. CASE pc = "err"
    <2>1. lv' = lv /\ Fail(c) /\ UNCHANGED kube
      BY <1>0, <1>3, ServeDoes DEF Does, kube
    <2> QED BY <1>0, <2>1, FailRemoval
  <1>4. CASE pc = "ok" /\ c.op # "create"
    <2>1. Recorded(c) /\ Leave(c) /\ UNCHANGED abandoned
      BY <1>0, <1>4, ServeDoes, AnsweredRecorded
    <2> QED BY <1>0, <1>1, <1>4, <2>1, RecordedRemoval
  <1>5. CASE pc = "ok" /\ c.op = "create"
    <2>1. Goto(c, "source") /\ UNCHANGED <<pv, content, capacity, abandoned>>
      BY <1>5, ServeDoes DEF Answered
    <2>2. PICK k \in Busy : /\ k.op = c.op /\ k.name = c.name /\ k.pc = "source"
                           /\ call' = (call \ {c}) \cup {k}
      BY <2>1, GotoIs DEF LifeInv, ServicePcs
    <2> QED BY <1>0, <1>1, <1>2, <2>1, <2>2, MoveRemoval DEF kube
  <1>6. CASE pc \notin {"ok", "err"}
    <2>1. Goto(c, pc) /\ UNCHANGED <<pv, content, capacity, abandoned>>
      BY <1>6, ServeDoes
    <2>2. pc \in LvmdPcs
      BY <1>0, <1>6, DoesProgram, DoesType DEF LifeInv
    <2> HIDE DEF pc
    <2>3. PICK k \in Busy : /\ k.op = c.op /\ k.name = c.name /\ k.pc = pc
                           /\ call' = (call \ {c}) \cup {k}
      BY <2>1, <2>2, GotoIs DEF LifeInv
    <2> QED BY <1>0, <1>1, <1>2, <1>6, <2>1, <2>3, MoveRemoval DEF kube
  <1> QED BY <1>3, <1>4, <1>5, <1>6

LEMMA LookupRemoval ==
    ASSUME LifeInv, RemovalInv, NEW c \in call,
           GetLV(c) \/ GetLVToDelete(c) \/ GetSnapshotLV(c) \/ GetSnapshotToDrop(c)
    PROVE  RemovalInv'
  <1>0. /\ c \in Work /\ Program(c) /\ c.name \in Names /\ lv[c.name] \in Nat
        /\ lv' = lv /\ LvFew(c) /\ UNCHANGED <<kind, claim, want, attr, late, abandoned, faults>>
    <2>1. c \in Work /\ lv' = lv /\ UNCHANGED <<kind, claim, want, attr, late, abandoned, faults>>
      BY DEF Work, GetLV, GetLVToDelete, GetSnapshotLV, GetSnapshotToDrop, kube
    <2>2. Program(c) /\ c.name \in Names
      BY <2>1, WorkType DEF LifeInv, WorkStands
    <2> QED BY <2>1, <2>2, SameFew, BoundAssumption DEF LifeInv, TypeOK
  <1>1. ASSUME NEW pc \in {"lvs", "lvcreate-s", "lvs-s", "source", "lvcreate"}, Goto(c, pc),
               UNCHANGED <<pv, content, capacity>>, c.pc = "get",
               c.op = "create" /\ lv[c.name] # 0 => pc = "source"
        PROVE  RemovalInv'
    <2>1. PICK k \in Busy : /\ k.op = c.op /\ k.name = c.name /\ k.pc = pc
                           /\ call' = (call \ {c}) \cup {k}
      BY <1>1, GotoIs DEF LifeInv, ServicePcs, LvmdPcs
    <2> QED BY <1>0, <1>1, <2>1, MoveRemoval DEF kube
  <1>2. ASSUME Recorded(c), Leave(c), c.op \in {"delete", "dropSnapshot"} => lv[c.name] = 0
        PROVE  RemovalInv'
    BY <1>0, <1>2, RecordedRemoval
  <1>3. CASE GetLV(c)
    <2>1. c.pc = "get" /\ UNCHANGED <<pv, content, capacity>>
      BY <1>3 DEF GetLV, At, kube
    <2>2. CASE lv[c.name] > 0
      BY <1>1, <1>3, <2>1, <2>2 DEF GetLV
    <2>3. CASE ~(lv[c.name] > 0)
      BY <1>0, <1>1, <1>3, <2>1, <2>3 DEF GetLV
    <2> QED BY <2>2, <2>3
  <1>4. CASE GetLVToDelete(c)
    BY <1>0, <1>1, <1>2, <1>4 DEF GetLVToDelete, Deleted, Recorded, At
  <1>5. CASE GetSnapshotLV(c)
    BY <1>0, <1>1, <1>2, <1>5 DEF GetSnapshotLV, Ready, Recorded, At
  <1>6. CASE GetSnapshotToDrop(c)
    BY <1>0, <1>1, <1>2, <1>6 DEF GetSnapshotToDrop, Dropped, Recorded, At
  <1> QED BY <1>3, <1>4, <1>5, <1>6

\* What a handler nobody waits for creates is abandoned already.
LEMMA ServeLateRemoval ==
    ASSUME LifeInv, RemovalInv, NEW h \in late, ServeLate(h)
    PROVE  RemovalInv'
  <1> DEFINE pc == Run(h).pc
             k == [h EXCEPT !.pc = pc]
  <1>0. h \in Work /\ Does(h, pc) /\ h \in Handler /\ Program(h)
    BY ServeLateDoes DEF LifeInv, TypeOK, WorkStands
  <1>1. /\ late' = (late \ {h}) \cup (IF pc \in {"ok", "err"} THEN {} ELSE {k})
        /\ UNCHANGED <<kube, inFlight, call, abandoned, faults>>
    BY DEF ServeLate
  <1>2. LvFew(h) /\ (pc \notin {"ok", "err"} => h.op \notin {"create", "snapshot"})
    BY <1>0, DoesFew
  <1>3. k.op = h.op
    BY <1>0 DEF Handler
  <1> HIDE DEF pc, k
  <1>4. ReadsRight'
    <2>1. \A g \in Work' : g.op = "create" /\ g.pc # "source" => kind[g.name] = "lvm"
      BY <1>1, <1>2, <1>3 DEF RemovalInv, ReadsRight, Work
    <2> QED BY <1>1, <2>1 DEF RemovalInv, ReadsRight, kube
  <1>5. RestoredHasNoLV'
    BY <1>0, <1>1, <1>2, FewRestored DEF kube
  <1>6. LateIsAbandoned'
    BY <1>1, <1>2, <1>3 DEF RemovalInv, LateIsAbandoned
  <1>7. GoneIsRemoved'
    <2>1. \A n \in Names \ abandoned : lv[n] = 0 => lv'[n] = 0
      BY <1>2 DEF LvFew, RemovalInv, LateIsAbandoned
    <2>2. \A n \in Names : lv[n] \in Nat
      BY BoundAssumption DEF LifeInv, TypeOK
    <2>3. ASSUME NEW v \in Vols \ abandoned, pv[v] = "none", lv'[v] > 0
          PROVE  Answering(v)
      <3>1. v \in Names /\ lv'[v] # 0
        BY <2>3 DEF Names
      <3> QED BY <2>1, <2>2, <2>3, <3>1 DEF RemovalInv, GoneIsRemoved
    <2> QED BY <1>1, <2>1, <2>3 DEF RemovalInv, GoneIsRemoved, Answering, Names, kube
  <1> QED BY <1>4, <1>5, <1>6, <1>7 DEF RemovalInv

LEMMA EnterRemoval ==
    ASSUME LifeInv, RemovalInv, NEW k, call' = call \cup {k},
           k.op = "create" /\ k.pc # "source" => kind[k.name] = "lvm",
           UNCHANGED <<kube, late, lv, abandoned>>
    PROVE  RemovalInv'
  <1>1. \A h \in Work' : h.op = "create" /\ h.pc # "source" => kind[h.name] = "lvm"
    BY DEF RemovalInv, ReadsRight, Work
  <1>2. \A v \in Vols : Answering(v) => Answering(v)'
    BY DEF Answering
  <1> QED BY <1>1, <1>2 DEF RemovalInv, ReadsRight, RestoredHasNoLV, LateIsAbandoned, GoneIsRemoved, kube

\* DeleteVolume answers without lvmd only for a volume that has no logical volume.
LEMMA NothingToDeleteRight ==
    ASSUME LifeInv, RemovalInv, NEW v \in Vols, pv[v] # "none", NothingToDelete(v)
    PROVE  lv[v] = 0
  <1>1. kind[v] \in AllKinds
    BY DEF LifeInv, TypeOK
  <1> QED BY <1>1 DEF NothingToDelete, RemovalInv, ReadsRight, RestoredHasNoLV, LifeInv,
                      VolumesBacked, AllKinds

LEMMA SidecarsRemoval ==
    ASSUME LifeInv, RemovalInv, ~Misreads, Sidecars
    PROVE  RemovalInv'
  <1>1. ASSUME NEW v \in Vols, CreateVolume(v)
        PROVE  RemovalInv'
    <2>1. PICK k \in Busy :
              /\ k.op = "create" /\ k.name = v /\ call' = call \cup {k}
              /\ UNCHANGED <<kube, late, lv, abandoned>>
              /\ \/ k.pc = "get" /\ ~k.ro /\ kind[v] \in {"lvm", "restored"}
                 \/ k.pc = "source"
              /\ k.ro <=> kind[v] = "restored"
      BY <1>1, CreateVolumeIs
    <2> QED BY <2>1, EnterRemoval
  <1>2. ASSUME NEW v \in Vols, DeleteVolume(v), ~NothingToDelete(v)
        PROVE  RemovalInv'
    <2> DEFINE k == [op |-> "delete", name |-> v, pc |-> IF kind[v] = "device" THEN "clean" ELSE "get",
                     size |-> 0, ro |-> FALSE]
    <2>1. call' = call \cup {k} /\ UNCHANGED <<kube, late, lv, abandoned>> /\ k.op = "delete"
      BY <1>2 DEF DeleteVolume, Enter, Begin, kube
    <2> HIDE DEF k
    <2> QED BY <2>1, EnterRemoval
  <1>3. ASSUME NEW v \in Vols, DeleteVolume(v), NothingToDelete(v)
        PROVE  RemovalInv'
    <2>1. /\ pv[v] = "released" /\ pv' = [pv EXCEPT ![v] = "gone"] /\ lv[v] = 0
          /\ UNCHANGED <<kind, claim, want, attr, capacity, content, inFlight, call, late, lv,
                         abandoned, faults>>
      BY <1>3, NothingToDeleteRight DEF DeleteVolume
    <2>2. \A w \in Vols : pv'[w] = IF w = v THEN "gone" ELSE pv[w]
      BY <2>1 DEF LifeInv, TypeOK
    <2>3. ReadsRight' /\ RestoredHasNoLV' /\ LateIsAbandoned'
      BY <2>1, <2>2 DEF RemovalInv, ReadsRight, RestoredHasNoLV, LateIsAbandoned, Work
    <2>4. GoneIsRemoved'
      BY <2>1, <2>2 DEF RemovalInv, GoneIsRemoved, Answering
    <2> QED BY <2>3, <2>4 DEF RemovalInv
  <1>4. ASSUME NEW v \in Vols, ControllerExpandVolume(v)
        PROVE  RemovalInv'
    <2> DEFINE k == [op |-> "expand", name |-> v, pc |-> "lvextend", size |-> want[v], ro |-> FALSE]
    <2>1. call' = call \cup {k} /\ UNCHANGED <<kube, late, lv, abandoned>> /\ k.op = "expand"
      BY <1>4 DEF ControllerExpandVolume, Begin
    <2> HIDE DEF k
    <2> QED BY <2>1, EnterRemoval
  <1>5. ASSUME NEW s \in Snaps, CreateSnapshot(s)
        PROVE  RemovalInv'
    <2> DEFINE k == [op |-> "snapshot", name |-> s, pc |-> "get", size |-> 1, ro |-> FALSE]
    <2>1. call' = call \cup {k} /\ UNCHANGED <<kube, late, lv, abandoned>> /\ k.op = "snapshot"
      BY <1>5 DEF CreateSnapshot, Enter, Begin
    <2> HIDE DEF k
    <2> QED BY <2>1, EnterRemoval
  <1>6. ASSUME NEW s \in Snaps, DeleteSnapshot(s)
        PROVE  RemovalInv'
    <2> DEFINE k == [op |-> "dropSnapshot", name |-> s, pc |-> "get", size |-> 0, ro |-> FALSE]
    <2>1. call' = call \cup {k} /\ UNCHANGED <<kube, late, lv, abandoned>> /\ k.op = "dropSnapshot"
      BY <1>6 DEF DeleteSnapshot, Enter, Begin
    <2> HIDE DEF k
    <2> QED BY <2>1, EnterRemoval
  <1> QED BY <1>1, <1>2, <1>3, <1>4, <1>5, <1>6 DEF Sidecars

LEMMA ProvisionedRemoval ==
    ASSUME LifeInv, RemovalInv, ~Misreads, NEW c \in call, Provisioned(c)
    PROVE  RemovalInv'
  <1> DEFINE v == c.name
  <1>0. /\ c.op = "create" /\ v \in Vols /\ pv[v] = "none" /\ call' = call \ {c}
        /\ UNCHANGED <<kind, claim, want, content, late, lv, abandoned>>
    BY ProvisionedIs DEF Leave
  <1>1. PICK ro \in BOOLEAN, st \in {"live", "released"} :
           /\ ro <=> kind[v] = "restored"
           /\ pv' = [pv EXCEPT ![v] = st]
           /\ attr' = [attr EXCEPT ![v] =
                [vg |-> ro \/ kind[v] = "lvm" \/ (kind[v] = "restored" /\ ~c.ro), ro |-> ro]]
    BY ProvisionedIs
  <1>2. \A w \in Vols \ {v} : pv'[w] = pv[w] /\ attr'[w] = attr[w]
    BY <1>1 DEF LifeInv, TypeOK
  <1>3. /\ pv'[v] \in {"live", "released"}
        /\ attr'[v].ro => kind[v] = "restored"
        /\ kind[v] = "lvm" => attr'[v].vg
    BY <1>0, <1>1 DEF LifeInv, TypeOK
  <1>4. ReadsRight'
    <2>1. \A h \in Work' : h \in Work
      BY <1>0 DEF Work
    <2> QED BY <1>0, <1>2, <1>3, <2>1 DEF RemovalInv, ReadsRight
  <1>5. RestoredHasNoLV' /\ LateIsAbandoned'
    BY <1>0 DEF RemovalInv, RestoredHasNoLV, LateIsAbandoned
  <1>6. GoneIsRemoved'
    <2>1. ASSUME NEW w \in Vols \ abandoned, pv'[w] = "none", lv[w] > 0
          PROVE  \E d \in call' : d.name = w /\ d.op = "create" /\ d.pc = "source"
      <3>1. w # v /\ pv[w] = "none"
        BY <1>2, <1>3, <2>1
      <3>2. PICK d \in call : d.name = w /\ d.op = "create" /\ d.pc = "source"
        BY <2>1, <3>1 DEF RemovalInv, GoneIsRemoved, Answering
      <3> QED BY <1>0, <3>1, <3>2
    <2>2. \A w \in Vols : pv'[w] = "gone" => pv[w] = "gone"
      BY <1>2, <1>3
    <2> QED BY <1>0, <2>1, <2>2 DEF RemovalInv, GoneIsRemoved, Answering
  <1> QED BY <1>4, <1>5, <1>6 DEF RemovalInv

LEMMA KubernetesRemoval ==
    ASSUME LifeInv, RemovalInv, Kubernetes
    PROVE  RemovalInv'
  <1>1. ASSUME NEW v \in Vols, DeleteClaim(v) \/ GrowClaim(v)
        PROVE  RemovalInv'
    <2>1. /\ UNCHANGED <<kind, attr, content, call, late, lv, abandoned>>
          /\ \A w \in Vols : pv'[w] = pv[w] \/ (pv[w] = "live" /\ pv'[w] = "released")
      BY <1>1 DEF DeleteClaim, GrowClaim, LifeInv, TypeOK
    <2>2. ReadsRight' /\ RestoredHasNoLV' /\ LateIsAbandoned'
      BY <2>1 DEF RemovalInv, ReadsRight, RestoredHasNoLV, LateIsAbandoned, Work
    <2>3. GoneIsRemoved'
      BY <2>1 DEF RemovalInv, GoneIsRemoved, Answering
    <2> QED BY <2>2, <2>3 DEF RemovalInv
  <1>2. ASSUME NEW v \in Vols, Migrated(v)
        PROVE  RemovalInv'
    <2>1. /\ UNCHANGED <<kind, pv, content, call, late, lv, abandoned>>
          /\ attr' = [attr EXCEPT ![v].vg = TRUE]
      BY <1>2 DEF Migrated
    <2>2. \A w \in Vols : (attr'[w].ro <=> attr[w].ro) /\ (attr[w].vg => attr'[w].vg)
      BY <2>1 DEF LifeInv, TypeOK, Attributes
    <2>3. ReadsRight' /\ RestoredHasNoLV' /\ LateIsAbandoned' /\ GoneIsRemoved'
      BY <2>1, <2>2 DEF RemovalInv, ReadsRight, RestoredHasNoLV, LateIsAbandoned, Work,
                        GoneIsRemoved, Answering
    <2> QED BY <2>3 DEF RemovalInv
  <1>3. ASSUME NEW v \in Vols, NodePublish(v)
        PROVE  RemovalInv'
    <2>1. /\ UNCHANGED <<kind, pv, attr, content, call, late, abandoned>>
          /\ pv[v] = "live" /\ kind[v] # "restored"
          /\ \A n \in Names \ {v} : lv'[n] = lv[n]
      BY <1>3 DEF NodePublish, kube, LifeInv, TypeOK
    <2>2. Vols \subseteq Names /\ \A s \in Snaps : s \in Names \ {v}
      BY NameAssumption DEF Names
    <2>3. ReadsRight' /\ RestoredHasNoLV' /\ LateIsAbandoned'
      BY <2>1, <2>2 DEF RemovalInv, ReadsRight, RestoredHasNoLV, LateIsAbandoned, Work
    <2>4. GoneIsRemoved'
      BY <2>1, <2>2 DEF RemovalInv, GoneIsRemoved, Answering
    <2> QED BY <2>3, <2>4 DEF RemovalInv
  <1>4. ASSUME NEW s \in Snaps, AskSnapshot(s) \/ DiscardSnapshot(s)
        PROVE  RemovalInv'
    <2>1. /\ UNCHANGED <<kind, pv, attr, call, late, lv, abandoned>>
          /\ \A t \in Snaps : content'[t] = content[t] \/ content'[t] \in {"asked", "unwanted"}
      BY <1>4 DEF AskSnapshot, DiscardSnapshot, LifeInv, TypeOK
    <2>2. ReadsRight' /\ RestoredHasNoLV' /\ LateIsAbandoned'
      BY <2>1 DEF RemovalInv, ReadsRight, RestoredHasNoLV, LateIsAbandoned, Work
    <2>3. GoneIsRemoved'
      BY <2>1 DEF RemovalInv, GoneIsRemoved, Answering
    <2> QED BY <2>2, <2>3 DEF RemovalInv
  <1> QED BY <1>1, <1>2, <1>3, <1>4 DEF Kubernetes

LEMMA RemovalInit == Init => RemovalInv
    BY DEF Init, RemovalInv, ReadsRight, RestoredHasNoLV, LateIsAbandoned, GoneIsRemoved, Work, Names

LEMMA RemovalNext == ~Misreads /\ LifeInv /\ RemovalInv /\ [Next]_vars => RemovalInv'
  <1> SUFFICES ASSUME ~Misreads, LifeInv, RemovalInv, [Next]_vars
               PROVE  RemovalInv'
    OBVIOUS
  <1>1. ASSUME NEW c \in call, Controller(c) \/ Serve(c)
        PROVE  RemovalInv'
    BY <1>1, LookupRemoval, ProvisionedRemoval, FaultsRemoval, ServeRemoval DEF Controller
  <1>2. ASSUME NEW h \in late, ServeLate(h)
        PROVE  RemovalInv'
    BY <1>2, ServeLateRemoval
  <1>3. CASE UNCHANGED vars
    BY <1>3 DEF vars, kube, RemovalInv, ReadsRight, RestoredHasNoLV, LateIsAbandoned,
                GoneIsRemoved, Answering, Work
  <1> QED BY <1>1, <1>2, <1>3, SidecarsRemoval, FaultsRemoval, KubernetesRemoval DEF Next

\* When no read of a VolumeSnapshot fails: once Kubernetes has nothing of a volume or a
\* snapshot any more, the node has nothing of it either, unless a call that asked for it
\* failed, whatever calls expired, were repeated or went on in lvmd.
THEOREM DeletionLeavesNothing == ~Misreads => (Spec => []DeletedLeavesNothing)
  <1> SUFFICES ASSUME ~Misreads
               PROVE  Spec => []DeletedLeavesNothing
    OBVIOUS
  <1>1. LifeInv /\ RemovalInv => DeletedLeavesNothing
    <2> SUFFICES ASSUME LifeInv, RemovalInv
                 PROVE  DeletedLeavesNothing
      OBVIOUS
    <2>1. \A v \in Vols : lv[v] \in Nat
      BY BoundAssumption DEF LifeInv, TypeOK, Names
    <2> QED BY <2>1 DEF RemovalInv, GoneIsRemoved, Answering, DeletedLeavesNothing
  <1>2. LifeInv /\ RemovalInv /\ [Next]_vars => LifeInv' /\ RemovalInv'
    BY LifeNext, RemovalNext
  <1> QED BY <1>1, <1>2, LifeInit, RemovalInit, PTL DEF Spec

(***************************************************************************)
(* The refinement of VolumeStore: every step of the service, of lvmd and   *)
(* of Kubernetes is a step of the store, or changes nothing of it.         *)
(***************************************************************************)
Held == {s \in Snaps : lv[s] > 0}

LEMMA StoreStutters ==
    ASSUME UNCHANGED <<pv, content>>, Held' = Held
    PROVE  UNCHANGED Store!vars
    BY DEF Store!vars, Held

\* The commands of lvmd that take or drop snapshots, answered or not.
LEMMA StoreTakes ==
    ASSUME NEW s \in Snaps, UNCHANGED <<pv, content>>, Held' = Held \cup {s}
    PROVE  Store!Next
  <1>1. Store!Take(s)
    BY DEF Store!Take, Held
  <1> QED BY <1>1 DEF Store!Next

LEMMA StoreDrops ==
    ASSUME LifeInv', UNCHANGED <<pv, content>>, Held' \subseteq Held
    PROVE  Store!Next
  <1>0. PICK S \in SUBSET Snaps : S = Held \ Held'
    BY DEF Held
  <1>1. \A s \in S : content[s] # "ready"
    BY <1>0 DEF LifeInv, SnapshotsFollow, Held
  <1>2. Held' = Held \ S
    BY <1>0
  <1>3. Store!Drop(S)
    BY <1>1, <1>2 DEF Store!Drop, Held
  <1> QED BY <1>3 DEF Store!Next

\* A volume goes: no snapshot that is still wanted was on it.
LEMMA StoreRemoves ==
    ASSUME LifeInv, LifeInv', NEW v \in Vols, pv[v] = "released", pv' = [pv EXCEPT ![v] = "gone"],
           content' = content, lv'[v] = 0,
           \A s \in Snaps : SourceOf[s] # v => (s \in Held' <=> s \in Held)
    PROVE  Store!Next
  <1>1. \A s \in Snaps : SourceOf[s] = v => s \notin Held'
    BY DEF LifeInv, SnapshotsFollow, Held
  <1>2. Held' = {s \in Held : SourceOf[s] # v}
    BY <1>1 DEF Held
  <1>3. ASSUME NEW s \in Held, SourceOf[s] = v
        PROVE  content[s] \in {"unwanted", "gone"}
    <2>1. s \in Snaps /\ content[s] \in {"none", "asked", "ready", "unwanted", "gone"}
      BY DEF Held, LifeInv, TypeOK
    <2>2. content[s] # "none"
      BY <2>1 DEF Held, LifeInv, SnapshotsFollow
    <2>3. content[s] # "asked"
      BY <1>3, <2>1 DEF LifeInv, SnapshotsFollow
    <2>4. content'[s] # "ready"
      BY <1>1, <1>3, <2>1 DEF LifeInv, SnapshotsFollow, Held
    <2> QED BY <2>1, <2>2, <2>3, <2>4
  <1>4. Store!Remove(v)
    BY <1>2, <1>3 DEF Store!Remove, Held
  <1> QED BY <1>4 DEF Store!Next

\* A snapshot's creation or deletion is recorded.
LEMMA StoreReports ==
    ASSUME NEW s \in Snaps, content[s] = "asked", content' = [content EXCEPT ![s] = "ready"],
           pv' = pv, Held' = Held \cup {s}
    PROVE  Store!Next
  <1>1. Store!Report(s)
    BY DEF Store!Report, Held
  <1> QED BY <1>1 DEF Store!Next

LEMMA StoreFinishes ==
    ASSUME NEW s \in Snaps, content[s] = "unwanted", content' = [content EXCEPT ![s] = "gone"],
           pv' = pv, Held' = Held \ {s}
    PROVE  Store!Next
  <1>1. Store!Finish(s)
    BY DEF Store!Finish, Held
  <1> QED BY <1>1 DEF Store!Next

\* What a command does to the snapshots on the node.
LEMMA DoesHeld ==
    ASSUME LifeInv, NEW h \in Work, NEW pc, Does(h, pc)
    PROVE  \A s \in Snaps :
              \/ s \in Held' <=> s \in Held
              \/ s = h.name /\ h.op = "snapshot" /\ s \in Held'
              \/ s = h.name /\ h.op = "dropSnapshot" /\ s \notin Held'
              \/ SourceOf[s] = h.name /\ h.op = "delete" /\ s \notin Held'
  <1>0. /\ h.op \in Ops /\ Program(h) /\ h.name \in Names /\ lv \in [Names -> 0..MaxSize]
        /\ Snaps \subseteq Names /\ \A n \in Names : lv[n] \in Nat
    BY DoesProgram
  <1> SUFFICES ASSUME NEW s \in Snaps, lv'[s] # lv[s]
               PROVE  \/ s = h.name /\ h.op = "snapshot" /\ lv'[s] > 0
                      \/ s = h.name /\ h.op = "dropSnapshot" /\ lv'[s] = 0
                      \/ SourceOf[s] = h.name /\ h.op = "delete" /\ lv'[s] = 0
    BY DEF Held
  <1>1. s \notin Vols
    BY NameAssumption
  <1>2. CASE h.pc = "lvremove" /\ lv' = [n \in Names |-> IF n \in {h.name} \cup SnapsOn(h.name) THEN 0 ELSE lv[n]]
    BY <1>0, <1>1, <1>2 DEF Program, Ops, SnapsOn
  <1>3. CASE h.pc \in {"lvcreate", "clean", "lvextend"} /\ \E x : lv' = [lv EXCEPT ![h.name] = x]
    BY <1>0, <1>1, <1>3 DEF Program, Ops
  <1>4. CASE h.pc = "lvcreate-s" /\ lv' = [lv EXCEPT ![h.name] = h.size]
    BY <1>0, <1>1, <1>4 DEF Program, Ops
  <1>5. CASE h.pc = "lvremove-s" /\ lv' = [lv EXCEPT ![h.name] = 0]
    BY <1>0, <1>1, <1>5 DEF Program, Ops
  <1> QED BY <1>2, <1>3, <1>4, <1>5 DEF Does

\* A command whose result is not recorded: the handler goes on, or nobody waits for it.
LEMMA DoesStore ==
    ASSUME LifeInv, LifeInv', NEW h \in Work, NEW pc, Does(h, pc), UNCHANGED <<pv, content>>
    PROVE  Store!Next
  <1>1. Program(h) /\ h.op \in Ops
    BY DoesProgram
  <1>2. CASE h.op = "snapshot" /\ h.name \in Held'
    <2>1. Held' = Held \cup {h.name}
      BY <1>1, <1>2, DoesHeld DEF Held
    <2> QED BY <1>1, <1>2, <2>1, StoreTakes DEF Program
  <1>3. CASE ~(h.op = "snapshot" /\ h.name \in Held')
    <2>1. Held' \subseteq Held
      BY <1>1, <1>3, DoesHeld DEF Held
    <2> QED BY <2>1, StoreDrops
  <1> QED BY <1>2, <1>3

\* A command, or a GetVolume, whose result the sidecar records.
LEMMA RecordedStore ==
    ASSUME LifeInv, LifeInv', NEW c \in call, Recorded(c),
           c.op \in {"delete", "dropSnapshot"} => lv'[c.name] = 0,
           \A s \in Snaps : \/ s \in Held' <=> s \in Held
                            \/ s = c.name /\ c.op \in {"snapshot", "dropSnapshot"}
                            \/ SourceOf[s] = c.name /\ c.op = "delete"
    PROVE  Store!Next
  <1>1. Program(c) /\ Current(c) /\ c.name \in Names
    BY WorkType DEF LifeInv, WorkStands, Work, CallsCurrent
  <1>2. CASE c.op = "delete"
    BY <1>1, <1>2, StoreRemoves DEF Recorded, Program, Current
  <1>3. CASE c.op = "snapshot"
    <2>1. Held' = Held \cup {c.name} /\ c.name \in Snaps
      BY <1>1, <1>3 DEF Held, Recorded, Program
    <2>2. CASE content[c.name] = "asked"
      BY <1>3, <2>1, <2>2, StoreReports DEF Recorded
    <2>3. CASE content[c.name] # "asked"
      <3>1. content' = content
        BY <1>3, <2>1, <2>3 DEF Recorded, LifeInv, TypeOK
      <3> QED BY <1>3, <2>1, <3>1, StoreTakes DEF Recorded
    <2> QED BY <2>2, <2>3
  <1>4. CASE c.op = "dropSnapshot"
    <2>1. Held' = Held \ {c.name} /\ c.name \in Snaps
      BY <1>1, <1>4 DEF Held, Program
    <2> QED BY <1>1, <1>4, <2>1, StoreFinishes DEF Recorded, Current
  <1>5. CASE c.op = "expand"
    <2>1. Held' \subseteq Held
      BY <1>1, <1>5 DEF Held, Program
    <2> QED BY <1>5, <2>1, StoreDrops DEF Recorded
  <1> QED BY <1>2, <1>3, <1>4, <1>5 DEF Recorded

LEMMA ServeStore ==
    ASSUME LifeInv, LifeInv', NEW c \in call, Serve(c)
    PROVE  Store!Next
  <1> DEFINE pc == Run(HandlerOf(c)).pc
  <1>0. c \in Work /\ Does(c, pc)
    BY ServeDoes DEF Work
  <1>1. CASE pc = "ok" /\ c.op # "create"
    <2>1. Recorded(c)
      BY <1>0, <1>1, ServeDoes, AnsweredRecorded
    <2>2. c.op \in {"delete", "dropSnapshot"} => lv'[c.name] = 0
      BY <1>0, <1>1, DoesFew
    <2> QED BY <1>0, <2>1, <2>2, DoesHeld, RecordedStore
  <1>2. CASE ~(pc = "ok" /\ c.op # "create")
    <2>1. UNCHANGED <<pv, content>>
      BY <1>2, ServeDoes DEF Answered
    <2> QED BY <1>0, <2>1, DoesStore
  <1> QED BY <1>1, <1>2

LEMMA LookupStore ==
    ASSUME LifeInv, LifeInv', NEW c \in call,
           GetLV(c) \/ GetLVToDelete(c) \/ GetSnapshotLV(c) \/ GetSnapshotToDrop(c)
    PROVE  Store!Next \/ UNCHANGED Store!vars
  <1>1. lv' = lv /\ Held' = Held
    BY DEF Held, GetLV, GetLVToDelete, GetSnapshotLV, GetSnapshotToDrop
  <1>2. CASE UNCHANGED <<pv, content>>
    BY <1>1, <1>2, StoreStutters
  <1>3. CASE Recorded(c) /\ (c.op \in {"delete", "dropSnapshot"} => lv[c.name] = 0)
    BY <1>1, <1>3, RecordedStore
  <1>4. CASE GetLV(c)
    BY <1>2, <1>4 DEF GetLV, kube
  <1>5. CASE GetLVToDelete(c)
    BY <1>1, <1>2, <1>3, <1>5 DEF GetLVToDelete, Deleted, Recorded, At
  <1>6. CASE GetSnapshotLV(c)
    BY <1>1, <1>2, <1>3, <1>6 DEF GetSnapshotLV, Ready, Recorded, At
  <1>7. CASE GetSnapshotToDrop(c)
    BY <1>1, <1>2, <1>3, <1>7 DEF GetSnapshotToDrop, Dropped, Recorded, At
  <1> QED BY <1>4, <1>5, <1>6, <1>7

LEMMA ProvisionedStore ==
    ASSUME LifeInv, NEW c \in call, Provisioned(c)
    PROVE  Store!Next
  <1>1. PICK st \in {"live", "released"} : pv' = [pv EXCEPT ![c.name] = st]
    BY ProvisionedIs
  <1>2. c.name \in Vols /\ pv[c.name] = "none" /\ UNCHANGED <<content, lv>>
    BY ProvisionedIs
  <1>3. Store!Provision(c.name)
    BY <1>1, <1>2 DEF Store!Provision
  <1> QED BY <1>2, <1>3 DEF Store!Next

LEMMA SidecarsStore ==
    ASSUME LifeInv, RemovalInv, LifeInv', Sidecars
    PROVE  Store!Next \/ UNCHANGED Store!vars
  <1>1. CASE UNCHANGED <<pv, content, lv>>
    BY <1>1, StoreStutters DEF Held
  <1>2. ASSUME NEW v \in Vols, DeleteVolume(v), NothingToDelete(v)
        PROVE  Store!Next
    <2>1. /\ pv[v] = "released" /\ pv' = [pv EXCEPT ![v] = "gone"] /\ lv' = lv
          /\ content' = content /\ lv'[v] = 0
      BY <1>2, NothingToDeleteRight DEF DeleteVolume
    <2> QED BY <2>1, StoreRemoves DEF Held
  <1>3. ASSUME NEW v \in Vols, DeleteVolume(v), ~NothingToDelete(v)
        PROVE  UNCHANGED <<pv, content, lv>>
    BY <1>3 DEF DeleteVolume
  <1>4. ASSUME NEW v \in Vols, CreateVolume(v) \/ ControllerExpandVolume(v)
        PROVE  UNCHANGED <<pv, content, lv>>
    BY <1>4 DEF CreateVolume, ControllerExpandVolume, kube
  <1>5. ASSUME NEW s \in Snaps, CreateSnapshot(s) \/ DeleteSnapshot(s)
        PROVE  UNCHANGED <<pv, content, lv>>
    BY <1>5 DEF CreateSnapshot, DeleteSnapshot, kube
  <1> QED BY <1>1, <1>2, <1>3, <1>4, <1>5 DEF Sidecars

LEMMA KubernetesStore ==
    ASSUME LifeInv, Kubernetes
    PROVE  Store!Next \/ UNCHANGED Store!vars
  <1>1. CASE UNCHANGED <<pv, content>> /\ Held' = Held
    BY <1>1, StoreStutters
  <1>2. ASSUME NEW v \in Vols, DeleteClaim(v)
        PROVE  Store!Next \/ UNCHANGED Store!vars
    <2>1. UNCHANGED <<content, lv>> /\ Held' = Held
      BY <1>2 DEF DeleteClaim, Held
    <2>2. CASE pv[v] = "live"
      <3>1. Store!Release(v)
        BY <1>2, <2>1, <2>2 DEF DeleteClaim, Store!Release
      <3> QED BY <3>1 DEF Store!Next
    <2>3. CASE pv[v] # "live"
      <3>1. pv' = pv
        BY <1>2, <2>3 DEF DeleteClaim, LifeInv, TypeOK
      <3> QED BY <1>1, <2>1, <3>1
    <2> QED BY <2>2, <2>3
  <1>3. ASSUME NEW v \in Vols, GrowClaim(v) \/ Migrated(v)
        PROVE  UNCHANGED Store!vars
    BY <1>1, <1>3 DEF GrowClaim, Migrated, Held, Store!vars
  <1>4. ASSUME NEW v \in Vols, NodePublish(v)
        PROVE  UNCHANGED Store!vars
    <2>1. \A s \in Snaps : lv'[s] = lv[s]
      BY <1>4, NameAssumption DEF NodePublish, LifeInv, TypeOK, Names
    <2> QED BY <1>4, <2>1, StoreStutters DEF NodePublish, Held, kube
  <1>5. ASSUME NEW s \in Snaps, AskSnapshot(s)
        PROVE  Store!Next
    <2>1. Store!Ask(s)
      BY <1>5 DEF AskSnapshot, Store!Ask
    <2> QED BY <2>1 DEF Store!Next
  <1>6. ASSUME NEW s \in Snaps, DiscardSnapshot(s)
        PROVE  Store!Next
    <2>1. Store!Discard(s)
      BY <1>6 DEF DiscardSnapshot, Store!Discard
    <2> QED BY <2>1 DEF Store!Next
  <1> QED BY <1>2, <1>3, <1>4, <1>5, <1>6 DEF Kubernetes

LEMMA FaultsStore ==
    ASSUME Faults \/ \E c \in call : SourceMissing(c)
    PROVE  UNCHANGED Store!vars
  <1>1. UNCHANGED <<pv, content, lv>>
    BY DEF Faults, CallFails, Timeout, ServiceRestart, LvmdRestart, SourceMissing, kube
  <1> QED BY <1>1, StoreStutters DEF Held

LEMMA StoreInit == Init => Store!Init
    BY DEF Init, Store!Init, Names

LEMMA StoreNext ==
    LifeInv /\ RemovalInv /\ LifeInv' /\ [Next]_vars => [Store!Next]_(Store!vars)
  <1> SUFFICES ASSUME LifeInv, RemovalInv, LifeInv', [Next]_vars
               PROVE  Store!Next \/ UNCHANGED Store!vars
    OBVIOUS
  <1>1. ASSUME NEW c \in call, Controller(c) \/ Serve(c)
        PROVE  Store!Next \/ UNCHANGED Store!vars
    BY <1>1, LookupStore, ProvisionedStore, FaultsStore, ServeStore DEF Controller
  <1>2. ASSUME NEW h \in late, ServeLate(h)
        PROVE  Store!Next
    <2>1. UNCHANGED <<pv, content>>
      BY <1>2 DEF ServeLate, kube
    <2> QED BY <1>2, <2>1, ServeLateDoes, DoesStore
  <1>3. CASE UNCHANGED vars
    <2>1. UNCHANGED <<pv, content, lv>>
      BY <1>3 DEF vars, kube
    <2> QED BY <2>1, StoreStutters DEF Held
  <1> QED BY <1>1, <1>2, <1>3, SidecarsStore, FaultsStore, KubernetesStore DEF Next

\* When no read of a VolumeSnapshot fails, the service, lvmd and the sidecars implement
\* the promise of VolumeStore: a volume goes away only after its claim and only while no
\* snapshot that is still wanted is on it, a snapshot reported ready is held until its
\* deletion is asked for, whatever calls are lost, late or repeated.
THEOREM LifecycleImplementsStore == ~Misreads => (Spec => ImplementsStore)
  <1> SUFFICES ASSUME ~Misreads
               PROVE  Spec => ImplementsStore
    OBVIOUS
  <1>1. LifeInv /\ RemovalInv /\ [Next]_vars => LifeInv' /\ RemovalInv'
    BY LifeNext, RemovalNext
  <1> QED BY <1>1, StoreInit, StoreNext, LifeInit, RemovalInit, PTL DEF Spec, ImplementsStore, Store!Spec
=============================================================================
