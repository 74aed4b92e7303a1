-------------------------- MODULE NodeServerProofs --------------------------
(***************************************************************************)
(* For any number of volumes, handlers and faults: a published volume      *)
(* stays usable and the node server removes only the logical volumes of    *)
(* ephemeral volumes nobody uses, in the unrestricted environment; in the  *)
(* clean one no logical volume of an unpublished ephemeral volume is left. *)
(***************************************************************************)
EXTENDS NodeServer, TLAPS

\* The bounded counter of faults keeps its type.
LEMMA FaultType ==
    ASSUME TypeOK, faults' = faults \/ Fault
    PROVE  faults' \in 0..MaxFaults
  <1>1. MaxFaults \in Nat /\ faults \in 0..MaxFaults
    BY FaultAssumption DEF TypeOK
  <1> QED BY <1>1 DEF Fault

\* The invariant holds before the first request.
LEMMA InitInv == Init => NodeInv
  <1> SUFFICES ASSUME Init PROVE NodeInv
    OBVIOUS
  <1>1. TypeOK
    BY KindAssumption, FaultAssumption DEF Init, TypeOK, Steps
  <1>2. OneHandlerPerVolume /\ HandlerKnows
    BY DEF Init, OneHandlerPerVolume, HandlerKnows, Active, Created, Mounted
  <1>3. StoreEphemeral /\ PublishedReady
    BY DEF Init, StoreEphemeral, PublishedReady
  <1> QED BY <1>1, <1>2, <1>3 DEF NodeInv

----------------------------------------------------------------------------
(* Kubelet's steps *)

\* A request that enters the table finds no other handler on its volume.
LEMMA EnterStep ==
    ASSUME NodeInv, NEW v \in Volumes, NEW h \in Handlers,
           Publish(v, h) \/ Unpublish(v, h)
    PROVE  NodeInv'
  <1>1. PICK what \in {"publish", "unpublish"}, first \in {"createLV", "mount", "cleanup"} :
            /\ Enter(v, h, what, first)
            /\ first \in {"createLV", "mount"} => what = "publish"
            /\ first = "cleanup" => what = "unpublish"
            /\ first = "mount" => kind[v] = "device"
    BY DEF Publish, Unpublish, HasLV
  <1> USE DEF NodeInv
  <1>2. TypeOK'
    BY <1>1 DEF TypeOK, Enter, Steps, store, disk
  <1>3. /\ step' = [step EXCEPT ![h] = first]
        /\ vol' = [vol EXCEPT ![h] = v]
        /\ op' = [op EXCEPT ![h] = what]
        /\ view' = [view EXCEPT ![v] = "uncertain"]
        /\ call' = [call EXCEPT ![v] = h]
        /\ inFlight' = inFlight \cup {v}
        /\ step[h] = "idle" /\ v \notin inFlight /\ up
        /\ kind' = kind /\ up' = up /\ lvs' = lvs /\ mounts' = mounts
        /\ memory' = memory /\ file' = file
    BY <1>1 DEF Enter, store, disk
  <1>4. OneHandlerPerVolume'
    BY <1>3, HandlerAssumption DEF TypeOK, OneHandlerPerVolume, Active
  <1>5. HandlerKnows'
    BY <1>1, <1>3 DEF TypeOK, HandlerKnows, Created, Mounted, HasLV, Ephemeral
  <1>6. StoreEphemeral' /\ PublishedReady'
    BY <1>3 DEF TypeOK, StoreEphemeral, PublishedReady, HasLV, Ephemeral
  <1> QED BY <1>2, <1>4, <1>5, <1>6

\* What kubelet does on its own touches no handler and no disk.
LEMMA KubeletStep ==
    ASSUME NodeInv, NEW v \in Volumes,
           Aborted(v) \/ Timeout(v) \/ PodGone(v) \/ PodAgain(v)
    PROVE  NodeInv'
  <1> USE DEF NodeInv
  <1>1. CASE Aborted(v)
    BY <1>1 DEF Aborted, vars, kubelet, handler, store, disk, TypeOK, OneHandlerPerVolume,
       HandlerKnows, StoreEphemeral, PublishedReady, Active, Created, Mounted, HasLV, Ephemeral
  <1>2. CASE Timeout(v) \/ PodGone(v) \/ PodAgain(v)
    <2>1. /\ UNCHANGED <<kind, op, vol, step, inFlight, up, memory, file, readable, saving, lvs,
                         mounts, labels, restored>>
          /\ faults' = faults \/ Fault
          /\ call' = call \/ call' = [call EXCEPT ![v] = NoHandler]
          /\ pod' = pod \/ pod' = [pod EXCEPT ![v] = "gone"] \/ pod' = [pod EXCEPT ![v] = "alive"]
          /\ view' = view \/ (/\ view' = [view EXCEPT ![v] = "fresh"]
                              /\ view[v] # "uncertain")
      BY <1>2 DEF Timeout, PodGone, PodAgain, handler, store, disk
    <2>2. TypeOK'
      BY <2>1, FaultType DEF TypeOK
    <2>3. OneHandlerPerVolume'
      BY <2>1, HandlerAssumption DEF TypeOK, OneHandlerPerVolume, Active
    <2>4. HandlerKnows' /\ StoreEphemeral'
      BY <2>1 DEF HandlerKnows, StoreEphemeral, Created, Mounted, HasLV, Ephemeral
    <2>5. PublishedReady'
      BY <2>1 DEF TypeOK, PublishedReady, HasLV
    <2> QED BY <2>2, <2>3, <2>4, <2>5
  <1> QED BY <1>1, <1>2

----------------------------------------------------------------------------
(* A handler's steps: what they have in common *)

\* Handler h goes to step s, keeps its request, and changes only what belongs
\* to its own volume.
Moves(h, s) ==
    /\ up /\ Active(h)
    /\ step' = [step EXCEPT ![h] = s]
    /\ UNCHANGED <<kind, pod, view, call, op, vol, inFlight, up>>
    /\ \A v \in Volumes \ {vol[h]} : (v \in lvs' <=> v \in lvs) /\ (v \in mounts' <=> v \in mounts)

\* What h may rely on at step s.
Reached(h, s) ==
    LET v == vol[h]
    IN  /\ s \in Steps \ {"idle"}
        /\ (op[h] = "publish" /\ s \in {"mount", "restore", "restoring", "addVolume", "saving",
                                        "throttle", "format", "ok"})
              => (/\ HasLV(v) => v \in lvs'
                  /\ s # "mount" /\ kind[v] # "direct" => v \in mounts')
        /\ s \in {"remove", "deleteVolume"} => op[h] = "unpublish" /\ v \notin mounts'
        /\ s = "cleanup" => op[h] = "unpublish"
        /\ s \in {"createLV", "mount", "restore", "restoring", "addVolume", "throttle", "format"}
              => op[h] = "publish"
        /\ s \in {"addVolume", "format"} => Ephemeral(v)
        /\ s = "format" => kind[v] = "direct"
        /\ kind[v] = "direct" => s # "mount"

\* A step of this form keeps the parts of the invariant about handlers.
LEMMA MovesKeep ==
    ASSUME NodeInv, NEW h \in Handlers, NEW s, Moves(h, s), Reached(h, s)
    PROVE  OneHandlerPerVolume' /\ HandlerKnows' /\ PublishedReady'
  <1> USE DEF NodeInv
  <1>1. OneHandlerPerVolume'
    BY DEF TypeOK, OneHandlerPerVolume, Active, Moves, Reached
  <1>2. HandlerKnows'
    <2> SUFFICES ASSUME NEW g \in Handlers
                 PROVE  /\ Created(g)' /\ HasLV(vol[g])' => (vol[g] \in lvs)'
                        /\ Mounted(g)' /\ (kind[vol[g]])' # "direct" => (vol[g] \in mounts)'
                        /\ step'[g] \in {"remove", "deleteVolume"}
                              => op'[g] = "unpublish" /\ vol'[g] \notin mounts'
                        /\ step'[g] = "cleanup" => op'[g] = "unpublish"
                        /\ step'[g] \in {"createLV", "mount", "restore", "restoring", "addVolume",
                                         "throttle", "format"} => op'[g] = "publish"
                        /\ step'[g] \in {"addVolume", "format"} => Ephemeral(vol[g])'
                        /\ step'[g] = "format" => kind'[vol'[g]] = "direct"
                        /\ kind'[vol'[g]] = "direct" => step'[g] # "mount"
      BY DEF HandlerKnows
    <2>1. CASE g = h
      BY <2>1 DEF TypeOK, Moves, Reached, Created, Mounted, HasLV, Ephemeral
    <2>2. CASE g # h /\ Active(g)
      <3>1. vol[g] \in Volumes \ {vol[h]}
        BY <2>2 DEF TypeOK, Moves, OneHandlerPerVolume
      <3> QED BY <2>2, <3>1 DEF TypeOK, Moves, HandlerKnows, Created, Mounted, HasLV, Ephemeral
    <2>3. CASE g # h /\ ~Active(g)
      BY <2>3 DEF TypeOK, Moves, Active, Created, Mounted
    <2> QED BY <2>1, <2>2, <2>3
  <1>3. PublishedReady'
    <2>1. view[vol[h]] = "uncertain"
      BY DEF Moves, OneHandlerPerVolume
    <2> QED BY <2>1 DEF Moves, PublishedReady, HasLV
  <1> QED BY <1>1, <1>2, <1>3

----------------------------------------------------------------------------
(* One lemma per group of handler steps *)

\* Steps that leave the store alone.
LEMMA DiskStep ==
    ASSUME NodeInv, NEW h \in Handlers,
           \/ CreateLV(h) \/ Mount(h) \/ LabelRestored(h) \/ RestoreData(h) \/ Throttle(h)
           \/ Format(h) \/ Cleanup(h) \/ Remove(h) \/ Fails(h) \/ FormatFails(h)
    PROVE  NodeInv' /\ \A v \in lvs \ lvs' : Ephemeral(v) /\ v \notin mounts /\ view[v] # "mounted"
  <1> USE DEF NodeInv
  <1> DEFINE v == vol[h]
  <1>v. v \in Volumes /\ kind[v] \in AllKinds
    BY DEF TypeOK
  <1>1. PICK s \in Steps : Moves(h, s) /\ Reached(h, s)
    <2>1. CASE CreateLV(h)
      <3> DEFINE s == IF kind[v] = "direct" THEN "addVolume" ELSE "mount"
      <3>1. Moves(h, s)
        BY <2>1 DEF CreateLV, At, GoTo, Moves, Active, kubelet
      <3>2. Reached(h, s)
        BY <2>1 DEF CreateLV, At, Reached, Steps, HandlerKnows, Ephemeral
      <3> QED BY <3>1, <3>2 DEF Steps
    <2>2. CASE Mount(h)
      <3>1. Moves(h, AfterMount(v))
        BY <2>2 DEF Mount, At, GoTo, Moves, Active, kubelet
      <3>2. /\ AfterMount(v) \in {"restore", "addVolume", "ok", "throttle"}
            /\ AfterMount(v) = "addVolume" => kind[v] = "inline"
        BY DEF AfterMount
      <3>3. op[h] = "publish" /\ (HasLV(v) => v \in lvs') /\ v \in mounts'
        BY <2>2 DEF Mount, At, HandlerKnows, Created
      <3>4. Reached(h, AfterMount(v))
        BY <3>2, <3>3 DEF Reached, Steps, Ephemeral
      <3> QED BY <3>1, <3>2, <3>4 DEF Steps
    <2>3. CASE LabelRestored(h) \/ RestoreData(h)
      <3>1. PICK s \in {"throttle", "restoring"} : Moves(h, s)
        BY <2>3 DEF LabelRestored, RestoreData, At, GoTo, Moves, Active, kubelet
      <3>2. /\ op[h] = "publish" /\ (HasLV(v) => v \in lvs')
            /\ kind[v] # "direct" => v \in mounts'
        BY <2>3 DEF LabelRestored, RestoreData, At, HandlerKnows, Created, Mounted
      <3> QED BY <3>1, <3>2 DEF Reached, Steps
    <2>4. CASE Throttle(h) \/ Format(h)
      <3>1. Moves(h, "ok")
        BY <2>4 DEF Throttle, Format, At, GoTo, Moves, Active, kubelet, disk
      <3>2. /\ op[h] = "publish" /\ (HasLV(v) => v \in lvs')
            /\ kind[v] # "direct" => v \in mounts'
        BY <2>4 DEF Throttle, Format, At, HandlerKnows, Created, Mounted, disk
      <3> QED BY <3>1, <3>2 DEF Reached, Steps
    <2>5. CASE Cleanup(h)
      <3>1. Moves(h, "remove")
        BY <2>5 DEF Cleanup, At, GoTo, Moves, Active, kubelet
      <3>2. op[h] = "unpublish" /\ v \notin mounts'
        BY <2>5 DEF Cleanup, At, HandlerKnows
      <3> QED BY <3>1, <3>2 DEF Reached, Steps
    <2>6. CASE Remove(h)
      <3>1. PICK s \in {"ok", "deleteVolume", "err"} : Moves(h, s)
        BY <2>6 DEF Remove, At, GoTo, Moves, Active, kubelet
      <3>2. op[h] = "unpublish" /\ v \notin mounts'
        BY <2>6 DEF Remove, At, HandlerKnows
      <3> QED BY <3>1, <3>2 DEF Reached, Steps
    <2>7. CASE Fails(h) \/ FormatFails(h)
      <3>1. Moves(h, "err")
        BY <2>7 DEF Fails, FormatFails, At, GoTo, Moves, Active, kubelet, disk
      <3> QED BY <3>1 DEF Reached, Steps
    <2> QED BY <2>1, <2>2, <2>3, <2>4, <2>5, <2>6, <2>7
  <1>2. OneHandlerPerVolume' /\ HandlerKnows' /\ PublishedReady'
    BY <1>1, MovesKeep
  <1>3. /\ UNCHANGED <<memory, file, readable, saving>>
        /\ lvs' \in {lvs, lvs \cup {v}, lvs \ {v}}
        /\ mounts' \in {mounts, mounts \cup {v}, mounts \ {v}}
        /\ labels' \in {labels, labels \cup {v}} /\ restored' \in {restored, restored \cup {v}}
        /\ faults' = faults \/ Fault
    BY DEF CreateLV, Mount, LabelRestored, RestoreData, Throttle, Format, Cleanup, Remove, Fails,
       FormatFails, store, disk
  <1>4. TypeOK'
    BY <1>1, <1>3, <1>v, FaultType DEF TypeOK, Moves
  <1>5. mounts' = mounts \cup {v} => kind[v] # "direct" \/ v \in mounts
    BY DEF CreateLV, Mount, LabelRestored, RestoreData, Throttle, Format, Cleanup, Remove, Fails,
       FormatFails, disk, At, HandlerKnows
  <1>6. StoreEphemeral'
    BY <1>1, <1>3, <1>5 DEF Moves, StoreEphemeral, Ephemeral
  <1>7. ASSUME NEW w \in lvs \ lvs'
        PROVE  Ephemeral(w) /\ w \notin mounts /\ view[w] # "mounted"
    <2>1. w = v /\ (Remove(h) \/ FormatFails(h)) /\ v \in memory
      BY <1>7 DEF CreateLV, Mount, LabelRestored, RestoreData, Throttle, Format, Cleanup, Remove,
         Fails, FormatFails, disk
    <2>2. Ephemeral(v)
      BY <2>1 DEF StoreEphemeral
    <2>3. v \notin mounts
      BY <2>1 DEF Remove, FormatFails, At, HandlerKnows, StoreEphemeral
    <2>4. view[v] = "uncertain"
      BY <2>1 DEF Remove, FormatFails, At, OneHandlerPerVolume, Active
    <2> QED BY <2>1, <2>2, <2>3, <2>4
  <1> QED BY <1>2, <1>4, <1>6, <1>7

\* Steps that change the store.
LEMMA StoreStep ==
    ASSUME NodeInv, NEW h \in Handlers,
           AddVolume(h) \/ DeleteVolume(h) \/ Saved(h) \/ SaveFails(h)
    PROVE  NodeInv' /\ lvs' = lvs
  <1> USE DEF NodeInv
  <1> DEFINE v == vol[h]
  <1>v. v \in Volumes /\ kind[v] \in AllKinds
    BY DEF TypeOK
  <1>1. /\ step[h] \in {"addVolume", "deleteVolume", "saving"} /\ up
        /\ step' = [step EXCEPT ![h] = "saving"] \/ step' = [step EXCEPT ![h] = AfterSave(h)]
        /\ UNCHANGED <<kind, kubelet, op, vol, inFlight, up, disk>>
        /\ memory' \in {memory, memory \cup {v}, memory \ {v}}
        /\ file' \in {file, memory}
        /\ readable' \in {readable, TRUE, FALSE} /\ saving' \in {saving, h, NoHandler}
        /\ faults' = faults \/ Fault
        /\ memory' = memory \cup {v} => Ephemeral(v) \/ v \in memory
    BY DEF AddVolume, DeleteVolume, Update, Saved, SaveFails, CreateFails, EncodeFails, At, GoTo,
       HandlerKnows
  <1>2. AfterSave(h) \in {"ok", "format", "throttle"}
    BY DEF AfterSave
  <1>3. /\ AfterSave(h) = "format" => op[h] = "publish" /\ kind[v] = "direct"
        /\ AfterSave(h) = "throttle" => op[h] = "publish"
    <2>1. op[h] \in {"publish", "unpublish"}
      BY DEF TypeOK
    <2>2. op[h] # "publish" => AfterSave(h) = "ok"
      BY <2>1 DEF AfterSave
    <2>3. kind[v] # "direct" => AfterSave(h) # "format"
      BY DEF AfterSave
    <2> QED BY <2>2, <2>3
  <1>4. PICK s \in {"saving", AfterSave(h)} : Moves(h, s)
    BY <1>1 DEF Moves, Active, kubelet, disk
  <1>5. op[h] = "publish" => (HasLV(v) => v \in lvs) /\ (kind[v] # "direct" => v \in mounts)
    BY <1>1 DEF HandlerKnows, Created, Mounted
  <1>6. Reached(h, s)
    BY <1>1, <1>2, <1>3, <1>4, <1>5 DEF Reached, Steps, disk, Ephemeral
  <1>7. OneHandlerPerVolume' /\ HandlerKnows' /\ PublishedReady'
    BY <1>4, <1>6, MovesKeep
  <1>8. TypeOK'
    <2>1. readable' \in BOOLEAN
      BY <1>1, Zenon DEF TypeOK
    <2>2. faults' \in 0..MaxFaults
      BY <1>1, FaultType
    <2>3. step' \in [Handlers -> Steps]
      BY <1>1, <1>2 DEF TypeOK, Steps
    <2>4. memory' \subseteq Volumes /\ file' \subseteq Volumes /\ saving' \in Handlers \cup {NoHandler}
      BY <1>1, <1>v DEF TypeOK
    <2> QED BY <1>1, <2>1, <2>2, <2>3, <2>4 DEF TypeOK, kubelet, disk
  <1>9. StoreEphemeral'
    BY <1>1 DEF StoreEphemeral, Ephemeral, disk
  <1> QED BY <1>1, <1>7, <1>8, <1>9 DEF disk

\* Answers, crashes and restarts: no handler gets further.
LEMMA EndStep ==
    ASSUME NodeInv, Crash \/ Restart \/ \E h \in Handlers : Reply(h)
    PROVE  NodeInv' /\ lvs' = lvs
  <1> USE DEF NodeInv
  <1>1. CASE Crash
    <2>1. TypeOK'
      BY <1>1, FaultType DEF TypeOK, Crash, Steps, disk
    <2>2. OneHandlerPerVolume' /\ HandlerKnows' /\ StoreEphemeral' /\ PublishedReady'
      BY <1>1, <2>1 DEF Crash, OneHandlerPerVolume, HandlerKnows, StoreEphemeral, PublishedReady,
         Active, Created, Mounted, HasLV, Ephemeral, disk
    <2> QED BY <1>1, <2>1, <2>2 DEF Crash, disk
  <1>2. CASE Restart
    <2>1. TypeOK'
      BY <1>2 DEF TypeOK, Restart, kubelet, handler, disk
    <2>2. OneHandlerPerVolume'
      BY <1>2 DEF Restart, OneHandlerPerVolume, Active, kubelet, handler
    <2>3. HandlerKnows' /\ StoreEphemeral' /\ PublishedReady'
      BY <1>2 DEF Restart, HandlerKnows, StoreEphemeral, PublishedReady,
         Created, Mounted, HasLV, Ephemeral, kubelet, handler, disk
    <2> QED BY <1>2, <2>1, <2>2, <2>3 DEF Restart, disk
  <1>3. ASSUME NEW h \in Handlers, Reply(h)
        PROVE  NodeInv' /\ lvs' = lvs
    <2> DEFINE v == vol[h]
    <2>1. /\ step[h] \in {"ok", "err"} /\ up
          /\ step' = [step EXCEPT ![h] = "idle"] /\ inFlight' = inFlight \ {v}
          /\ UNCHANGED <<kind, pod, op, vol, up, memory, file, readable, saving, lvs, mounts,
                         labels, restored, faults>>
          /\ call' = IF call[v] = h THEN [call EXCEPT ![v] = NoHandler] ELSE call
          /\ \/ view' = view
             \/ /\ step[h] = "ok" /\ op[h] = "publish" /\ view' = [view EXCEPT ![v] = "mounted"]
             \/ /\ op[h] # "publish" /\ view' = [view EXCEPT ![v] = "released"]
      BY <1>3 DEF Reply, GoTo, Answered, store, disk
    <2>v. v \in Volumes
      BY DEF TypeOK
    <2>2. TypeOK'
      BY <2>1, <2>v DEF TypeOK, Steps
    <2>3. OneHandlerPerVolume'
      <3>1. ASSUME NEW g \in Handlers, Active(g)'
            PROVE  g # h /\ Active(g) /\ vol[g] # v /\ vol[g] \in Volumes
        BY <2>1, <3>1 DEF TypeOK, Active, OneHandlerPerVolume
      <3>2. \A g \in Handlers : Active(g)' => up' /\ vol'[g] \in inFlight' /\ view'[vol'[g]] = "uncertain"
        BY <2>1, <3>1 DEF TypeOK, OneHandlerPerVolume
      <3>3. \A f, g \in Handlers : Active(f)' /\ Active(g)' /\ vol'[f] = vol'[g] => f = g
        BY <2>1, <3>1 DEF OneHandlerPerVolume
      <3>4. \A w \in Volumes : call'[w] # NoHandler => Active(call[w])' /\ vol'[call'[w]] = w
                                                       /\ call'[w] = call[w]
        BY <2>1, <2>v, HandlerAssumption DEF TypeOK, OneHandlerPerVolume, Active
      <3> QED BY <2>1, <3>2, <3>3, <3>4 DEF OneHandlerPerVolume, Active
    <2>4. HandlerKnows' /\ StoreEphemeral'
      BY <2>1 DEF TypeOK, HandlerKnows, StoreEphemeral, Created, Mounted, HasLV, Ephemeral
    <2>5. PublishedReady'
      <3>1. step[h] = "ok" /\ op[h] = "publish"
              => (HasLV(v) => v \in lvs) /\ (kind[v] # "direct" => v \in mounts)
        BY DEF HandlerKnows, Created, Mounted
      <3> QED BY <2>1, <2>v, <3>1 DEF TypeOK, PublishedReady, HasLV
    <2> QED BY <2>1, <2>2, <2>3, <2>4, <2>5
  <1> QED BY <1>1, <1>2, <1>3

----------------------------------------------------------------------------

\* Every step keeps the invariant and removes only unused logical volumes.
LEMMA StepInv ==
    ASSUME NodeInv, Next
    PROVE  /\ NodeInv'
           /\ \A v \in lvs \ lvs' : Ephemeral(v) /\ v \notin mounts /\ view[v] # "mounted"
  <1>1. ASSUME NEW v \in Volumes, Kubelet(v) \/ Aborted(v) \/ Timeout(v) \/ PodGone(v) \/ PodAgain(v)
        PROVE  NodeInv' /\ lvs' = lvs
    <2>1. NodeInv'
      BY <1>1, EnterStep, KubeletStep DEF Kubelet
    <2>2. lvs' = lvs
      BY <1>1 DEF Kubelet, Publish, Unpublish, Enter, Aborted, Timeout, PodGone, PodAgain, vars, disk
    <2> QED BY <2>1, <2>2
  <1>2. ASSUME NEW h \in Handlers, Works(h) \/ Fails(h) \/ FormatFails(h) \/ SaveFails(h), ~Reply(h)
        PROVE  /\ NodeInv'
               /\ \A v \in lvs \ lvs' : Ephemeral(v) /\ v \notin mounts /\ view[v] # "mounted"
    BY <1>2, DiskStep, StoreStep DEF Works
  <1>3. CASE Crash \/ Restart \/ \E h \in Handlers : Reply(h)
    BY <1>3, EndStep
  <1> QED BY <1>1, <1>2, <1>3 DEF Next

\* The invariant is inductive.
LEMMA Inductive == NodeInv /\ [Next]_vars => NodeInv'
  <1> SUFFICES ASSUME NodeInv, [Next]_vars PROVE NodeInv'
    OBVIOUS
  <1>1. CASE UNCHANGED vars
    BY <1>1 DEF vars, kubelet, handler, store, disk, NodeInv, TypeOK, OneHandlerPerVolume,
       HandlerKnows, StoreEphemeral, PublishedReady, Active, Created, Mounted, HasLV, Ephemeral
  <1> QED BY <1>1, StepInv

\* What the node server told kubelet of a published volume stays true, across
\* retries that overlap late handlers, failed commands, lost saves and crashes
\* (nodeserver.go with the table of inflight.go).
THEOREM PublishedStaysReady == Spec => []PublishedReady
  <1>1. NodeInv => PublishedReady
    BY DEF NodeInv
  <1> QED BY <1>1, Inductive, InitInv, PTL DEF Spec

\* The node server never removes the logical volume of a PV, nor of an
\* ephemeral volume that is mounted or that kubelet believes published: the
\* store names ephemeral volumes only and the table keeps handlers apart.
THEOREM OnlyUnusedRemoved == Spec => RemovesOnlyUnused
  <1>1. NodeInv /\ [Next]_vars =>
          [\A v \in lvs \ lvs' : Ephemeral(v) /\ v \notin mounts /\ view[v] # "mounted"]_vars
    BY StepInv
  <1> QED BY <1>1, Inductive, InitInv, PTL DEF Spec, RemovesOnlyUnused

----------------------------------------------------------------------------
(* The clean environment: an ephemeral volume is removed with its pod *)

LEMMA CleanIsNext == CleanNext => Next
    BY DEF CleanNext, Next, CleanPodGone, CleanFails, CleanCrash

LEMMA CleanInit == Init => CleanInv
    BY DEF Init, CleanInv, FileCurrent, HandlersRecord, LVsRecorded, NoOrphan, Active, Ephemeral

\* What h owes the store at step s.
Recorded(h, s) ==
    LET v == vol[h]
    IN  Ephemeral(v) =>
          /\ s \notin {"restore", "restoring"}
          /\ op[h] = "publish" /\ s \in {"saving", "throttle", "format", "ok"} => v \in memory'
          /\ op[h] = "unpublish" /\ s \in {"deleteVolume", "saving", "ok"} => v \notin lvs'
          /\ pod[v] = "gone" /\ v \in lvs' =>
                v \in memory' \/ (op[h] = "publish" /\ s \in {"createLV", "mount", "addVolume"})

\* A step of a handler leaves the entries of other volumes alone.
LEMMA MovesRecord ==
    ASSUME NodeInv, CleanInv, NEW h \in Handlers, NEW s, Moves(h, s), Recorded(h, s), FileCurrent',
           \A w \in Volumes \ {vol[h]} : w \in memory' <=> w \in memory
    PROVE  CleanInv'
  <1> DEFINE v == vol[h]
  <1>1. /\ v \in Volumes /\ view[v] = "uncertain" /\ up /\ up' /\ step'[h] = s
        /\ step \in [Handlers -> Steps] /\ Active(h)
        /\ UNCHANGED <<kind, pod, view, op, vol>> /\ \A g \in Handlers \ {h} : step'[g] = step[g]
    BY DEF NodeInv, TypeOK, OneHandlerPerVolume, Moves
  <1>2. Entries = memory /\ Entries' = memory'
    BY <1>1 DEF Entries
  <1>3. ASSUME NEW g \in Handlers \ {h}, Active(g)
        PROVE  vol[g] \in Volumes \ {v}
    BY <1>1, <1>3 DEF NodeInv, TypeOK, OneHandlerPerVolume
  <1>4. HandlersRecord'
    <2> SUFFICES ASSUME NEW g \in Handlers, Ephemeral(vol[g])
                 PROVE  /\ step'[g] \notin {"restore", "restoring"}
                        /\ op[g] = "publish" /\ step'[g] \in {"saving", "throttle", "format", "ok"}
                              => vol[g] \in memory'
                        /\ op[g] = "unpublish" /\ step'[g] # "idle" => pod[vol[g]] = "gone"
                        /\ op[g] = "unpublish" /\ step'[g] \in {"deleteVolume", "saving", "ok"}
                              => vol[g] \notin lvs'
      BY <1>1 DEF HandlersRecord, Ephemeral, Active
    <2>1. CASE g = h
      BY <1>1, <2>1 DEF Recorded, CleanInv, HandlersRecord
    <2>2. CASE g # h /\ Active(g)
      <3>1. vol[g] \in Volumes \ {v} /\ step'[g] = step[g]
        BY <1>1, <1>3, <2>2
      <3> QED BY <2>2, <3>1 DEF CleanInv, HandlersRecord, Moves
    <2>3. CASE g # h /\ ~Active(g)
      BY <1>1, <2>3 DEF Active
    <2> QED BY <2>1, <2>2, <2>3
  <1>5. LVsRecorded'
    <2> SUFFICES ASSUME NEW w \in Volumes, Ephemeral(w)
                 PROVE  /\ view[w] = "fresh" => w \notin lvs'
                        /\ view[w] = "mounted" => w \in memory'
                        /\ pod[w] = "gone" /\ w \in lvs' => w \in memory' \/ Recording(w)'
      BY <1>1, <1>2 DEF LVsRecorded, Ephemeral
    <2>1. CASE w = v
      <3>1. op[h] = "publish" /\ s \in {"createLV", "mount", "addVolume"} => Recording(v)'
        BY <1>1 DEF Recording
      <3> QED BY <1>1, <2>1, <3>1 DEF Recorded
    <2>2. CASE w # v
      <3>1. (w \in lvs' <=> w \in lvs) /\ (w \in memory' <=> w \in memory)
        BY <2>2 DEF Moves
      <3>2. Recording(w) => Recording(w)'
        BY <1>1, <2>2 DEF Recording
      <3> QED BY <1>2, <3>1, <3>2 DEF CleanInv, LVsRecorded
    <2> QED BY <2>1, <2>2
  <1>6. NoOrphan'
    BY <1>1 DEF CleanInv, NoOrphan, Moves, Ephemeral
  <1> QED BY <1>4, <1>5, <1>6 DEF CleanInv

LEMMA DiskRecord ==
    ASSUME NodeInv, CleanInv, NEW h \in Handlers,
           \/ CreateLV(h) \/ Mount(h) \/ LabelRestored(h) \/ RestoreData(h) \/ Throttle(h)
           \/ Format(h) \/ Cleanup(h) \/ Remove(h) \/ CleanFails(h)
    PROVE  CleanInv'
  <1> DEFINE v == vol[h]
  <1>0. v \in Volumes /\ kind[v] \in AllKinds /\ memory' = memory /\ Active(h) /\ up
        /\ FileCurrent' /\ UNCHANGED <<kind, pod, view, call, op, vol, inFlight, up>>
        /\ (Ephemeral(v) => /\ step[h] \notin {"restore", "restoring"}
                            /\ op[h] = "publish" /\ step[h] \in {"throttle", "format"} => v \in memory)
    BY DEF NodeInv, TypeOK, CleanInv, FileCurrent, HandlersRecord, CreateLV, Mount, LabelRestored,
       RestoreData, Throttle, Format, Cleanup, Remove, CleanFails, Fails, FormatFails, At, Active,
       kubelet, store
  <1>1. ASSUME NEW s \in Steps, step' = [step EXCEPT ![h] = s], lvs' \in {lvs, lvs \cup {v}, lvs \ {v}},
               mounts' \in {mounts, mounts \cup {v}, mounts \ {v}}, Recorded(h, s)
        PROVE  CleanInv'
    <2>1. Moves(h, s)
      BY <1>0, <1>1 DEF Moves
    <2> QED BY <1>0, <1>1, <2>1, MovesRecord
  <1>2. CASE CreateLV(h)
    <2> DEFINE s == IF kind[v] = "direct" THEN "addVolume" ELSE "mount"
    <2>1. op[h] = "publish" /\ s \in Steps /\ s \in {"addVolume", "mount"}
          /\ step' = [step EXCEPT ![h] = s] /\ lvs' = lvs \cup {v} /\ mounts' = mounts
      BY <1>2 DEF CreateLV, At, GoTo, Steps, NodeInv, HandlerKnows
    <2> HIDE DEF s
    <2>2. Recorded(h, s)
      BY <2>1 DEF Recorded
    <2> QED BY <1>1, <2>1, <2>2
  <1>3. CASE Mount(h)
    <2> DEFINE s == AfterMount(v)
    <2>1. op[h] = "publish" /\ s \in Steps /\ kind[v] # "direct"
          /\ step' = [step EXCEPT ![h] = s] /\ lvs' = lvs /\ mounts' = mounts \cup {v}
      BY <1>3 DEF Mount, At, GoTo, Steps, NodeInv, HandlerKnows, AfterMount
    <2>2. Ephemeral(v) => s = "addVolume"
      BY <2>1 DEF AfterMount, Ephemeral
    <2> HIDE DEF s
    <2>3. Recorded(h, s)
      BY <2>1, <2>2 DEF Recorded
    <2> QED BY <1>1, <2>1, <2>3
  <1>4. CASE LabelRestored(h) \/ RestoreData(h)
    <2>1. PICK s \in {"throttle", "restoring"} : step' = [step EXCEPT ![h] = s]
      BY <1>4 DEF LabelRestored, RestoreData, GoTo
    <2>2. lvs' = lvs /\ mounts' = mounts /\ ~Ephemeral(v) /\ s \in Steps
      BY <1>0, <1>4, <2>1 DEF LabelRestored, RestoreData, At, Steps
    <2> QED BY <1>1, <2>1, <2>2 DEF Recorded
  <1>5. CASE Throttle(h) \/ Format(h)
    <2>1. op[h] = "publish" /\ step' = [step EXCEPT ![h] = "ok"] /\ lvs' = lvs /\ mounts' = mounts
          /\ (Ephemeral(v) => v \in memory) /\ "ok" \in Steps
      BY <1>0, <1>5 DEF Throttle, Format, At, GoTo, NodeInv, HandlerKnows, disk, Steps
    <2>2. Recorded(h, "ok")
      BY <1>0, <2>1 DEF Recorded
    <2> QED BY <1>1, <2>1, <2>2
  <1>6. ASSUME Ephemeral(v), op[h] = "unpublish", v \in lvs
        PROVE  v \in memory
    <2>1. pod[v] = "gone" /\ Entries = memory
      BY <1>0, <1>6 DEF CleanInv, HandlersRecord, Entries
    <2>2. ~Recording(v)
      BY <1>0, <1>6 DEF Recording, NodeInv, OneHandlerPerVolume, Active
    <2> QED BY <1>0, <1>6, <2>1, <2>2 DEF CleanInv, LVsRecorded
  <1>7. CASE Cleanup(h)
    <2>1. op[h] = "unpublish" /\ step' = [step EXCEPT ![h] = "remove"] /\ lvs' = lvs
          /\ mounts' = mounts \ {v} /\ "remove" \in Steps
      BY <1>7 DEF Cleanup, At, GoTo, NodeInv, HandlerKnows, Steps
    <2>2. Recorded(h, "remove")
      BY <1>0, <1>6, <2>1 DEF Recorded
    <2> QED BY <1>1, <2>1, <2>2
  <1>8. CASE Remove(h)
    <2> DEFINE s == IF v \notin memory THEN "ok" ELSE IF v \in lvs THEN "deleteVolume" ELSE "err"
    <2>1. op[h] = "unpublish" /\ step' = [step EXCEPT ![h] = s] /\ mounts' = mounts
          /\ lvs' = IF v \in memory THEN lvs \ {v} ELSE lvs
      BY <1>8 DEF Remove, At, GoTo, NodeInv, HandlerKnows
    <2>2. s \in Steps
      BY DEF Steps
    <2>3. Ephemeral(v) => v \notin lvs'
      BY <1>6, <2>1
    <2>4. Recorded(h, s)
      BY <2>1, <2>3 DEF Recorded
    <2> HIDE DEF s
    <2> QED BY <1>1, <2>1, <2>2, <2>4
  <1>9. CASE CleanFails(h)
    <2>1. step' = [step EXCEPT ![h] = "err"] /\ mounts' = mounts /\ lvs' \in {lvs, lvs \ {v}}
          /\ ~AtRisk(h) /\ "err" \in Steps /\ op[h] \in {"publish", "unpublish"}
      BY <1>9 DEF CleanFails, Fails, FormatFails, GoTo, disk, Steps, NodeInv, TypeOK
    <2>2. ASSUME Ephemeral(v), pod[v] = "gone", v \in lvs
          PROVE  v \in memory
      <3>1. CASE op[h] = "unpublish"
        BY <1>6, <2>2, <3>1
      <3>2. CASE op[h] = "publish"
        <4>1. step[h] = "throttle"
          BY <1>0, <1>9, <2>1, <2>2, <3>2 DEF CleanFails, Fails, FormatFails, At, AtRisk,
                                             NodeInv, HandlerKnows
        <4> QED BY <1>0, <2>2, <3>2, <4>1
      <3> QED BY <2>1, <3>1, <3>2
    <2>3. Recorded(h, "err")
      BY <1>0, <2>1, <2>2 DEF Recorded
    <2> QED BY <1>1, <2>1, <2>3
  <1> QED BY <1>2, <1>3, <1>4, <1>5, <1>7, <1>8, <1>9

\* The store: the file is the map again before anything can crash.
LEMMA StoreRecord ==
    ASSUME NodeInv, CleanInv, NEW h \in Handlers, AddVolume(h) \/ DeleteVolume(h) \/ Saved(h)
    PROVE  CleanInv'
  <1> DEFINE v == vol[h]
  <1>0. v \in Volumes /\ Active(h) /\ up /\ UNCHANGED <<kind, kubelet, op, vol, inFlight, up, disk>>
    BY DEF NodeInv, TypeOK, AddVolume, DeleteVolume, Update, Saved, At, Active
  <1>1. ASSUME NEW s, step' = [step EXCEPT ![h] = s], Recorded(h, s), FileCurrent',
               memory' \in {memory, memory \cup {v}, memory \ {v}}
        PROVE  CleanInv'
    <2>1. Moves(h, s)
      BY <1>0, <1>1 DEF Moves, kubelet, disk
    <2> QED BY <1>0, <1>1, <2>1, MovesRecord
  <1>2. CASE AddVolume(h)
    <2>1. /\ op[h] = "publish" /\ step' = [step EXCEPT ![h] = "saving"] /\ FileCurrent'
          /\ memory' = memory \cup {v}
      BY <1>0, <1>2 DEF AddVolume, Update, At, GoTo, NodeInv, HandlerKnows, FileCurrent
    <2>2. Recorded(h, "saving")
      BY <2>1 DEF Recorded
    <2> QED BY <1>1, <2>1, <2>2
  <1>3. CASE DeleteVolume(h)
    <2>1. /\ op[h] = "unpublish" /\ step' = [step EXCEPT ![h] = "saving"] /\ FileCurrent'
          /\ memory' = memory \ {v}
      BY <1>0, <1>3 DEF DeleteVolume, Update, At, GoTo, NodeInv, HandlerKnows, FileCurrent
    <2>2. Ephemeral(v) => v \notin lvs'
      BY <1>0, <1>3, <2>1 DEF DeleteVolume, Update, At, CleanInv, HandlersRecord, disk
    <2>3. Recorded(h, "saving")
      BY <2>1, <2>2 DEF Recorded
    <2> QED BY <1>1, <2>1, <2>3
  <1>4. CASE Saved(h)
    <2>1. /\ step' = [step EXCEPT ![h] = AfterSave(h)] /\ FileCurrent' /\ memory' = memory
          /\ op[h] \in {"publish", "unpublish"}
      BY <1>0, <1>4 DEF Saved, GoTo, FileCurrent, NodeInv, TypeOK
    <2>2. Ephemeral(v) => /\ op[h] = "publish" => v \in memory'
                          /\ op[h] = "unpublish" => v \notin lvs'
      BY <1>0, <1>4, <2>1 DEF Saved, At, CleanInv, HandlersRecord, disk
    <2>3. AfterSave(h) \in {"ok", "format", "throttle"}
      BY DEF AfterSave
    <2>4. Recorded(h, AfterSave(h))
      BY <2>1, <2>2, <2>3 DEF Recorded
    <2> QED BY <1>1, <2>1, <2>4
  <1> QED BY <1>2, <1>3, <1>4

\* Requests and pods.
LEMMA KubeletRecord ==
    ASSUME NodeInv, CleanInv, NEW v \in Volumes,
           Kubelet(v) \/ Aborted(v) \/ Timeout(v) \/ CleanPodGone(v) \/ PodAgain(v)
    PROVE  CleanInv'
  <1>0. /\ UNCHANGED <<kind, up, memory, file, readable, lvs>>
        /\ FileCurrent' /\ Entries' = Entries
    BY DEF Kubelet, Publish, Unpublish, Enter, Aborted, Timeout, CleanPodGone, PodGone, PodAgain,
       vars, store, disk, CleanInv, FileCurrent, Entries
  <1>1. ASSUME NEW h \in Handlers, Publish(v, h) \/ Unpublish(v, h)
        PROVE  CleanInv'
    <2>1. PICK what \in {"publish", "unpublish"}, first \in {"createLV", "mount", "cleanup"} :
            /\ Enter(v, h, what, first)
            /\ what = "publish" => pod[v] = "alive" /\ first \in {"createLV", "mount"}
            /\ what = "unpublish" => pod[v] = "gone" /\ first = "cleanup"
            /\ view[v] # "released"
      BY <1>1 DEF Publish, Unpublish, Wanted, Unused
    <2>2. /\ step' = [step EXCEPT ![h] = first]
          /\ vol' = [vol EXCEPT ![h] = v]
          /\ op' = [op EXCEPT ![h] = what]
          /\ view' = [view EXCEPT ![v] = "uncertain"]
          /\ pod' = pod /\ step[h] = "idle"
      BY <2>1 DEF Enter
    <2>3. HandlersRecord'
      BY <1>0, <2>1, <2>2 DEF NodeInv, TypeOK, CleanInv, HandlersRecord, Active, Ephemeral
    <2>4. \A w \in Volumes : Recording(w) => Recording(w)'
      BY <2>2 DEF NodeInv, TypeOK, Recording
    <2>5. LVsRecorded'
      BY <1>0, <2>2, <2>4 DEF NodeInv, TypeOK, CleanInv, LVsRecorded, Ephemeral
    <2>6. NoOrphan'
      BY <1>0, <2>2 DEF NodeInv, TypeOK, CleanInv, NoOrphan, Ephemeral
    <2> QED BY <1>0, <2>3, <2>5, <2>6 DEF CleanInv
  <1>2. CASE Aborted(v) \/ Timeout(v)
    BY <1>0, <1>2 DEF Aborted, Timeout, vars, kubelet, handler, CleanInv, HandlersRecord, LVsRecorded,
       NoOrphan, Recording, Active, Ephemeral
  <1>3. CASE CleanPodGone(v)
    <2>1. pod' = [pod EXCEPT ![v] = "gone"] /\ UNCHANGED <<view, op, vol, step>>
      BY <1>3 DEF CleanPodGone, PodGone, handler
    <2>2. HandlersRecord'
      BY <1>0, <2>1 DEF NodeInv, TypeOK, CleanInv, HandlersRecord, Active, Ephemeral
    <2>3. \A w \in Volumes : Recording(w) <=> Recording(w)'
      BY <2>1 DEF Recording
    <2>4. ASSUME Ephemeral(v), v \in lvs
          PROVE  v \in Entries \/ Recording(v)
      <3>1. CASE view[v] \in {"fresh", "mounted"}
        BY <2>4, <3>1 DEF CleanInv, LVsRecorded
      <3>2. CASE Publishing(v)
        <4>1. PICK h \in Handlers : vol[h] = v /\ op[h] = "publish" /\ step[h] \notin {"idle", "err"}
          BY <3>2 DEF Publishing
        <4>2. up /\ Entries = memory
          BY <4>1 DEF NodeInv, OneHandlerPerVolume, Active, Entries
        <4>3. \/ step[h] \in {"createLV", "mount", "addVolume"}
              \/ step[h] \in {"saving", "throttle", "format", "ok"}
          BY <2>4, <4>1 DEF NodeInv, TypeOK, Steps, HandlerKnows, CleanInv, HandlersRecord
        <4> QED BY <2>4, <4>1, <4>2, <4>3 DEF CleanInv, HandlersRecord, Recording
      <3> QED BY <1>3, <2>4, <3>1, <3>2 DEF CleanPodGone
    <2>5. LVsRecorded'
      BY <1>0, <2>1, <2>3, <2>4 DEF NodeInv, TypeOK, CleanInv, LVsRecorded, Ephemeral
    <2>6. NoOrphan'
      BY <1>0, <2>1 DEF CleanInv, NoOrphan, Ephemeral
    <2> QED BY <1>0, <2>2, <2>5, <2>6 DEF CleanInv
  <1>4. CASE PodAgain(v)
    <2>1. /\ pod' = [pod EXCEPT ![v] = "alive"] /\ view' = [view EXCEPT ![v] = "fresh"]
          /\ ~Ephemeral(v) /\ UNCHANGED <<op, vol, step>>
      BY <1>4 DEF PodAgain, handler
    <2>2. \A w \in Volumes : Ephemeral(w) => pod'[w] = pod[w] /\ view'[w] = view[w]
      BY <2>1 DEF NodeInv, TypeOK
    <2>3. \A w \in Volumes : Recording(w) <=> Recording(w)'
      BY <2>1 DEF Recording
    <2>4. HandlersRecord'
      BY <1>0, <2>1, <2>2 DEF NodeInv, TypeOK, CleanInv, HandlersRecord, Active, Ephemeral
    <2>5. LVsRecorded' /\ NoOrphan'
      BY <1>0, <2>2, <2>3 DEF CleanInv, LVsRecorded, NoOrphan, Ephemeral
    <2> QED BY <1>0, <2>4, <2>5 DEF CleanInv
  <1> QED BY <1>1, <1>2, <1>3, <1>4 DEF Kubelet

LEMMA EndRecord ==
    ASSUME NodeInv, CleanInv, CleanCrash \/ Restart \/ \E h \in Handlers : Reply(h)
    PROVE  CleanInv'
  <1>1. CASE CleanCrash
    <2>1. /\ UNCHANGED <<kind, pod, view, op, vol, file, readable, lvs>> /\ readable /\ up /\ ~up'
          /\ step' = [h \in Handlers |-> "idle"] /\ \A h \in Handlers : ~AtRisk(h)
      BY <1>1 DEF CleanCrash, Crash, disk
    <2>2. Entries' = Entries /\ FileCurrent'
      BY <2>1 DEF Entries, CleanInv, FileCurrent
    <2>3. HandlersRecord'
      BY <2>1 DEF HandlersRecord, Active
    <2>4. \A w \in Volumes : Ephemeral(w) /\ pod[w] = "gone" => ~Recording(w)
      BY <2>1 DEF Recording, AtRisk
    <2>5. LVsRecorded' /\ NoOrphan'
      BY <2>1, <2>2, <2>4 DEF CleanInv, LVsRecorded, NoOrphan, Ephemeral
    <2> QED BY <2>2, <2>3, <2>5 DEF CleanInv
  <1>2. CASE Restart
    <2>1. /\ UNCHANGED <<kind, pod, view, op, vol, step, file, readable, lvs>> /\ ~up /\ up'
          /\ memory' = file
      BY <1>2 DEF Restart, kubelet, handler, disk
    <2>2. Entries' = Entries /\ FileCurrent'
      BY <2>1 DEF Entries, FileCurrent
    <2>3. \A h \in Handlers : step[h] = "idle"
      BY <2>1 DEF NodeInv, OneHandlerPerVolume, Active
    <2>4. HandlersRecord'
      BY <2>1, <2>3 DEF HandlersRecord, Active
    <2>5. \A w \in Volumes : ~Recording(w)
      BY <2>3 DEF Recording
    <2>6. LVsRecorded' /\ NoOrphan'
      BY <2>1, <2>2, <2>5 DEF CleanInv, LVsRecorded, NoOrphan, Ephemeral
    <2> QED BY <2>2, <2>4, <2>6 DEF CleanInv
  <1>3. ASSUME NEW h \in Handlers, Reply(h)
        PROVE  CleanInv'
    <2> DEFINE v == vol[h]
    <2>1. /\ step[h] \in {"ok", "err"} /\ up
          /\ step' = [step EXCEPT ![h] = "idle"]
          /\ UNCHANGED <<kind, pod, op, vol, up, memory, file, readable, lvs>>
          /\ \/ view' = view
             \/ /\ step[h] = "ok" /\ op[h] = "publish" /\ view' = [view EXCEPT ![v] = "mounted"]
             \/ /\ step[h] = "ok" /\ op[h] = "unpublish" /\ view' = [view EXCEPT ![v] = "released"]
      BY <1>3 DEF Reply, GoTo, Answered, store, disk, NodeInv, TypeOK
    <2>2. Entries = memory /\ Entries' = Entries /\ FileCurrent' /\ v \in Volumes
      BY <2>1 DEF Entries, CleanInv, FileCurrent, NodeInv, TypeOK
    <2>3. HandlersRecord'
      BY <2>1 DEF NodeInv, TypeOK, CleanInv, HandlersRecord, Active, Ephemeral
    <2>4. \A w \in Volumes : Recording(w) => Recording(w)'
      BY <2>1 DEF NodeInv, TypeOK, Recording
    <2>5. step[h] = "ok" /\ Ephemeral(v) => /\ op[h] = "publish" => v \in memory
                                            /\ op[h] = "unpublish" => v \notin lvs
      BY DEF CleanInv, HandlersRecord
    <2>6. LVsRecorded'
      BY <2>1, <2>2, <2>4, <2>5 DEF NodeInv, TypeOK, CleanInv, LVsRecorded, Ephemeral
    <2>7. NoOrphan'
      BY <2>1, <2>2, <2>5 DEF NodeInv, TypeOK, CleanInv, NoOrphan, Ephemeral
    <2> QED BY <2>2, <2>3, <2>6, <2>7 DEF CleanInv
  <1> QED BY <1>1, <1>2, <1>3

LEMMA CleanInductive == NodeInv /\ CleanInv /\ [CleanNext]_vars => NodeInv' /\ CleanInv'
  <1> SUFFICES ASSUME NodeInv, CleanInv, [CleanNext]_vars
               PROVE  CleanInv'
    BY Inductive, CleanIsNext
  <1>1. ASSUME NEW h \in Handlers, Works(h) \/ CleanFails(h)
        PROVE  CleanInv'
    BY <1>1, DiskRecord, StoreRecord, EndRecord DEF Works
  <1>2. CASE UNCHANGED vars
    BY <1>2 DEF vars, kubelet, handler, store, disk, CleanInv, FileCurrent, HandlersRecord, LVsRecorded,
       NoOrphan, Recording, Entries, Active, Ephemeral
  <1> QED BY <1>1, <1>2, KubeletRecord, EndRecord DEF CleanNext

\* In the clean environment the logical volume of an ephemeral volume is gone once kubelet
\* has unpublished it, across timeouts, failed commands and crashes: the store's file names
\* it from before the publish is answered until after lvremove.
THEOREM NothingOrphaned == CleanSpec => []NoOrphan
  <1>1. CleanInv => NoOrphan
    BY DEF CleanInv
  <1> QED BY <1>1, CleanInductive, InitInv, CleanInit, PTL DEF CleanSpec
=============================================================================
