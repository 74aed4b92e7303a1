------------------------- MODULE MCNodeStorageSync --------------------------
(***************************************************************************)
(* A small instance of NodeStorageSync: a node with an agent and one       *)
(* without.  Group va is to be made of the device d1, vb of d2 and d3; the *)
(* configuration for the label "b" hides vb and mounts d3 instead.         *)
(***************************************************************************)
EXTENDS NodeStorageSync

CONSTANTS n1, n2, va, vb, d1, d2, d3, s1, s2, s3

MCDevSize == (d1 :> 5) @@ (d2 :> 1) @@ (d3 :> 1)
MCSnaps == <<s1, s2, s3>>
MCHomeOf == (s1 :> va) @@ (s2 :> va) @@ (s3 :> vb)

Pools == [include |-> {va, vb, d3}, exclude |-> {},
          init |-> [vgs |-> <<[name |-> va, devices |-> <<d1>>],
                              [name |-> vb, devices |-> <<d2, d3>>]>>,
                    mountpoints |-> {}]]
Mounts == [include |-> {va, vb}, exclude |-> {vb},
           init |-> [vgs |-> <<[name |-> va, devices |-> <<d1>>]>>, mountpoints |-> {d3}]]

Old == [Pools EXCEPT !.exclude = {vb}, !.init.vgs = <<>>]
Plan == [global |-> Pools, nodes |-> <<[label |-> "b", spec |-> Mounts]>>]

MCConfigs == {NoConfig,
              Plan,
              [global |-> Mounts, nodes |-> <<>>]}

MCReservations == {(va :> [size |-> 2, percent |-> 0]),
                   (va :> [size |-> 9, percent |-> 0]),
                   (va :> [size |-> 0, percent |-> 80])}

\* An empty host, one whose first device is missing, one with two snapshots in va, and
\* one with snapshots in va, which is full, and in vb, which has room.
Fresh == [dev |-> [d \in Devs |-> "ok"], pvs |-> {}, vg |-> [v \in VGs |-> {}],
          local |-> [v \in VGs |-> 0], foreign |-> [v \in VGs |-> 0],
          snaps |-> {}, over |-> {}, mounted |-> {}]
Used == [Fresh EXCEPT !.pvs = {d1}, !.vg[va] = {d1}, !.local[va] = 1, !.foreign[va] = 2,
                      !.snaps = {s1, s2}]
Full == [Fresh EXCEPT !.pvs = Devs, !.vg = (va :> {d1}) @@ (vb :> {d2, d3}),
                      !.local[va] = 1, !.foreign[va] = 4, !.snaps = {s1, s3}]
Broken == [Fresh EXCEPT !.dev[d1] = "gone"]

\* Nodes that exist, the spec the NLS of n1 has (or none), and who runs.
Scene(controller, nodes, config, spec, hosts) ==
    [controller |-> controller, movable |-> {n1}, nlsc |-> config,
     node |-> [n \in Nodes |-> IF n \in nodes THEN "a" ELSE NoNode],
     nls |-> [n \in Nodes |-> IF n = n1 /\ spec # Idle THEN NLS(spec) ELSE NoNLS],
     host |-> hosts, kinds |-> {}, max |-> 0]
Disturbed(s, kinds, max) == [s EXCEPT !.kinds = kinds, !.max = max]

\* The controller alone, with one node and with two; the agent alone; and both, with
\* an NLS that is missing or out of date.
MCScenes ==
    {Disturbed(Scene(TRUE, {n1}, Plan, Idle, <<>>),
               {"node", "relist", "config", "api", "restart", "nls"}, 2),
     Disturbed(Scene(TRUE, {n1}, Plan, Pools, <<>>), {"node", "relist"}, 3),
     Disturbed(Scene(TRUE, {n1, n2}, Plan, Idle, <<>>), {"api"}, 1)}
    \cup {Disturbed(Scene(FALSE, {n1}, NoConfig, s, n1 :> h),
               {"nls", "volume", "lvm", "device", "reboot", "restart", "snapshot", "api"}, 2) :
            s \in {Pools, Mounts}, h \in {Used, Broken}}
    \cup {Disturbed(Scene(FALSE, {n1}, NoConfig, Mounts, n1 :> Full), {"snapshot"}, 2)}
    \cup {Scene(TRUE, {n1}, Plan, s, n1 :> Broken) : s \in {Idle, Old}}
=============================================================================
