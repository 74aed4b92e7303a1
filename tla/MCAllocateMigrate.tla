-------------------------- MODULE MCAllocateMigrate --------------------------
(***************************************************************************)
(* Small instances of AllocateMigrate: p1 mounts every claim, the other    *)
(* pods only c1, so that c1 is shared; c2, if there, has an available PV.  *)
(***************************************************************************)
EXTENDS AllocateMigrate

CONSTANTS p1, c1, g1

MCPodPVCs == [p \in Pods |-> IF p = p1 THEN PVCs ELSE {c1}]

MCStaticPool == [c \in PVCs |-> IF c = c1 THEN NoPool ELSE g1]

MCDynamic == [c \in PVCs |-> NoPool]

MCLVM == [c \in PVCs |-> "LVM"]

MCDevice == [c \in PVCs |-> "Device"]
==============================================================================
