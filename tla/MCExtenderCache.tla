-------------------------- MODULE MCExtenderCache ---------------------------
(***************************************************************************)
(* Instances of ExtenderCache for TLC.  c1 and c5 are LVM claims, c4 is an *)
(* LVM claim whose storage class names v1, c2 and c3 take a device and c6  *)
(* the mount point d2.                                                     *)
(* A pod without claims has an inline volume.                              *)
(***************************************************************************)
EXTENDS ExtenderCache, TLC

CONSTANTS c1, c2, c3, c4, c5, c6, p1, p2, p3, p4, p5, p6, p7, v1, v2, d2

MCKind == [c \in Claims |-> CASE c \in {c1, c4, c5} -> "LVM"
                              [] c \in {c2, c3}     -> "Device"
                              [] c = c6             -> "MountPoint"]
MCSize == [c \in Claims |-> IF c = c2 THEN 2 ELSE 1]
MCVGParam == [c \in Claims |-> IF c = c4 THEN v1 ELSE None]
MCMedia == [c \in Claims |-> "ssd"]
MCDiskKind == [d \in Disks |-> IF d = d2 THEN "MountPoint" ELSE "Device"]
MCDiskSize == [d \in Disks |-> IF d = d2 THEN 1 ELSE 2]
MCDiskMedia == [d \in Disks |-> "ssd"]
MCPodClaims == (p1 :> <<c2>>) @@ (p2 :> <<c3>>) @@ (p3 :> <<>>)
               @@ (p4 :> <<c4>>) @@ (p5 :> <<c5, c4, c2, c6>>) @@ (p6 :> <<c5>>) @@ (p7 :> <<c1>>)
MCInlineVG == [p \in Pods |-> IF p = p3 THEN v1 ELSE None]
MCInlineSize == [p \in Pods |-> 1]
MCFirstCap == [v \in VGs |-> 1]
MCMaxCap == [v \in VGs |-> IF v = v1 THEN 2 ELSE 1]

\* Rivals for a disk, for a volume group, for one with a claim that names it or
\* with an inline volume, and one pod with claims of every kind.
MCBatches == {{p1, p2}, {p7, p6}, {p4, p3}, {p5}}

NodeSymmetry == Permutations(Nodes)
=============================================================================
