----------------------------- MODULE MCVGLedger -----------------------------
(***************************************************************************)
(* Small instances of VGLedger for TLC.  The sets of nodes, VGs, claims,   *)
(* volumes, pods and inline volumes come from the .cfg; the functions over *)
(* them are fixed here so that two pods share a claim, one claim's storage *)
(* class names a VG, and sizes differ.                                     *)
(***************************************************************************)
EXTENDS VGLedger, TLC

CONSTANTS v1, c1, c2, p1, p2, p3, w1, w2, w3

\* p1 mounts every claim, p2 only c2, p3 none.
MCPodPVCs == [p \in Pods |-> CASE p = p1 -> PVCs
                               [] p = p2 -> PVCs \cap {c2}
                               [] p = p3 -> {}]

MCPVCRequest == [c \in PVCs |-> IF c = c1 THEN MaxSize ELSE 1]

MCPVCVG == [c \in PVCs |-> IF c = c2 THEN v1 ELSE NoVG]

\* w1 and w2 belong to p2, the other inline volumes to p3; of those only w3
\* names a volume group.
MCVolPod  == [w \in Volumes |-> IF w \in {w1, w2} THEN p2 ELSE p3]
MCVolVG   == [w \in Volumes |-> IF w \in {w1, w2, w3} THEN v1 ELSE NoVG]
MCVolSize == [w \in Volumes |-> IF w = w1 THEN MaxSize ELSE 1]

\* Bound on the drift that the unrestricted environment can pile up.
RequestBound == \A n \in Nodes, v \in VGs : requested[n][v] \in -MaxSize..(2 * MaxSize)
============================================================================
