--------------------------- MODULE MCDeviceLedger ---------------------------
(***************************************************************************)
(* Small instances of DeviceLedger for TLC: p1 mounts every claim, the     *)
(* other pods only c1, so that a claim is shared.                          *)
(***************************************************************************)
EXTENDS DeviceLedger

CONSTANTS c1, c2, p1, d3

MCPodPVCs == [p \in Pods |-> IF p = p1 THEN PVCs ELSE PVCs \cap {c1}]

MCPVCRequest == [c \in PVCs |-> IF c = c1 THEN 1 ELSE 2]

\* All devices are HDDs but d3.
MCDeviceMedia == [d \in Devices |-> IF d = d3 THEN "ssd" ELSE "hdd"]

MCPVCMedia == [c \in PVCs |-> IF c \in {c1, c2} THEN "hdd" ELSE "ssd"]
=============================================================================
