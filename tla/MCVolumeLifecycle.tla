------------------------- MODULE MCVolumeLifecycle --------------------------
(***************************************************************************)
(* Small instances of VolumeLifecycle: v1 is the source of every snapshot; *)
(* either the service creates it and other volumes are restored from s1,   *)
(* or the node creates it and other volumes use a device.                  *)
(***************************************************************************)
EXTENDS VolumeLifecycle

CONSTANTS v1, s1

MCSourceOf == [s \in Snaps |-> v1]
MCFrom == [v \in Vols |-> s1]
MCKinds == {[v \in Vols |-> IF v = v1 THEN "lvm" ELSE "restored"],
            [v \in Vols |-> IF v = v1 THEN "framework" ELSE "device"]}
=============================================================================
