------------------------- MODULE MCResticSnapshots --------------------------
(***************************************************************************)
(* Small instances of ResticSnapshots: one volume with a snapshot of       *)
(* either deletion policy, or with one of each.                            *)
(***************************************************************************)
EXTENDS ResticSnapshots

CONSTANTS v1, s1

MCSourceOf == [s \in Snaps |-> v1]
MCMixed == {[s \in Snaps |-> IF s = s1 THEN "Delete" ELSE "Retain"]}
MCEither == [Snaps -> {"Delete", "Retain"}]
=============================================================================
