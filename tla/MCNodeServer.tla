---------------------------- MODULE MCNodeServer ----------------------------
(***************************************************************************)
(* Small instances of NodeServer: v1 is of any kind, other volumes are     *)
(* ephemeral ones, so that two of them share the store.                    *)
(***************************************************************************)
EXTENDS NodeServer

CONSTANT v1

MCKinds == [v \in Volumes |-> IF v = v1 THEN AllKinds ELSE {"inline"}]
=============================================================================
