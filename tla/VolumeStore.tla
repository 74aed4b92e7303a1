---------------------------- MODULE VolumeStore -----------------------------
(***************************************************************************)
(* What the CSI controller service promises about volumes and read-only    *)
(* snapshots, whatever calls, commands and answers are lost or late: a     *)
(* volume goes away only after its claim and only while no snapshot that   *)
(* is still wanted is held on it, and a snapshot that was reported ready   *)
(* is held until its deletion is asked for.  VolumeLifecycle implements    *)
(* this.                                                                   *)
(***************************************************************************)
CONSTANTS Vols, Snaps, SourceOf

VARIABLES
    volume,   \* "none", "live", "released" or "gone"
    snap,     \* "none", "asked", "ready", "unwanted" or "gone"
    held      \* the snapshots that occupy space on the node

vars == <<volume, snap, held>>

Init ==
    /\ volume = [v \in Vols |-> "none"]
    /\ snap = [s \in Snaps |-> "none"]
    /\ held = {}

Provision(v) ==
    /\ volume[v] = "none"
    /\ \E st \in {"live", "released"} : volume' = [volume EXCEPT ![v] = st]
    /\ UNCHANGED <<snap, held>>

Release(v) ==
    /\ volume[v] = "live"
    /\ volume' = [volume EXCEPT ![v] = "released"]
    /\ UNCHANGED <<snap, held>>

Remove(v) ==
    /\ volume[v] = "released"
    /\ \A s \in held : SourceOf[s] = v => snap[s] \in {"unwanted", "gone"}
    /\ volume' = [volume EXCEPT ![v] = "gone"]
    /\ held' = {s \in held : SourceOf[s] # v}
    /\ UNCHANGED snap

Ask(s) ==
    /\ snap[s] = "none"
    /\ snap' = [snap EXCEPT ![s] = "asked"]
    /\ UNCHANGED <<volume, held>>

Take(s) ==
    /\ held' = held \cup {s}
    /\ UNCHANGED <<volume, snap>>

Report(s) ==
    /\ snap[s] = "asked"
    /\ snap' = [snap EXCEPT ![s] = "ready"]
    /\ held' = held \cup {s}
    /\ UNCHANGED volume

Discard(s) ==
    /\ snap[s] \in {"asked", "ready"}
    /\ snap' = [snap EXCEPT ![s] = "unwanted"]
    /\ UNCHANGED <<volume, held>>

\* Several snapshots of one volume may go at once, with the volume.
Drop(S) ==
    /\ \A s \in S : snap[s] # "ready"
    /\ held' = held \ S
    /\ UNCHANGED <<volume, snap>>

Finish(s) ==
    /\ snap[s] = "unwanted"
    /\ snap' = [snap EXCEPT ![s] = "gone"]
    /\ held' = held \ {s}
    /\ UNCHANGED volume

Next ==
    \/ \E v \in Vols : Provision(v) \/ Release(v) \/ Remove(v)
    \/ \E s \in Snaps : Ask(s) \/ Take(s) \/ Report(s) \/ Discard(s) \/ Finish(s)
    \/ \E S \in SUBSET Snaps : Drop(S)

Spec == Init /\ [][Next]_vars
=============================================================================
