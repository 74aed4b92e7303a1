SPECIFICATION FairCleanSpec
CONSTANTS
    p1 = p1
    c1 = c1
    g1 = g1
    Pods = {p1}
    PVCs = {c1, c2}
    Pools = {g1, g2}
    PodPVCs <- MCPodPVCs
    StaticPool <- MCStaticPool
    Kind <- MCLVM
    MaxFaults = 2
    NoPool = NoPool
    NoPV = NoPV
    NoPod = NoPod
CHECK_DEADLOCK FALSE
INVARIANTS
    MigrationsQueued
    ChargedWherePlaced
    BoundStaysCharged
PROPERTIES
    AllocationKept
    BoundPodMigrates
