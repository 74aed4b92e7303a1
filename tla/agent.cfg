SPECIFICATION FairSpec
CONSTANTS
    va = va
    vb = vb
    d1 = d1
    d2 = d2
    d3 = d3
    s1 = s1
    s2 = s2
    s3 = s3
    Nodes = {n1, n2}
    Labels = {"a", "b"}
    VGs = {va, vb}
    Width = 4
    DevSize <- MCDevSize
    Snaps <- MCSnaps
    HomeOf <- MCHomeOf
    Configs <- MCConfigs
    Reservations <- MCReservations
    All = all
    NoNode = noNode
    Tombstone = tombstone
    NoConfig = noConfig
    NoNLS = noNLS
    NoStatus = noStatus
    Idle = idle
    Workers = 2
    Scenes <- MCScenes
    n1 = n1
    n2 = n2
CHECK_DEADLOCK FALSE
INVARIANTS
    NLSGoesWithNode
PROPERTIES
    SpecFollowsConfig
    StatusFollowsHost
    ResourcesAreInited
    SnapshotsAreExtended
