SPECIFICATION FairSpec
CONSTANTS
    v1 = v1
    s1 = s1
    Vols = {v1, v2}
    Snaps = {s1}
    SourceOf <- MCSourceOf
    From <- MCFrom
    Kinds <- MCKinds
    MaxCalls = 2
    MaxSize = 2
    MaxFaults = 1
    Misreads = FALSE
CHECK_DEADLOCK FALSE
INVARIANTS
    TypeOK
    CapacityBacked
    ReadySnapshotUsable
    DeletedLeavesNothing
PROPERTIES
    ImplementsStore
    ReleasedIsRemoved
