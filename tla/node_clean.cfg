SPECIFICATION FairCleanSpec
CONSTANTS
    v1 = v1
    Volumes = {v1, v2}
    Handlers = {h1, h2}
    Kinds <- MCKinds
    MaxFaults = 2
    NoHandler = NoHandler
CHECK_DEADLOCK FALSE
INVARIANTS
    PublishedReady
    NoOrphan
PROPERTIES
    RemovesOnlyUnused
    Settles
