SPECIFICATION Spec
CONSTANTS
    v1 = v1
    Volumes = {v1}
    Handlers = {h1, h2}
    Kinds <- MCKinds
    MaxFaults = 1
    NoHandler = NoHandler
CHECK_DEADLOCK FALSE
INVARIANT RestoredBeforeUse
