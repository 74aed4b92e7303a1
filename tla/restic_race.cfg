SPECIFICATION Spec
CONSTANTS
    v1 = v1
    s1 = s1
    Vols = {v1}
    Snaps = {s1, s2}
    SourceOf <- MCSourceOf
    Policies <- MCMixed
    Config = config
    MaxFaults = 0
CHECK_DEADLOCK FALSE
INVARIANTS
    ReadyIsRestorable
