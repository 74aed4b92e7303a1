SPECIFICATION FairSpec
CONSTANTS
    v1 = v1
    s1 = s1
    Vols = {v1}
    Snaps = {s1}
    SourceOf <- MCSourceOf
    Policies <- MCEither
    Config = config
    MaxFaults = 2
CHECK_DEADLOCK FALSE
PROPERTIES
    AskedIsReady
    DeletedGoes
    UnusedIsCleaned
