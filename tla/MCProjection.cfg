SPECIFICATION FairSpec
CONSTANTS
    MaxRevision <- Lengths
    MaxFaults = 3
PROPERTIES
    KeepsPromise
    CatchesUp
CHECK_DEADLOCK FALSE
