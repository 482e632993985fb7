SPECIFICATION FairSpec
CONSTANTS
    MaxFaults = 4
    MaxGeneration = 5
    MaxCalls = 2
INVARIANTS
    NoWriteBesideUndecided
    NegativeReceiptIsTrue
    RevisionNamesSnapshot
PROPERTIES
    TimerMeetsItsWake
    KeepsPromise
    WaitingIsResolved
CHECK_DEADLOCK FALSE
