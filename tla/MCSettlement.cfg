SPECIFICATION FairSpec
CONSTANTS
    Member = {m}
    Sweep = {s}
    MaxInstallation = 2
    MaxWithdrawals = 2
    MaxFaults = 2
INVARIANTS
    SettlementIsTrue
PROPERTIES
    SettlementIsFinal
    DeletionIsTold
    PollingEnds
CHECK_DEADLOCK FALSE
