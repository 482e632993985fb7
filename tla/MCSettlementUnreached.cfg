SPECIFICATION Spec
CONSTANTS
    Member = {m}
    Sweep = {}
    MaxInstallation = 2
    MaxWithdrawals = 0
    MaxFaults = 1
INVARIANTS
    NegativeEvidenceIsTrue
CHECK_DEADLOCK FALSE
