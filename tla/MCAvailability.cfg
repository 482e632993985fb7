SPECIFICATION FairSpec
CONSTANTS
    Repo = {r}
    MaxInstallation = 2
    MaxMessages = 3
    MaxChanges = 3
    MaxFaults = 2
INVARIANTS
    HandledIsGone
    SqlFollowsAccount
PROPERTIES
    LossIsRechecked
CHECK_DEADLOCK FALSE
