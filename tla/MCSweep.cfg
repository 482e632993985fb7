SPECIFICATION FairSweepSpec

CONSTANTS
    a = a
    b = b
    Account = {a, b}
    LastRow = 3
    AccountOf <- TwoOfOne
    Run = {s1}
    MaxThrottles = 2
    MaxErrors = 2

PROPERTIES
    SweepIsThorough
    ListedEndIsSettled

CHECK_DEADLOCK FALSE
