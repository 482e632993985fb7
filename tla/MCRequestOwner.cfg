SPECIFICATION FairSpec
CONSTANTS
    Repo = {p1, p2}
    Attempt = {a1}
    Decision = {d1, d2}
    Reason = {y1, y2}
    Lifetime = 1
    MaxTime = 2
    MaxPlans = 2
    MaxEarly = 1
    MaxFaults = 1
INVARIANTS
    DecidedInTime
    ReceiptsAgree
    RevisionNamesRequest
PROPERTIES
    KeepsPromise
    PendingEnds
    ApprovedIsSubmitted
CHECK_DEADLOCK FALSE
