SPECIFICATION FairSpec
CONSTANTS
    Requester = {r1, r2}
    Operation = {o1, o2}
    None = None
    Terms <- LimitedTerms
    Lifetime = 1
    Window = 2
    MaxRequests = 2
    MaxTime = 2
    MaxRevision = 2
    MaxFaults = 1
INVARIANTS
    UsesAreSpentOnce
    AcceptanceWasAllowed
    RejectionWasTrue
    RevisionNamesLink
PROPERTIES
    KeepsPromise
    RepeatedIsAnswered
CHECK_DEADLOCK FALSE
