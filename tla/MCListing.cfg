SPECIFICATION ListingSpec
CONSTANTS
    LastTime = 2
    LastId = 4
    PageSize = 2
    MaxPages = 3
    MaxChanges = 3
INVARIANTS
    NothingIsPassedOver
    AbsenceIsEvidence
CHECK_DEADLOCK FALSE
