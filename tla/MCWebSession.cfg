SPECIFICATION Spec

CONSTANTS
    Request = {r1, r2}
    User = {alice}
    Nobody = nobody
    Anonymous = 1
    Authenticated = 2
    Retention = 2
    CheckTtl = 1
    Latency = 1
    MaxTime = 2
    MaxSession = 2
    MaxSignIns = 1

SYMMETRY Symmetry

INVARIANTS
    SignedOutStaysOut

PROPERTIES
    SessionIsBounded
    AdministratorWasRecent

CHECK_DEADLOCK FALSE
