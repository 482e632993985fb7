SPECIFICATION WebhookSpec

CONSTANTS
    Invitation = {i1, i2}
    Link = {l1}
    LinkOf <- OneLink
    Payload = {p1}
    Handler = {h1, h2}
    Nothing = Nothing

SYMMETRY Symmetry

INVARIANTS
    EventIsOfItsInvitation
    RedeliveryStays
    PendingIsNotSettled

CHECK_DEADLOCK FALSE
