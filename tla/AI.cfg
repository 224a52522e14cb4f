SPECIFICATION FairSpec
CONSTANTS
    Reservations = {1, 2}
    Domains = {p1, p2}
    Deletable = {p1}
    Workers = {w1}
    NoOp = NoOp
    NoDomain = NoDomain
    SweepLimit = 1
    Estimates = {2}
    Usages = {3}
    GrantKeys = {g1}
    PurchaseKeys = {t1}
    ReversalKeys = {r1}
    Limits = {1}
    PackAmounts = {2}
    BootstrapLimit = 2
    BootstrapPurchase = 2
CHECK_DEADLOCK FALSE
INVARIANTS
    ReservationsBacked
    OneUnresolvedPerDomain
    AutoReleasedNeverCrossed
    UnresolvedOwnerExists
    ReservedMatchesOpen
PROPERTIES
    ReservationSurfaces
    PaidResultApplied
