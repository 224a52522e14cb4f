SPECIFICATION Spec
CONSTANTS
    Dispatches = {media1, resume1, ai1, parse1, bulk1}
    MediaRows = {media1}
    MediaRow = media1
    FirstResume = {resume1}
    SecondResume = {}
    MaxClaims = 2
    Refused = {}
    AIRows = {ai1}
    BulkRows = {bulk1}
    Publishers = {p1, p2}
    Workers = {w1, w2}
    Tokens = {t1, t2}
    NoToken = NoToken
    NoDispatch = NoDispatch
    KindOf <- MCKindOf
    JobOf <- MCJobOf
    ClaimOf <- MCClaimOf
    MaxRun = 2
    LongLease = {media1, resume1, bulk1}
SYMMETRY Processes
CONSTRAINTS OneJob ClaimsBounded SmoothDelivery
CHECK_DEADLOCK FALSE
INVARIANTS
    ProviderBoundaryAtMostOnce
    NeverResubmittable
    
    OneApplier
    SingleExecutor
PROPERTIES
    TokenExecutedOnce
