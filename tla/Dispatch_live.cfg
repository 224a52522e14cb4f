SPECIFICATION FairSpec
CONSTANTS
    Dispatches = {ai1, parse1}
    MediaRows = {}
    MediaRow = ai1
    FirstResume = {}
    SecondResume = {}
    MaxClaims = 0
    Refused = {}
    AIRows = {ai1}
    BulkRows = {}
    Publishers = {p1}
    Workers = {w1, w2}
    Tokens = {t1, t2}
    NoToken = NoToken
    NoDispatch = NoDispatch
    KindOf <- MCKindOf
    JobOf <- MCJobOf
    ClaimOf <- MCClaimOf
    MaxRun = 2
    LongLease = {parse1}
CONSTRAINT OneJob
CHECK_DEADLOCK FALSE
PROPERTIES
    EventuallyTerminal
