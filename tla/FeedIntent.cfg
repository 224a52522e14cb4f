SPECIFICATION FairSpec
CONSTANTS
    Tokens = {t1, t2}
    NoToken = NoToken
    MaxRevision = 2
    MaxFaults = 3
INVARIANTS HoldIffUnsettled AcknowledgedWasCovered
PROPERTIES NoBlindReplay ChangesReachFeed
CHECK_DEADLOCK FALSE
