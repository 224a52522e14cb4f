SPECIFICATION FairSpec
CONSTANTS
    Events = {e1}
    Dispatchers = {d1, d2}
    Tokens = {k1, k2, k3, k4}
    NoToken = NoToken
    NoEvent = NoEvent
    MaxAttempts = 3
    AttemptsCap = 4
    Forced = {e1}
CHECK_DEADLOCK FALSE
PROPERTIES
    ClaimNotOverruled
    EventuallyClosed
