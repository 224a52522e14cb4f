SPECIFICATION FairSpec
CONSTANTS
    k1 = k1
    k2 = k2
    r1 = r1
    r2 = r2
    Keys = {k1}
    PayloadOf <- MCCredits
    Topups = {"credits"}
    OddChoices <- MCGenuine
    Refunds = {r1, r2}
    RefundOf <- MCRefundOf
    RefundAmount <- MCRefundAmount
    Chargebacks = {r2}
    Price = 2
    Notified <- MCRefundsOnly
    Procs = {p1}
    NoKey = NoKey
    NoProc = NoProc
    NoEvent = NoEvent
    Starts = {"trial"}
    MaxAttempts = 1
    MaxPolls = 1
    MaxKeys = 1
    MaxVersion = 1
PROPERTIES
    CheckoutResolves EventResolves
CHECK_DEADLOCK FALSE
