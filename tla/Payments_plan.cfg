SPECIFICATION Spec
CONSTANTS
    k1 = k1
    k2 = k2
    r1 = r1
    r2 = r2
    Keys = {k1}
    PayloadOf <- MCMonthly
    Topups = {}
    OddChoices <- MCMaybeOdd
    Refunds = {}
    RefundOf <- MCRefundOf
    RefundAmount <- MCRefundAmount
    Chargebacks = {}
    Price = 2
    Notified <- MCCancellations
    Procs = {p1, p2}
    NoKey = NoKey
    NoProc = NoProc
    NoEvent = NoEvent
    Starts = {"trial", "active", "past_due"}
    MaxAttempts = 1
    MaxPolls = 1
    MaxKeys = 1
    MaxVersion = 2
INVARIANT
    BooksMatchProvider
PROPERTIES
    DecisionsFinal
SYMMETRY MCSymmetry
CHECK_DEADLOCK FALSE
