SPECIFICATION Spec
CONSTANTS
    k1 = k1
    k2 = k2
    r1 = r1
    r2 = r2
    Keys = {k1, k2}
    PayloadOf <- MCMonthly
    Topups = {}
    OddChoices <- MCOddSecond
    Refunds = {}
    RefundOf <- MCRefundOf
    RefundAmount <- MCRefundAmount
    Chargebacks = {}
    Price = 2
    Notified <- MCNone
    Procs = {p1, p2}
    NoKey = NoKey
    NoProc = NoProc
    NoEvent = NoEvent
    Starts = {"trial"}
    MaxAttempts = 2
    MaxPolls = 1
    MaxKeys = 2
    MaxVersion = 1
INVARIANTS
    OnePaymentPerIntent OneOpenPlanPayment
PROPERTIES
    ImplementsPurchase
SYMMETRY MCSymmetry
CHECK_DEADLOCK FALSE
