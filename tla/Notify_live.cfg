SPECIFICATION FairSpec
CONSTANTS
    Events = {e1}
    Tasks = {t1}
    LevelOf <- BillingEvent
    Recipients = {r1, r2}
    NoRecipient = NoRecipient
    Changeable = {"email"}
    NoEvent = NoEvent
    MaxRetries = 1
CHECK_DEADLOCK FALSE
PROPERTY
    TasksFinish
