SPECIFICATION Spec
CONSTANTS
    Events = {e1}
    Tasks = {t1, t2}
    LevelOf <- CriticalEvent
    Recipients = {r1}
    NoRecipient = NoRecipient
    Changeable = {}
    NoEvent = NoEvent
    MaxRetries = 1
SYMMETRY Interchangeable
CHECK_DEADLOCK FALSE
INVARIANT
    TelegramAtMostOnce
