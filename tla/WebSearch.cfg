SPECIFICATION FairSpec
CONSTANTS
    Runs = {r1}
    Slots = 1
    Providers = 2
    Workers = {w1, w2}
    NoRun = NoRun
    NoWorker = NoWorker
    GlobalLimit = 1
    ProviderLimit = 1
    MaxFaults = 2
INVARIANTS PaidOnce UnknownFenced PaidResultsKept LateResultsDiscarded QuotaRespected
PROPERTIES ClosedStays WorkflowsClose
CHECK_DEADLOCK FALSE
