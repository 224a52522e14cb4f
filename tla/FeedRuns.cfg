SPECIFICATION FairSpec
CONSTANTS
    Workers = {w1, w2}
    Flush = Flush
    NoOwner = NoOwner
    Listings = {l1}
    Unread = Unread
    MaxRuns = 2
    MaxUploads = 3
    Threshold = 1
    MaxFaults = 1
INVARIANTS BoundCarriesPayload SettledByOwnUpload
PROPERTIES NoConcurrentSubmission 
CHECK_DEADLOCK FALSE
