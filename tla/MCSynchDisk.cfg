SPECIFICATION FairSpec
CONSTANTS
    Threads = {t1, t2, t3}
    Sectors = {s1}
    Data = {d1, d2}
    NoThread = NoThread
    NoRequest = NoRequest
    NoData = NoData
    MaxRequests = 2
INVARIANTS
    MutualExclusion
    RequestFindsDeviceIdle
    ReleasedByHolder
    InterruptAnswersRequest
    LockWakeupNotLost
PROPERTIES
    RequestsReturn
    ImplementsSectorStore
