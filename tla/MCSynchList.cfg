SPECIFICATION FairSpec
CONSTANTS
    Threads = {t1, t2, t3}
    Items = {i1, i2}
    NoItem = NoItem
    NoThread = NoThread
    MaxCalls = 2
INVARIANTS
    SignalNotMissed
    ItemsHaveTakers
PROPERTIES
    CallsReturn
    ImplementsSharedQueue
