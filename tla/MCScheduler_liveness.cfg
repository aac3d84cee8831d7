SPECIFICATION FairSpec
CONSTANTS
    Threads = {main, t1, t2}
    Main = main
    NoThread = NoThread
    L2Floor = 2
    L1Floor = 3
    MaxPriority = 3
    AgeStep = 1
    AgeLimit = 1
    Forked = {0, 2}
    MaxBurst = 0
PROPERTIES
    L1GetsCpu
    WaitingIsPromoted
