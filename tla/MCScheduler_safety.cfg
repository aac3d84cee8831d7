SPECIFICATION Spec
CONSTANTS
    Threads = {main, t1, t2}
    Main = main
    NoThread = NoThread
    L2Floor = 2
    L1Floor = 4
    MaxPriority = 5
    AgeStep = 1
    AgeLimit = 1
    Forked = {0, 1, 2, 4}
    MaxBurst = 1
SYMMETRY Symmetry
INVARIANTS
    TypeOK
    ReadyIsQueuedOnce
    OneRunning
    DestroyedOffCpu
PROPERTIES
    DispatchesBest
