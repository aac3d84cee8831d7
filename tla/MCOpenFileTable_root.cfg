SPECIFICATION TableSpec
CONSTANTS
    Threads = {t1, t2, t3}
    Files = {f1, f2}
    Root = Root
    NULL = NULL
    NumOFTEntries = 3
SYMMETRY Symmetry
INVARIANT DirectoryStaysOpen
CHECK_DEADLOCK FALSE
