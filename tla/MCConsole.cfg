SPECIFICATION FairConsoleSpec
CONSTANTS
    Threads = {t1, t2}
    NoThread = NoThread
    MaxDigits = 2
    MaxCalls = 2
    MaxReads = 2
    Chars = {a, EOF}
    EOF = EOF
    MaxTyped = 2
INVARIANTS
    DeviceIsIdle
    TextsAreWhole
    NothingLost
    PollsWhenEmpty
PROPERTIES
    CallsReturn
    ReadsReturn
