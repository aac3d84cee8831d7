SPECIFICATION Spec
CONSTANTS
    Programs = {p, q, r}
    Main = main
    NumPhysPages = 5
    Shapes <- Files
    NotFound = NotFound
    Unset = Unset
    Addressed = {0, 1, 2}
    MaxSteps = 1
SYMMETRY Symmetry
INVARIANTS
    FrameHasOneOwner
    NoFrameLost
    RunsAsItself
PROPERTY WritesOwnMemory
