SPECIFICATION Spec
CONSTANTS
    Names = {a, b, c}
    DirNames = {a}
    NumSectors = 19
    NumDirect = 1
    TableSize = 2
    NumTriple = 1
    NumDirEntries = 2
    FileSizes = {3, 5}
INVARIANTS
    NothingShared
    BitmapIsExact
    NamesAreUnique
    StopLosesNoSpace
    StopLeavesHeaders
