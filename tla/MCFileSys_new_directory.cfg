SPECIFICATION Spec
CONSTANTS
    Names = {a, b}
    DirNames = {a}
    NumSectors = 14
    NumDirect = 1
    TableSize = 4
    NumTriple = 1
    NumDirEntries = 2
    FileSizes = {1}
INVARIANT NewDirectoryIsEmpty
