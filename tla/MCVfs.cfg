CONSTANTS
    MAX_DESCRIPTORS = 3
    HeapBlocks = 28
    Root <- MCRoot
    Paths <- MCPaths
    Offsets = {0, 2, 3}
    MaxOpens = 4
    MaxPos = 3
SPECIFICATION Spec
INVARIANTS TypeOK OpenFilesIntact OpenFilesApart
PROPERTY ImplementsFileService
CHECK_DEADLOCK FALSE
