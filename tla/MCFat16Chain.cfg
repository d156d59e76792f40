CONSTANTS
    SectorSize = 2
    SectorsPerCluster = 2
    ReservedSectors = 9
    FATCopies = 2
    SectorsPerFAT = 5
    RootDirEntries = 3
    ItemSize = 2
    Clusters = {2, 3, 4}
    NameLength = 2
    ExtLength = 1
    Zero = "zero"
    lower <- MClower
    Files <- MCTwoFiles
    Paths <- MCPaths
    MaxChain = 2
    Sizes = {1, 2, 4}
    Members = {1, 2}
    Words = {0, 3}
    BlockItems = 4
    Behind = {0, 2}
    Debris <- MCDebris
    OffDisk <- MCOffDisk
SPECIFICATION FatSpec
INVARIANT CorrectCluster
