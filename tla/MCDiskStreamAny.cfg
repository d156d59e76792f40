CONSTANTS
    SECTOR_SIZE = 4
    Sectors = 9
    Radix = 2
    Counts = {1, 3, 4, 5, 8, 10}
    Garbage = 999
SPECIFICATION Spec
INVARIANT OnlyDiskBytes
