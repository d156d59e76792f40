CONSTANTS
    Total = 5
    BlockSize = 2
    Saddr = 4
    WordSize = 16
    Sizes = {0, 1, 3, 6, 8, 15}
SPECIFICATION Spec
INVARIANT InsideHeap
