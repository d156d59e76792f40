CONSTANTS
    Total = 5
    BlockSize = 2
    Saddr = 4
    WordSize = 16
    Sizes = {0, 1, 3, 6, 15}
    RowCopies = 2
    MaxInterrupts = 2
SPECIFICATION IntSpec
INVARIANTS Disjoint HeldChains LostOnlyInHandler
PROPERTIES HandlerApart Atomic CallsReturn
