CONSTANTS
    Digit = {"0"}
    Letter = {"a", "b"}
    MAX_PATH_LEN = 8
    Starts <- MCStarts
    MaxTail = 8
SPECIFICATION Spec
INVARIANTS PartFits ParsesComponents NothingLost
PROPERTY ParsingEnds
CHECK_DEADLOCK FALSE
