CONSTANTS
    VGA_WIDTH = 6
    VGA_HEIGHT = 5
    LastRow = 16
    KeyText <- MCKeyText
    Chars <- MCChars
    Digits <- MCDigits
    HexDigits <- MCHexDigits
    R = 4
    Message <- MCMessage
    LastMessage <- MCLastMessage
    PanicMark <- MCPanicMark
    PanicMessage <- MCPanicMessage
    Behind <- MCBehind
    gdt_structured <- MCgdt_structured
    Vectors <- MCVectors
    Lines = {0, 1}
    MaxEdges <- MCMaxEdges
    MaxLines = 3
SPECIFICATION Spec
INVARIANTS OffScreenOnlyWhenTorn NothingTooEarly SegmentsLoaded CountsUp
PROPERTIES ShowsPage Answered
CHECK_DEADLOCK FALSE
