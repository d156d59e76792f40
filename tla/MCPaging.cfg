CONSTANTS
    Entries = 4
    PageSize = 8
    HeapStart = 2
    HeapEnd = 14
    Flags = {7}
    Values = {0, 123}
    UserPages = {1, 15}
    Offsets = {0, 5}
    Elsewhere = {{}, {2, 5}}
SPECIFICATION Spec
INVARIANTS TypeOK TablesApart HeapStaysMapped
PROPERTIES ImplementsAddressSpace SetsThePage AccessFollowsTables
