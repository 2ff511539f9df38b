SPECIFICATION Spec
CONSTANTS
    BmemMax = 6
    Xm32Max = 32
    EntrySize = 1
    MinEntries = 7
    Maps <- MCMaps
    Requests <- MCRequests
INVARIANT
    StopsAtBottom
