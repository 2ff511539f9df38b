SPECIFICATION Spec
CONSTANTS
    PageSize = 2
    LP = 2
    NPages = 12
    Layouts <- MCLayouts
    BaseFlags = "wt"
    MaxRanges = 3
    PtRoom = 4
    Requests <- MCRequests
    MaxLive = 4
INVARIANTS
    Conserved Translates Restored
PROPERTY
    Promise
