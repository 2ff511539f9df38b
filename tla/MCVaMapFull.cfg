SPECIFICATION Spec
CONSTANTS
    PageSize = 2
    LP = 2
    NPages = 12
    Layouts <- OneHole
    BaseFlags = "wt"
    MaxRanges = 4
    PtRoom = 4
    Requests <- MCRequests
    MaxLive = 2
INVARIANT
    UnmapReturns
