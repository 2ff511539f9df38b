SPECIFICATION SpecAll
CONSTANTS
    BmemMax = 6
    Xm32Max = 96
    EntrySize = 1
    MinEntries = 16
    Maps <- MCMaps
    Requests <- MCRequests
    PageSize = 2
    LP = 8
    VaEntrySize = 1
    PdptSize = 1
    NumPds = 2
    MaxBlocks = 13
INVARIANTS
    Sorted AllocsDisjoint BelowLimit Tiles HolesExact IdMapped
PROPERTY
    Returns
