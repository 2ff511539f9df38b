SPECIFICATION Spec
CONSTANTS
    PageSize = 8
    NPages = 6
    WordMax = 15
    KiB = 4
    ParaSize = 2
    MinTop = 16
    MinGap = 6
    NodeSize = 1
    NodeAlign = 1
    RunReqs <- MCRunReqs
    BootReqs <- MCBootReqs
INVARIANT
    FreeBlocksReported
