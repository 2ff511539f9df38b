SPECIFICATION FairSpec
CONSTANTS
    PageSize = 8
    NPages = 6
    WordMax = 15
    KiB = 4
    ParaSize = 2
    MinTop = 16
    MinGap = 6
    NodeSize = 2
    NodeAlign = 2
    RunReqs <- MCRunReqs
    BootReqs <- MCBootReqs
INVARIANTS
    TypeOK GrabsEverything GroupsExactly NoOverlap Scratch RamIsFree ReportUsable
PROPERTY
    Terminates
