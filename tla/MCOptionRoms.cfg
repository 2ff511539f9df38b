CONSTANTS
    HKib = 8
    PcirMin = 3
    MaxOrom = 64
    Buckets = 2
    NodeSize = 4
    Align = 16
    BmemMax = 256
    BaseBot = 18
    BaseTop = 88
    VboxId = 9
    FileLists <- MCFileLists
    DevLists <- MCDevLists
    Shadows <- MCShadows
SPECIFICATION FairSpec
INVARIANTS BestOfRom DeviceGetsItsRom VgaReady RomsApart
PROPERTY Terminates
