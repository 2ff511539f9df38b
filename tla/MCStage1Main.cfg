SPECIFICATION Spec
CONSTANTS
    PageSize = 2
    NPages = 9
    BmemPages = 2
    Xm32Pages = 7
    BdaEnd = 2
    BdaWords = {1}
    MaxPhdrs = 3
    StartMaps <- MCStartMaps
    Disks <- MCDisks
    TicksPerSecond = 2
    SecondsPerMinute = 3
    Minutes = 2
    MaxHalt = 2
    MaxKey = 4
INVARIANTS
    Loaded ReportTrue NotGivenAway UndoExact
PROPERTY
    Ends
