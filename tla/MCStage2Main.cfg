SPECIFICATION Spec
CONSTANTS
    PageSize = 8
    XsdpSize = 4
    HeaderSize = 4
    PointerSize = 1
    MadtFixedSize = 5
    FadtMinSize = 5
    UnionSize = 6
    IoapicSize = 2
    PinsScanned = 3
    PinCount = 3
    VaPages <- MCVaPages
    Machines <- MCMachines
    Segs = {"s1", "s2", "s3"}
    TempEbda = "s1"
    DeviceLists <- MCDeviceLists
    Lines = {0, 1, 4, 8}
INVARIANTS
    Served ReadsMapped Intact
PROPERTY
    KeepsTicking
