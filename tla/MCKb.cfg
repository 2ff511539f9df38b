SPECIFICATION FairSpec
CONSTANTS
    Keys = {"LSHFT", "CAPLK", "NUMLK", "ALT", "RCTL", "Q", "KP7"}
    KeyMap <- MCKeyMap
    BufStart = 30
    BufEnd = 36
    MaxTyped = 5
    MaxBacklog = 2
INVARIANTS
    Fifo AsTyped StatusShown
PROPERTY
    AllHandled
CHECK_DEADLOCK FALSE
