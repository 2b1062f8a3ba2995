SPECIFICATION FairSpec
CONSTANTS
    Unit = 3
    Blocks = 2
    MaxCount = 14
    Sizes <- MCSizes
    Wide <- MCWide
    Limit = 2
    MaxHeader = 4
CHECK_DEADLOCK FALSE
INVARIANTS
    IntactIsWhole
    CutIsNoticed
    BareListsAreShort
PROPERTIES
    EveryCallEnds
    ImplementsTransfer
