SPECIFICATION Spec
CONSTANTS
    HALF = 16
    SIZET = 128
    PAGE = 4
    BLOCK = 2
    HARDCAP = 3
    Cmdlines <- MCCmdlines
    ChosenAddr = {0, 2, 4, 8, 14}
    Asked = {0, 2, 5, 8, 13, 18}
    ChosenSize = {4, 8, 32, 36}
    MaxMaps = 2
    LoadAt = {0, 5}
    Ram = {4, 12}
CHECK_DEADLOCK FALSE
INVARIANTS
    TypeOK
    MemoTransparent
    Separate
    ContiguousExact
    ContiguousNeverShort
PROPERTIES
    ContiguousReturns
    ImplementsAddressSpace
