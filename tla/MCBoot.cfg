SPECIFICATION Spec
CONSTANTS
    HALF = 16
    SIZET = 128
    PAGE = 4
    BLOCK = 2
    HARDCAP = 4
    Numbers <- MCNumbers
    DefaultRam = 2
    MaxMaps = 2
    FileSizes = {0, 1, 4, 6, 9, 12, 16, 35}
CHECK_DEADLOCK FALSE
INVARIANTS
    TypeOK
    LoadedExactly
    RefusedOnlyIfShort
    EnoughFromMapStart
    ReadyToRun
