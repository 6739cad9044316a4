SPECIFICATION Spec
CONSTANTS
    HALF = 16
    SIZET = 128
    PAGE = 4
    BLOCK = 2
    HARDCAP = 2
    Numbers <- MCNumbers
    DefaultRam = 2
CHECK_DEADLOCK FALSE
INVARIANTS
    TypeOK
    OnlyAccepted
    RamOrMaps
    ListingIsTable
