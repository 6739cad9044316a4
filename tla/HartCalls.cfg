SPECIFICATION Spec
CONSTANTS
    HALF = 128
    SIZET = 1024
    PAGE = 8
    BLOCK = 4
    HARDCAP = 4
    XLEN = 8
    BYTE = 4
    ALT = 1
    Cmdlines <- MCCmdlinesCalls
    Debug = {TRUE, FALSE}
    NoopStub = {TRUE, FALSE}
    Images <- MCImages
    Insts <- MCCalls
    Inputs <- MCInputs
    BEHIND = 4
    AHEAD = 8
    FRAME = 4
    MaxSteps = 4
CHECK_DEADLOCK FALSE
PROPERTIES
    ImplementsGuestMachine
    DefinedInsideMaps
    WritesWhatIsThere
    ReadsNoMoreThanAsked
