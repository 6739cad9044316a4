SPECIFICATION Spec
CONSTANTS
    HALF = 128
    SIZET = 1024
    PAGE = 8
    BLOCK = 4
    HARDCAP = 4
    XLEN = 8
    BYTE = 4
    ALT = 1
    Cmdlines <- MCCmdlinesUnaligned
    Debug = {TRUE, FALSE}
    NoopStub = {FALSE}
    Images <- MCImages
    Insts <- MCInsts
    Inputs <- MCInputs
    BEHIND = 4
    AHEAD = 8
    FRAME = 4
    MaxSteps = 3
CHECK_DEADLOCK FALSE
PROPERTIES
    JalrJumpsToRs1
