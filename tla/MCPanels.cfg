SPECIFICATION Spec
CONSTANTS
    Sources <- MCSources
    Words <- MCWords
    Surroundings <- MCSurroundings
    BEHIND = 2
    AHEAD = 4
    HEIGHT = 5
    FrameBytes <- MCFrameBytes
    COLUMNS = 2
    FRAME = 4
CHECK_DEADLOCK FALSE
INVARIANTS
    TypeOK
    RoundTrip
    CurrentShown
    ShownAsExecuted
    OnlyReportedUnlisted
    DumpTruthful
