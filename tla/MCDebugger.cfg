SPECIFICATION FairSpec
CONSTANTS
    Sizes <- MCSizes
    MINHEIGHT = 3
    MINWIDTH = 6
    LABEL = 2
    Lengths = {1, 2}
    INT = 4
    MaxSteps = 3
    MaxResizes = 2
CHECK_DEADLOCK FALSE
INVARIANTS
    TypeOK
    SizeKnown
    PanelHoldsOutput
    InputInBuffer
PROPERTIES
    RunsWhatIsShown
    PromptAnswered
