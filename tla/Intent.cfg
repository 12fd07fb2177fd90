SPECIFICATION PartsSpec
CONSTANTS
    None = None
    Choices <- MCChoices
    MaxChoices = 2
    MaxMoves = 1
    Base = 6
    ReadTime = 1
    HintLife = 2
    Spacing = 2
    Retry = 2
    Required = 3
    Handovers = 1
INVARIANTS
    SilenceBounded
    ClosedIsQuiet
PROPERTIES
    
    NewestCarriedOut
    StopKept
    ChoicesEnd
CHECK_DEADLOCK FALSE
