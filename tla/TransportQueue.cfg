SPECIFICATION MCSpec
CONSTANTS
    None = None
    MaxPower = 2
    Grace = 1
    Attempts = 1
    Users <- MCUsers
    Reported <- MCFewReported
    Controls <- MCFewControls
PROPERTIES
    StopIsSent
CHECK_DEADLOCK FALSE
