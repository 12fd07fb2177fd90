SPECIFICATION MCFairSpec
CONSTANTS
    None = None
    MaxPower = 2
    Grace = 1
    Attempts = 2
    Users <- MCUsers
    Reported <- MCReported
    Controls <- MCControls
INVARIANTS
    StartIsSupervised
PROPERTIES
    WrittenInSession
    ConfirmedAfterStop
    AlarmStays
    ToleratedIsRecent
    GuardSettles
CHECK_DEADLOCK FALSE
