SPECIFICATION Spec
CONSTANTS
    Enabled = TRUE
    Limit = 1
    SavesFail = FALSE
    poll1 = poll1
    poll2 = poll2
    Polls = {poll1}
    MaxOps = 4
    MaxCrashes = 1
INVARIANTS
    AvailableIsCurrent
    CloudControlReachesCloud
    ChoiceStands
    CleanStop
CHECK_DEADLOCK FALSE
