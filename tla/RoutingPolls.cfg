SPECIFICATION FairSpec
CONSTANTS
    Enabled = TRUE
    Limit = 1
    SavesFail = TRUE
    poll1 = poll1
    poll2 = poll2
    Polls = {poll1, poll2}
    MaxOps = 2
    MaxCrashes = 1
PROPERTIES
    TransitionsEnd
CHECK_DEADLOCK FALSE
