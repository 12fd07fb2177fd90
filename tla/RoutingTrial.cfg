SPECIFICATION FairSpec
CONSTANTS
    Enabled = TRUE
    Limit = 1
    SavesFail = FALSE
    poll1 = poll1
    poll2 = poll2
    Polls = {poll1}
    MaxOps = 2
    MaxCrashes = 0
PROPERTIES
    TrialsEnd
CHECK_DEADLOCK FALSE
