SPECIFICATION MCSpec
CONSTANTS
    low = low
    high = high
    None = None
    N = 3
    Ops <- MCOps
    Modes <- MCModes
    Fast = fast
    fast = fast
    pv = pv
    Powers <- MCPowers
    RememberMode = TRUE
    PreservesAll = FALSE
    RequiresAdvance = TRUE
    MaxCalls = 2
    MaxReports = 1
INVARIANTS
    InCallOrder
    PowerStands
    NewestShown
    FailureLeavesNothing
    
PROPERTIES
    
    FencedRequests
    NothingAfterClose
CHECK_DEADLOCK FALSE
