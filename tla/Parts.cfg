SPECIFICATION PartsSpec
CONSTANTS
    l1 = l1
    l2 = l2
    cloud = cloud
    other = other
    None = None
    Locals <- MCLocals
    Remotes <- MCRemotes
    MaxForeign = 2
    low = low
    high = high
    fast = fast
    pv = pv
    charging = charging
    limit = limit
    on = on
    off = off
    alarm = alarm
INVARIANTS
    RecoverableOwnership
    OnlyOwnValuesReplaced
PROPERTIES
    ImplementsCustody
    LockReturned
    EveryRequestEnds
    ReadbacksEnd
CHECK_DEADLOCK FALSE
