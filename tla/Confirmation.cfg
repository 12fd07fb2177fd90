SPECIFICATION MCSpec
CONSTANTS
    charging = charging
    power = power
    limit = limit
    on = on
    off = off
    None = None
    Alarm = Alarm
    On = on
    Charging = charging
    Fields <- MCFields
    Values <- MCValues
    Settings <- MCSettings
    Slots <- MCSlots
    Writes <- MCWrites
    Deadline = 2
    N = 2
    MaxHandovers = 1
INVARIANTS
    NewestOnly
    TimerWhileOwed
    RouteOfRequest
    ValidIsRecent
PROPERTIES
    ConfirmedByWallbox
CHECK_DEADLOCK FALSE
