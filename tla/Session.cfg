SPECIFICATION Spec
CONSTANTS
    None = None
    Calls <- MCCalls
    Requests <- MCRequests
    Accounts = {"a", "b"}
    First <- MCFirst
    Attempts = 2
    Rounds = 2
INVARIANTS
    DoneAtMostOnce
    SessionOfAccount
PROPERTIES
    NothingReverted
    CallsEnd
CHECK_DEADLOCK FALSE
