SPECIFICATION Spec
CONSTANTS
    Clients = {c1, c2}
    Sessions = {s1, s2}
    MaxEntries = 1
    Limit = 2
    MaxRequests = 4
    None = None
CHECK_DEADLOCK FALSE
INVARIANTS
    BusySessionsStay
    UpdatesNotLost
