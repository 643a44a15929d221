SPECIFICATION FairSpec
CONSTANTS
    Threads = {t1, t2}
    Sessions = {s1, s2}
    MaxEntries = 1
    TTL = 1
    None = None
    MaxNow = 1
    MaxRequests = 4
CHECK_DEADLOCK FALSE
PROPERTIES
    GoneForGood
    BusySessionsStay
    RegisterSpec
    CallsEnd
