SPECIFICATION FairSpec
CONSTANTS
    c1 = c1  c2 = c2
    Socket = {c1, c2}
    None = None
    Count = 1
    MaxHead = 2
    MaxCalls = 2
    MaxCachedCalls = 1
INVARIANTS TypeOK NothingMissedUncached HandlerCatchesUp
PROPERTIES EverythingArrives
CHECK_DEADLOCK FALSE
