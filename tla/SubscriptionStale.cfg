SPECIFICATION Spec
CONSTANTS
    c1 = c1  c2 = c2
    Socket = {c1, c2}
    None = None
    Count = 1
    MaxHead = 2
    MaxCalls = 2
    MaxCachedCalls = 2
INVARIANTS NothingMissed
CHECK_DEADLOCK FALSE
