SPECIFICATION FairSpec
CONSTANTS
    s1 = s1  s2 = s2
    Server = {s1, s2}
    None = None
    MaxConnects = 2
    MaxAppends = 1
    MaxCalls = 1
    MaxFaults = 1
INVARIANTS TypeOK UnsavedIsWatched IdleIsCleanedUp NothingLeftBehind
PROPERTIES DesertedIsClosed
CHECK_DEADLOCK FALSE
