SPECIFICATION FairSpec
CONSTANTS
    w1 = w1  w2 = w2
    u1 = u1  u2 = u2
    Worker = {w1, w2}
    Update = {u1, u2}
    Message <- Singletons
    None = None
    CheckLength = 1
    TTL = 2
    SlowJobs = FALSE
    MaxFailures = 1
    MaxCrashes = 1
    MaxTasks = 3
    MaxTime = 2
    MaxSeq = 0
    MinLifetime = 0
    MaxAppends = 2
    MaxJobs = 2
CONSTRAINT Bounded
INVARIANTS TypeOK StreamsAreQueued
PROPERTIES EventuallyPersistedUnlessRaced
CHECK_DEADLOCK FALSE
