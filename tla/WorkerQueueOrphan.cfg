SPECIFICATION FairSpec
CONSTANTS
    w1 = w1  w2 = w2
    u1 = u1  u2 = u2
    Worker = {w1}
    Update = {u1, u2}
    Message <- Singletons
    None = None
    CheckLength = 1
    TTL = 2
    SlowJobs = FALSE
    MaxFailures = 0
    MaxCrashes = 0
    MaxTasks = 2
    MaxTime = 2
    MaxSeq = 1
    MinLifetime = 0
    MaxAppends = 2
    MaxJobs = 2
PROPERTIES EventuallyPersisted
CHECK_DEADLOCK FALSE
