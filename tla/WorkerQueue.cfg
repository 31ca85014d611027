SPECIFICATION Spec
CONSTANTS
    w1 = w1  w2 = w2
    u1 = u1  u2 = u2
    Worker = {w1, w2}
    Update = {u1, u2}
    Message <- Singletons
    None = None
    CheckLength = 1
    TTL = 2
    SlowJobs = TRUE
    MaxFailures = 0
    MaxCrashes = 0
    MaxTasks = 3
    MaxTime = 3
    MaxSeq = 0
    MinLifetime = 0
    MaxAppends = 2
    MaxJobs = 2
SYMMETRY Symmetry
CONSTRAINT Bounded
INVARIANTS NoLostUpdate StreamsAreQueued Inv
PROPERTIES ImplementsDurableRoom
CHECK_DEADLOCK FALSE
