SPECIFICATION Spec
CONSTANTS
    s1 = s1  s2 = s2
    r1 = r1
    u1 = u1  u2 = u2
    Server = {s1, s2}
    Reader = {r1}
    Update = {u1}
    Message <- Singletons
    None = None
    Gone = Gone
    Faults = {"lapse", "abandon", "crash"}
    MaxSeq = 1
    MinLifetime = 1
    TTL = 2
    MaxSkew = 1
    MaxTime = 3
    MaxAppends = 2
    MaxStrays = 1
SYMMETRY Symmetry
CONSTRAINT Bounded
INVARIANTS TypeOK NoLostUpdate ReadsComplete Inv
PROPERTIES TrimsAreSafe ImplementsDurableRoom
CHECK_DEADLOCK FALSE
