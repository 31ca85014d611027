SPECIFICATION Spec
CONSTANTS
    u = u  v = v
    Change = {u, v}
    a = a  b = b
    Client = {a, b}
    Phantom = Phantom
    Count = 3
    MaxLength = 5
    MaxClock = 2
SYMMETRY Symmetry
INVARIANTS TypeOK ChangesGetThrough PresenceGetsThrough
CHECK_DEADLOCK FALSE
