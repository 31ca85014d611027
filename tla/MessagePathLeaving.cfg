SPECIFICATION Spec
CONSTANTS
    u = u  v = v
    Change = {u, v}
    a = a  b = b
    Client = {a, b}
    Phantom = Phantom
    Count = 3
    MaxLength = 3
    MaxClock = 2
SYMMETRY Symmetry
INVARIANTS AbsenceGetsThrough
CHECK_DEADLOCK FALSE
