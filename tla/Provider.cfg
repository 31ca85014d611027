SPECIFICATION FairSpec
CONSTANTS
    a = a  b = b  u = u  v = v
    Client = {a, b}
    Change = {u, v}
    Patience = 1
    MaxFaults = 2
INVARIANTS TypeOK NothingForgotten
PROPERTIES EventuallyConverges
CHECK_DEADLOCK FALSE
