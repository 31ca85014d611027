SPECIFICATION FairSpec
CONSTANTS
    a = a
    Room = {a}
    r1 = r1  r2 = r2
    Request = {r1, r2}
    MaxThreads = 3
    MaxStumbles = 1
INVARIANTS TypeOK ResolvedIsStored NoOrphanRequest ReadyIsCurrent OneThread
PROPERTIES EverySaveSettles StopsForGood
CHECK_DEADLOCK FALSE
