SPECIFICATION FairSpec
CONSTANTS
    s1 = s1  s2 = s2
    Server = {s1, s2}
    None = None
    Failed = Failed
    WorkerDisabled = TRUE
    MaxAcquires = 2
    MaxBreaks = 1
INVARIANTS TypeOK BeliefIsTrue LeaseIsAccountedFor
PROPERTIES LeaseIsGivenBack FalseBeliefEnds
CHECK_DEADLOCK FALSE
