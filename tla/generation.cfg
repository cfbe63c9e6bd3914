CONSTANTS
    R = 3
    Workers = 3
    Parallel = 2
    Configs = 2
    MaxRestarts = 1
    MaxFaults = 2
SPECIFICATION FairSpec
INVARIANT ScoredIsWhole
PROPERTY ResumeFinishes
CHECK_DEADLOCK FALSE
