CONSTANTS
    Size <- TwoThenOne
    Configs = {c1, c2}
    NoConfig = NoConfig
    Runners = {r1, r2}
    MaxStarts = 2
    MaxEdits = 1
    MaxLosses = 1
SPECIFICATION FairSpec
INVARIANTS SuccessIsEarned StagesAreGated
PROPERTY WatcherAnswers
CHECK_DEADLOCK FALSE
