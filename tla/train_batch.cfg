CONSTANTS
    Configs <- ModelConfigs
    Batches <- ModelBatches
    CheckLeast = 2
    CheckMost = 3
    MaxRollouts = 2
SPECIFICATION FairSpec
INVARIANTS RefusalsAreShared ShardsAgree PlanIsKept ReportIsTrue
PROPERTY RolloutEnds
CHECK_DEADLOCK FALSE
